---------------------------- MODULE MemoryProofs ----------------------------
(***************************************************************************)
(* Proofs about what is built from frames: the back buffer, the DMA buffers *)
(* and the heap of DOOM, for every boot stack and every number of pages;   *)
(* the USB DMA pool, for every page size, pool limit, supply of frames and *)
(* set of requests; and the AHCI heap, for every mix of requests of at most *)
(* a page.                                                                 *)
(***************************************************************************)
EXTENDS FrameUsers, UsbDmaPool, AhciHeap, Lemmas, FiniteSetTheorems

\* A leaf that names no prover is tried with SMT, then with Zenon, for at most 20 seconds each.
USE SMTT(20), ZenonT(20)

-----------------------------------------------------------------------------
(* The users of several frames, FrameUsers                                 *)

\* A boot stack as pmm_init leaves it, and DMA buffers of one page, for which
\* the one frame that dma_alloc takes is enough.
OneFrameDma ==
    /\ PMM_STACK_SIZE \in Nat /\ BootStack \in Seq(Nat \ {0})
    /\ Len(BootStack) <= PMM_STACK_SIZE
    /\ \A j, k \in 1..Len(BootStack) : BootStack[j] = BootStack[k] => j = k
    /\ BackPages \subseteq Nat \ {0} /\ DmaPages \subseteq {1} /\ DoomPages \in Nat \ {0}

BootFrames == {BootStack[k] : k \in 1..Len(BootStack)}
FramesOn(s) == {s[k] : k \in 1..Len(s)}
NoneTwice(s) == \A j, k \in 1..Len(s) : s[j] = s[k] => j = k
StackOf(s) == s \in Seq(BootFrames) /\ NoneTwice(s)

Buffers(P) == {NoBuffer} \cup [base : BootFrames, pages : P]

UsersTypeOK ==
    /\ StackOf(pmm_stack)
    /\ back \in Buffers(Nat \ {0}) /\ dma \in [DmaSlots -> Buffers({1})]
    /\ doom \in Nat
    /\ got \in [Users -> SUBSET BootFrames]

\* A frame is on the stack or with one user.
OneOwner ==
    /\ \A u \in Users : got[u] \cap FramesOn(pmm_stack) = {}
    /\ \A u, v \in Users : u # v => got[u] \cap got[v] = {}

\* Buffers lie in the frames of their users, and DMA buffers apart.
InOwnFrames ==
    /\ PagesOf(back) \subseteq got["back"]
    /\ \A s \in DmaSlots : PagesOf(dma[s]) \subseteq got["dma"]
    /\ \A s, t \in DmaSlots : s # t /\ dma[s].pages = 1 => dma[s].base # dma[t].base
    /\ doom # 0 => doom \in got["doom"]

UsersInv == OneFrameDma /\ UsersTypeOK /\ OneOwner /\ InOwnFrames

-----------------------------------------------------------------------------
\* The frames of the boot stack are finite in number.
LEMMA BootFinite ==
    ASSUME OneFrameDma
    PROVE  /\ IsFiniteSet(BootFrames) /\ Cardinality(BootFrames) <= PMM_STACK_SIZE
           /\ BootFrames \subseteq Nat \ {0} /\ Cardinality(BootFrames) \in Nat
<1> DEFINE n == Len(BootStack)
<1>1. n \in Nat /\ n <= PMM_STACK_SIZE /\ PMM_STACK_SIZE \in Nat
  BY DEF OneFrameDma
<1>2. BootStack \in [1..n -> BootFrames] /\ BootFrames \subseteq Nat \ {0}
  BY DEF OneFrameDma, BootFrames
<1>3. IsFiniteSet(1..n) /\ Cardinality(1..n) = n
  <2> HIDE DEF n
  <2>1. 1 \in Int /\ n \in Int
    BY <1>1
  <2>2. IsFiniteSet(1..n) /\ Cardinality(1..n) = IF 1 > n THEN 0 ELSE n - 1 + 1
    BY <2>1, FS_Interval, Zenon
  <2> QED
    BY <1>1, <2>2
<1>4. BootStack \in Surjection(1..n, BootFrames)
  BY <1>2, Zenon DEF Surjection, BootFrames
<1>5. IsFiniteSet(BootFrames) /\ Cardinality(BootFrames) <= n
  BY <1>3, <1>4, FS_Surjection
<1>6. Cardinality(BootFrames) \in Nat
  BY <1>5, FS_CardinalityType, Zenon
<1> HIDE DEF n
<1> QED
  BY <1>1, <1>2, <1>5, <1>6

\* Distinct frames of the boot stack fit into the array.
LEMMA FramesFit ==
    ASSUME OneFrameDma, NEW s, StackOf(s)
    PROVE  Len(s) <= PMM_STACK_SIZE
<1> DEFINE n == Len(s)
<1>1. n \in Nat /\ s \in [1..n -> BootFrames]
  BY DEF StackOf
<1>2. s \in Injection(1..n, BootFrames)
  BY <1>1, Zenon DEF Injection, IsInjective, StackOf, NoneTwice
<1>3. Cardinality(1..n) <= Cardinality(BootFrames)
  BY <1>2, BootFinite, FS_Injection, Zenon
<1> HIDE DEF n
<1>4. Cardinality(1..n) = n
  <2>1. 1 \in Int /\ n \in Int
    BY <1>1
  <2>2. Cardinality(1..n) = IF 1 > n THEN 0 ELSE n - 1 + 1
    BY <2>1, FS_Interval, Zenon
  <2> QED
    BY <1>1, <2>2
<1>5. PMM_STACK_SIZE \in Nat
  BY Zenon DEF OneFrameDma
<1>6. n <= PMM_STACK_SIZE
  BY <1>1, <1>3, <1>4, <1>5, BootFinite
<1> QED
  BY <1>6, Zenon DEF n

\* Popping takes the frames off, and leaves the others.
LEMMA Popping ==
    ASSUME UsersTypeOK, NEW n \in 0..Top
    PROVE  /\ StackOf(Without(n))
           /\ Taken(n) \subseteq FramesOn(pmm_stack)
           /\ FramesOn(Without(n)) = FramesOn(pmm_stack) \ Taken(n)
<1> DEFINE s == pmm_stack
           w == Without(n)
<1>1. s \in Seq(BootFrames) /\ Len(s) \in Nat /\ NoneTwice(s) /\ n \in 0..Len(s)
  BY DEF UsersTypeOK, StackOf, Top
<1>2. w \in Seq(BootFrames) /\ Len(w) = Len(s) - n /\ \A k \in 1..(Len(s) - n) : w[k] = s[k]
  BY <1>1 DEF Without, Top
<1>3. Taken(n) = {s[Len(s) - k] : k \in 0..(n - 1)}
  BY Zenon DEF Taken, Nth, Top
<1> HIDE DEF s, w
<1>4. StackOf(w)
  BY <1>1, <1>2 DEF StackOf, NoneTwice
<1>5. Taken(n) \subseteq FramesOn(s)
  BY <1>1, <1>3 DEF FramesOn
<1>6. ASSUME NEW k \in 1..Len(w) PROVE w[k] \in FramesOn(s) \ Taken(n)
  <2>1. k \in 1..Len(s) /\ w[k] = s[k]
    BY <1>1, <1>2
  <2>2. \A j \in 0..(n - 1) : Len(s) - j \in 1..Len(s) /\ Len(s) - j # k
    BY <1>1, <1>2
  <2> QED
    BY <1>1, <1>3, <2>1, <2>2, Zenon DEF FramesOn, NoneTwice
<1>7. ASSUME NEW k \in 1..Len(s), s[k] \notin Taken(n) PROVE s[k] \in FramesOn(w)
  <2>1. CASE k <= Len(s) - n
    BY <1>1, <1>2, <2>1 DEF FramesOn
  <2>2. CASE k > Len(s) - n
    <3>1. Len(s) - k \in 0..(n - 1) /\ Len(s) - (Len(s) - k) = k
      BY <1>1, <2>2
    <3> QED
      BY <1>3, <1>7, <3>1, Zenon
  <2> QED
    BY <1>1, <2>1, <2>2
<1>8. FramesOn(w) = FramesOn(s) \ Taken(n)
  <2>1. FramesOn(w) \subseteq FramesOn(s) \ Taken(n)
    BY <1>6, Zenon DEF FramesOn
  <2>2. FramesOn(s) \ Taken(n) \subseteq FramesOn(w)
    BY <1>7, Zenon DEF FramesOn
  <2> QED
    BY <2>1, <2>2, Zenon
<1> QED
  BY <1>4, <1>5, <1>8, Zenon DEF s, w

\* Pushing frames of a user keeps them all, as there is room for every frame.
LEMMA Pushing ==
    ASSUME OneFrameDma, UsersTypeOK, NEW fs, StackOf(fs),
           FramesOn(fs) \cap FramesOn(pmm_stack) = {}
    PROVE  /\ Push(fs) = pmm_stack \o fs
           /\ StackOf(Push(fs))
           /\ FramesOn(Push(fs)) = FramesOn(pmm_stack) \cup FramesOn(fs)
<1> DEFINE s == pmm_stack
           w == pmm_stack \o fs
<1>1. s \in Seq(BootFrames) /\ Len(s) \in Nat /\ NoneTwice(s)
  BY DEF UsersTypeOK, StackOf
<1>2. fs \in Seq(BootFrames) /\ Len(fs) \in Nat /\ NoneTwice(fs)
  BY DEF StackOf
<1>3. /\ w \in Seq(BootFrames) /\ Len(w) = Len(s) + Len(fs)
      /\ \A k \in 1..Len(s) : w[k] = s[k]
      /\ \A k \in 1..Len(fs) : w[Len(s) + k] = fs[k]
  BY <1>1, <1>2
<1>0. FramesOn(fs) \cap FramesOn(s) = {}
  BY Zenon
<1>4. Push(fs) = IF Len(w) > PMM_STACK_SIZE THEN SubSeq(w, 1, PMM_STACK_SIZE) ELSE w
  BY Zenon DEF Push
<1> HIDE DEF s, w
<1>5. \A k \in 1..Len(w) : k \in 1..Len(s) \/ (k - Len(s) \in 1..Len(fs) /\ w[k] = fs[k - Len(s)])
  <2> SUFFICES ASSUME NEW k \in 1..Len(w), k \notin 1..Len(s)
               PROVE  k - Len(s) \in 1..Len(fs) /\ w[k] = fs[k - Len(s)]
    BY Zenon
  <2>1. k - Len(s) \in 1..Len(fs) /\ Len(s) + (k - Len(s)) = k
    BY <1>1, <1>2, <1>3
  <2> QED
    BY <1>3, <2>1, Zenon
<1>6. NoneTwice(w)
  <2> SUFFICES ASSUME NEW j \in 1..Len(w), NEW k \in 1..Len(w), w[j] = w[k] PROVE j = k
    BY Zenon DEF NoneTwice
  <2>1. CASE j \in 1..Len(s) /\ k \in 1..Len(s)
    BY <1>1, <1>3, <2>1, Zenon DEF NoneTwice
  <2>2. CASE j \notin 1..Len(s) /\ k \notin 1..Len(s)
    <3>1. j - Len(s) = k - Len(s)
      BY <1>2, <1>5, <2>2, Zenon DEF NoneTwice
    <3> QED
      BY <1>1, <1>3, <3>1
  <2>3. CASE j \in 1..Len(s) /\ k \notin 1..Len(s)
    <3>1. w[j] \in FramesOn(s)
      BY <1>3, <2>3, Zenon DEF FramesOn
    <3>2. w[k] \in FramesOn(fs)
      BY <1>5, <2>3, Zenon DEF FramesOn
    <3> QED
      BY <1>0, <3>1, <3>2, Zenon
  <2>4. CASE j \notin 1..Len(s) /\ k \in 1..Len(s)
    <3>1. w[k] \in FramesOn(s)
      BY <1>3, <2>4, Zenon DEF FramesOn
    <3>2. w[j] \in FramesOn(fs)
      BY <1>5, <2>4, Zenon DEF FramesOn
    <3> QED
      BY <1>0, <3>1, <3>2, Zenon
  <2> QED
    BY <2>1, <2>2, <2>3, <2>4, Zenon
<1>7. StackOf(w)
  BY <1>3, <1>6, Zenon DEF StackOf
<1>8. Len(w) <= PMM_STACK_SIZE
  BY <1>7, FramesFit, Zenon
<1>9. Push(fs) = w
  BY <1>1, <1>2, <1>3, <1>4, <1>8 DEF OneFrameDma
<1>10. FramesOn(w) = FramesOn(s) \cup FramesOn(fs)
  <2>1. ASSUME NEW k \in 1..Len(w) PROVE w[k] \in FramesOn(s) \cup FramesOn(fs)
    BY <1>3, <1>5, Zenon DEF FramesOn
  <2>2. ASSUME NEW k \in 1..Len(s) PROVE s[k] \in FramesOn(w)
    <3>1. k \in 1..Len(w)
      BY <1>1, <1>2, <1>3
    <3> QED
      BY <1>3, <3>1, Zenon DEF FramesOn
  <2>3. ASSUME NEW k \in 1..Len(fs) PROVE fs[k] \in FramesOn(w)
    <3>1. Len(s) + k \in 1..Len(w)
      BY <1>1, <1>2, <1>3
    <3> QED
      BY <1>3, <3>1, Zenon DEF FramesOn
  <2> QED
    BY <2>1, <2>2, <2>3, Zenon DEF FramesOn
<1> QED
  BY <1>7, <1>9, <1>10, Zenon DEF s, w

-----------------------------------------------------------------------------
\* In a descending run the frame k places below the top is k less than the top.
LEMMA RunIs ==
    ASSUME NEW s, s \in Seq(Nat), NEW n \in Nat \ {0}, DescendingRun(s, n)
    PROVE  \A k \in 0..(n - 1) : s[Len(s) - k] = s[Len(s)] - k
<1> DEFINE Bad == {k \in 0..(n - 1) : s[Len(s) - k] # s[Len(s)] - k}
<1>1. Len(s) \in Nat /\ Len(s) >= n
  BY DEF DescendingRun
<1>2. Bad \subseteq Nat
  OBVIOUS
<1>3. SUFFICES ASSUME Bad # {} PROVE FALSE
  BY Zenon
<1> DEFINE k == Min(Bad)
<1>4. k \in Bad /\ \A y \in Bad : k =< y
  BY <1>2, <1>3, MinIsLeast, Zenon
<1>5. k \in 0..(n - 1) /\ s[Len(s) - k] # s[Len(s)] - k
  BY <1>4, Zenon
<1>6. ASSUME k # 0 PROVE k - 1 \in 0..(n - 1) /\ s[Len(s) - (k - 1)] = s[Len(s)] - (k - 1)
  <2>1. k - 1 \in 0..(n - 1) /\ ~(k =< k - 1)
    BY <1>5, <1>6
  <2> QED
    BY <1>4, <2>1, Zenon
<1> HIDE DEF k, Bad
<1>7. k # 0
  BY <1>1, <1>5
<1>8. k \in 1..(n - 1)
  BY <1>5, <1>7
<1>9. s[Len(s) - k] = s[Len(s) - k + 1] - 1
  BY <1>8, Zenon DEF DescendingRun
<1>10. Len(s) - k + 1 = Len(s) - (k - 1)
  BY <1>1, <1>8
<1>11. s[Len(s)] \in Nat
  BY <1>1
<1> QED
  BY <1>5, <1>6, <1>7, <1>8, <1>9, <1>10, <1>11

\* The pages of a buffer made of a descending run are the frames of the run.
LEMMA RunPages ==
    ASSUME OneFrameDma, UsersTypeOK, NEW n \in Nat \ {0}, DescendingRun(pmm_stack, n)
    PROVE  /\ n \in 0..Top /\ Nth(0) - (n - 1) \in BootFrames
           /\ PagesOf([base |-> Nth(0) - (n - 1), pages |-> n]) = Taken(n)
<1> DEFINE s == pmm_stack
           b == Nth(0) - (n - 1)
<1>1. s \in Seq(BootFrames) /\ Len(s) \in Nat /\ Len(s) >= n
  BY DEF UsersTypeOK, StackOf, DescendingRun
<1>2. s \in Seq(Nat)
  BY <1>1, BootFinite
<1>3. \A k \in 0..(n - 1) : s[Len(s) - k] = s[Len(s)] - k
  BY <1>2, RunIs, Zenon
<1>4. Taken(n) = {s[Len(s) - k] : k \in 0..(n - 1)} /\ b = s[Len(s)] - (n - 1)
  BY <1>1 DEF Taken, Nth, Top
<1>5. s[Len(s)] \in Nat
  BY <1>1, <1>2
<1>6. s[Len(s) - (n - 1)] \in BootFrames
  BY <1>1
<1>7. PagesOf([base |-> b, pages |-> n]) = b..(b + n - 1)
  BY Zenon DEF PagesOf
<1> HIDE DEF s, b
<1>8. ASSUME NEW x \in b..(b + n - 1) PROVE x \in Taken(n)
  <2>1. s[Len(s)] - x \in 0..(n - 1) /\ s[Len(s)] - (s[Len(s)] - x) = x
    <3> DEFINE t == s[Len(s)]
    <3>1. t \in Nat /\ b = t - (n - 1)
      BY <1>4, <1>5, Zenon
    <3> HIDE DEF t
    <3>2. t - x \in 0..(n - 1) /\ t - (t - x) = x
      BY <3>1
    <3> QED
      BY <3>2, Zenon DEF t
  <2> QED
    BY <1>3, <1>4, <2>1, Zenon
<1>9. ASSUME NEW k \in 0..(n - 1) PROVE s[Len(s) - k] \in b..(b + n - 1)
  <2>1. s[Len(s) - k] = s[Len(s)] - k /\ b = s[Len(s)] - (n - 1)
    BY <1>3, <1>4, Zenon
  <2>2. \A x \in Nat : x - k \in (x - (n - 1))..((x - (n - 1)) + n - 1)
    OBVIOUS
  <2> QED
    BY <1>5, <2>1, <2>2, Zenon
<1>10. PagesOf([base |-> b, pages |-> n]) = Taken(n)
  BY <1>4, <1>7, <1>8, <1>9
<1>11. b \in BootFrames
  BY <1>3, <1>4, <1>6
<1> QED
  BY <1>1, <1>10, <1>11 DEF s, b, Top

LEMMA NoPages == PagesOf(NoBuffer) = {}
BY DEF PagesOf, NoBuffer

LEMMA OnePage == \A b \in Nat : PagesOf([base |-> b, pages |-> 1]) = {b}
BY DEF PagesOf

\* Frames go from the stack to user u.
Takes(u, n) ==
    /\ pmm_stack' = Without(n)
    /\ got' = [got EXCEPT ![u] = @ \cup Taken(n)]

LEMMA TakingKeeps ==
    ASSUME UsersTypeOK, OneOwner, NEW u \in Users, NEW n \in 0..Top, Takes(u, n)
    PROVE  /\ StackOf(pmm_stack') /\ got' \in [Users -> SUBSET BootFrames] /\ OneOwner'
           /\ \A v \in Users : got[v] \subseteq got'[v]
           /\ Taken(n) \subseteq got'[u] /\ Taken(n) \cap got[u] = {}
<1>1. StackOf(pmm_stack') /\ Taken(n) \subseteq FramesOn(pmm_stack)
      /\ FramesOn(pmm_stack') = FramesOn(pmm_stack) \ Taken(n)
  BY Popping, Zenon DEF Takes
<1>2. FramesOn(pmm_stack) \subseteq BootFrames
  BY DEF UsersTypeOK, StackOf, FramesOn
<1>3. got \in [Users -> SUBSET BootFrames]
  BY Zenon DEF UsersTypeOK
<1>4. /\ got' \in [Users -> SUBSET BootFrames]
      /\ got'[u] = got[u] \cup Taken(n) /\ \A v \in Users : v # u => got'[v] = got[v]
  BY <1>1, <1>2, <1>3, Zenon DEF Takes
<1>5. OneOwner'
  BY <1>1, <1>4, Zenon DEF OneOwner
<1>6. Taken(n) \cap got[u] = {}
  BY <1>1, Zenon DEF OneOwner
<1> QED
  BY <1>1, <1>4, <1>5, <1>6, Zenon

\* And from user u, who has them, to the stack.
GivesBack(u, fs) ==
    /\ pmm_stack' = Push(fs)
    /\ got' = [got EXCEPT ![u] = @ \ FramesOn(fs)]

LEMMA GivingKeeps ==
    ASSUME OneFrameDma, UsersTypeOK, OneOwner, NEW u \in Users,
           NEW fs, StackOf(fs), FramesOn(fs) \subseteq got[u], GivesBack(u, fs)
    PROVE  /\ StackOf(pmm_stack') /\ got' \in [Users -> SUBSET BootFrames] /\ OneOwner'
           /\ pmm_stack' = pmm_stack \o fs
           /\ got'[u] = got[u] \ FramesOn(fs) /\ \A v \in Users : v # u => got'[v] = got[v]
<1>1. FramesOn(fs) \cap FramesOn(pmm_stack) = {}
  BY Zenon DEF OneOwner
<1>2. /\ StackOf(pmm_stack') /\ pmm_stack' = pmm_stack \o fs
      /\ FramesOn(pmm_stack') = FramesOn(pmm_stack) \cup FramesOn(fs)
  BY <1>1, Pushing, Zenon DEF GivesBack
<1>3. got \in [Users -> SUBSET BootFrames]
  BY Zenon DEF UsersTypeOK
<1>4. /\ got' \in [Users -> SUBSET BootFrames]
      /\ got'[u] = got[u] \ FramesOn(fs) /\ \A v \in Users : v # u => got'[v] = got[v]
  BY <1>3, Zenon DEF GivesBack
<1>5. OneOwner'
  BY <1>2, <1>4, Zenon DEF OneOwner
<1> QED
  BY <1>2, <1>4, <1>5, Zenon

-----------------------------------------------------------------------------
LEMMA UsersNames == "back" \in Users /\ "dma" \in Users /\ "doom" \in Users
                    /\ "back" # "dma" /\ "back" # "doom" /\ "dma" # "doom"
BY Zenon DEF Users

LEMMA UsersInitInv == OneFrameDma /\ UsersInit => UsersInv
<1> SUFFICES ASSUME OneFrameDma, UsersInit PROVE UsersInv
  BY Zenon
<1>1. StackOf(pmm_stack)
  <2>1. BootStack \in Seq(BootFrames)
    BY DEF OneFrameDma, BootFrames
  <2> QED
    BY <2>1, Zenon DEF OneFrameDma, UsersInit, StackOf, NoneTwice
<1>2. UsersTypeOK
  BY <1>1, Zenon DEF UsersInit, UsersTypeOK, Buffers
<1>3. OneOwner
  BY Zenon DEF UsersInit, OneOwner
<1>4. InOwnFrames
  BY NoPages DEF UsersInit, InOwnFrames, NoBuffer
<1> QED
  BY <1>2, <1>3, <1>4, Zenon DEF UsersInv

LEMMA BackMade ==
    ASSUME UsersInv, NEW n \in BackPages, framebuffer_buffer_init(n)
    PROVE  UsersInv'
<1>1. n \in Nat \ {0} /\ OneFrameDma /\ UsersTypeOK /\ OneOwner
  BY Zenon DEF UsersInv, OneFrameDma
<1>2. /\ n \in 0..Top /\ Nth(0) - (n - 1) \in BootFrames
      /\ PagesOf([base |-> Nth(0) - (n - 1), pages |-> n]) = Taken(n)
  BY <1>1, RunPages, Zenon DEF framebuffer_buffer_init
<1>3. Takes("back", n) /\ UNCHANGED <<dma, doom>>
      /\ back' = [base |-> Nth(0) - (n - 1), pages |-> n]
  BY Zenon DEF framebuffer_buffer_init, Takes
<1>4. /\ StackOf(pmm_stack') /\ got' \in [Users -> SUBSET BootFrames] /\ OneOwner'
      /\ \A v \in Users : got[v] \subseteq got'[v]
      /\ Taken(n) \subseteq got'["back"]
  BY <1>1, <1>2, <1>3, UsersNames, TakingKeeps, Zenon
<1>5. back' \in Buffers(Nat \ {0})
  BY <1>1, <1>2, <1>3, Zenon DEF Buffers
<1>6. UsersTypeOK'
  BY <1>3, <1>4, <1>5, Zenon DEF UsersInv, UsersTypeOK
<1>7. InOwnFrames'
  <2>1. PagesOf(back') \subseteq got'["back"]
    BY <1>2, <1>3, <1>4, Zenon
  <2>2. \A s \in DmaSlots : PagesOf(dma'[s]) \subseteq got'["dma"]
    BY <1>3, <1>4, UsersNames, Zenon DEF UsersInv, InOwnFrames
  <2>3. doom' # 0 => doom' \in got'["doom"]
    BY <1>3, <1>4, UsersNames, Zenon DEF UsersInv, InOwnFrames
  <2> QED
    BY <1>3, <2>1, <2>2, <2>3, Zenon DEF UsersInv, InOwnFrames, PagesOf
<1> QED
  BY <1>1, <1>4, <1>6, <1>7, Zenon DEF UsersInv, OneFrameDma

\* Frames are lost to user u, whose buffers stay.
LEMMA OnlyTaken ==
    ASSUME UsersInv, NEW u \in Users, NEW n \in 0..Top, Takes(u, n), UNCHANGED <<back, dma, doom>>
    PROVE  UsersInv'
<1>1. /\ StackOf(pmm_stack') /\ got' \in [Users -> SUBSET BootFrames] /\ OneOwner'
      /\ \A v \in Users : got[v] \subseteq got'[v]
  BY TakingKeeps, Zenon DEF UsersInv
<1>2. UsersTypeOK'
  BY <1>1, Zenon DEF UsersInv, UsersTypeOK
<1>3. PagesOf(back') = PagesOf(back) /\ \A s \in DmaSlots : PagesOf(dma'[s]) = PagesOf(dma[s])
  BY Zenon
<1>4. InOwnFrames'
  BY <1>1, <1>3, UsersNames, Zenon DEF UsersInv, InOwnFrames
<1> QED
  BY <1>1, <1>2, <1>4, Zenon DEF UsersInv, OneFrameDma

LEMMA BackNotMade ==
    ASSUME UsersInv, NEW n \in BackPages, framebuffer_buffer_init_fails(n)
    PROVE  UsersInv'
<1>1. Top \in Nat
  BY DEF UsersInv, UsersTypeOK, StackOf, Top
<1>2. PICK k \in 0..Top :
        LET popped == IF k < Top THEN k + 1 ELSE k
        IN  /\ pmm_stack' = Without(popped)
            /\ got' = [got EXCEPT !["back"] = @ \cup Taken(popped)]
  BY Zenon DEF framebuffer_buffer_init_fails
<1> DEFINE popped == IF k < Top THEN k + 1 ELSE k
<1>3. popped \in 0..Top
  BY <1>1
<1>4. Takes("back", popped)
  BY <1>2, Zenon DEF Takes
<1>5. UNCHANGED <<back, dma, doom>>
  BY Zenon DEF framebuffer_buffer_init_fails
<1> HIDE DEF popped
<1> QED
  BY <1>3, <1>4, <1>5, UsersNames, OnlyTaken, Zenon

\* The frames of a buffer of n pages, in ascending order.
Ascending(b, n) == [k \in 1..n |-> b + k - 1]

LEMMA AscendingIs ==
    ASSUME NEW b \in Nat, NEW n \in Nat, b..(b + n - 1) \subseteq BootFrames
    PROVE  StackOf(Ascending(b, n)) /\ FramesOn(Ascending(b, n)) = b..(b + n - 1)
           /\ Len(Ascending(b, n)) = n
<1> DEFINE a == Ascending(b, n)
<1>1. \A k \in 1..n : b + k - 1 \in b..(b + n - 1)
  OBVIOUS
<1>2. a \in [1..n -> BootFrames] /\ \A k \in 1..n : a[k] = b + k - 1
  BY <1>1, Zenon DEF Ascending
<1> HIDE DEF a
<1>3. a \in Seq(BootFrames) /\ Len(a) = n
  BY <1>2
<1>4. NoneTwice(a)
  BY <1>2, <1>3 DEF NoneTwice
<1>5. ASSUME NEW x \in b..(b + n - 1) PROVE x \in FramesOn(a)
  <2>1. x - b + 1 \in 1..n /\ a[x - b + 1] = x
    BY <1>2
  <2> QED
    BY <1>3, <2>1, Zenon DEF FramesOn
<1>6. FramesOn(a) \subseteq b..(b + n - 1)
  BY <1>1, <1>2, <1>3, Zenon DEF FramesOn
<1> QED
  BY <1>3, <1>4, <1>5, <1>6, Zenon DEF a, StackOf

LEMMA BackFreed ==
    ASSUME UsersInv, framebuffer_buffer_free
    PROVE  UsersInv' /\ DescendingRun(pmm_stack', back.pages)
<1> DEFINE b == back.base
           n == back.pages
           fs == Ascending(b, n)
<1>1. b \in BootFrames /\ n \in Nat \ {0} /\ back # NoBuffer
  BY DEF UsersInv, UsersTypeOK, Buffers, framebuffer_buffer_free, NoBuffer
<1>2. b \in Nat /\ PagesOf(back) = b..(b + n - 1) /\ PagesOf(back) \subseteq got["back"]
  BY <1>1, BootFinite, Zenon DEF UsersInv, PagesOf, InOwnFrames
<1>3. got["back"] \subseteq BootFrames
  BY UsersNames, Zenon DEF UsersInv, UsersTypeOK
<1>4. StackOf(fs) /\ FramesOn(fs) = PagesOf(back) /\ Len(fs) = n
  BY <1>1, <1>2, <1>3, AscendingIs, Zenon
<1>5. GivesBack("back", fs) /\ back' = NoBuffer /\ UNCHANGED <<dma, doom>>
  BY <1>4, Zenon DEF framebuffer_buffer_free, GivesBack, Ascending
<1>6. fs = [k \in 1..n |-> b + k - 1]
  BY Zenon DEF Ascending
<1> HIDE DEF fs
<1>7. /\ StackOf(pmm_stack') /\ got' \in [Users -> SUBSET BootFrames] /\ OneOwner'
      /\ pmm_stack' = pmm_stack \o fs
      /\ \A v \in Users : v # "back" => got'[v] = got[v]
  BY <1>2, <1>4, <1>5, UsersNames, GivingKeeps, Zenon DEF UsersInv
<1>8. UsersTypeOK'
  BY <1>5, <1>7, Zenon DEF UsersInv, UsersTypeOK, Buffers
<1>9. InOwnFrames'
  <2>1. PagesOf(back') = {}
    BY <1>5, NoPages, Zenon
  <2>2. \A s \in DmaSlots : PagesOf(dma'[s]) \subseteq got'["dma"]
    BY <1>5, <1>7, UsersNames, Zenon DEF UsersInv, InOwnFrames
  <2> QED
    BY <1>5, <1>7, <2>1, <2>2, UsersNames, Zenon DEF UsersInv, InOwnFrames
<1>10. UsersInv'
  BY <1>7, <1>8, <1>9 DEF UsersInv, OneFrameDma
<1>11. DescendingRun(pmm_stack', n)
  <2> DEFINE s == pmm_stack
             w == pmm_stack'
  <2>1. s \in Seq(BootFrames) /\ Len(s) \in Nat /\ fs \in Seq(BootFrames)
    BY <1>4 DEF UsersInv, UsersTypeOK, StackOf
  <2>2. Len(w) = Len(s) + n /\ \A k \in 1..n : w[Len(s) + k] = fs[k]
    BY <1>4, <1>7, <2>1
  <2> HIDE DEF s, w, b, n
  <2>3. ASSUME NEW k \in 1..(n - 1) PROVE w[Len(w) - k] = w[Len(w) - k + 1] - 1
    <3>1. /\ n - k \in 1..n /\ n - k + 1 \in 1..n
          /\ Len(w) - k = Len(s) + (n - k) /\ Len(w) - k + 1 = Len(s) + (n - k + 1)
      BY <1>1, <2>1, <2>2
    <3>2. w[Len(w) - k] = b + (n - k) - 1 /\ w[Len(w) - k + 1] = b + (n - k + 1) - 1
      BY <1>6, <2>2, <3>1, Zenon
    <3> QED
      BY <1>1, <1>2, <3>1, <3>2
  <2>4. Len(w) >= n
    BY <1>1, <2>1, <2>2
  <2> QED
    BY <2>3, <2>4, Zenon DEF DescendingRun, w
<1> QED
  BY <1>10, <1>11, Zenon

LEMMA DmaMade ==
    ASSUME UsersInv, NEW s \in DmaSlots, NEW n \in DmaPages, dma_alloc(s, n)
    PROVE  UsersInv'
<1>1. n = 1 /\ Top \in Nat /\ 1 \in 0..Top
  BY DEF UsersInv, OneFrameDma, UsersTypeOK, StackOf, Top, dma_alloc
<1>2. Nth(0) \in Taken(1) /\ Taken(1) = {Nth(0)}
  BY DEF Taken
<1>3. Takes("dma", 1) /\ dma' = [dma EXCEPT ![s] = [base |-> Nth(0), pages |-> n]]
      /\ UNCHANGED <<back, doom>>
  BY Zenon DEF dma_alloc, Takes
<1>4. /\ StackOf(pmm_stack') /\ got' \in [Users -> SUBSET BootFrames] /\ OneOwner'
      /\ \A v \in Users : got[v] \subseteq got'[v]
      /\ Taken(1) \subseteq got'["dma"] /\ Taken(1) \cap got["dma"] = {}
  BY <1>1, <1>3, UsersNames, TakingKeeps, Zenon DEF UsersInv
<1>5. Nth(0) \in BootFrames /\ Nth(0) \in Nat /\ Nth(0) # 0
  BY <1>2, <1>4, UsersNames, BootFinite, Zenon DEF UsersInv
<1>6. dma \in [DmaSlots -> Buffers({1})]
  BY Zenon DEF UsersInv, UsersTypeOK
<1>7. dma' \in [DmaSlots -> Buffers({1})] /\ dma'[s] = [base |-> Nth(0), pages |-> 1]
      /\ \A t \in DmaSlots : t # s => dma'[t] = dma[t]
  BY <1>1, <1>3, <1>5, <1>6, Zenon DEF Buffers
<1>8. UsersTypeOK'
  BY <1>3, <1>4, <1>7, Zenon DEF UsersInv, UsersTypeOK
<1>9. \A t \in DmaSlots : dma[t].base # Nth(0)
  <2> SUFFICES ASSUME NEW t \in DmaSlots, dma[t].base = Nth(0) PROVE FALSE
    BY Zenon
  <2>1. dma[t] = [base |-> Nth(0), pages |-> 1]
    BY <1>5, <1>6 DEF Buffers, NoBuffer
  <2>2. Nth(0) \in got["dma"]
    BY <1>5, <2>1, OnePage, Zenon DEF UsersInv, InOwnFrames
  <2> QED
    BY <1>2, <1>4, <2>2, Zenon
<1>10. InOwnFrames'
  <2>1. \A t \in DmaSlots : PagesOf(dma'[t]) \subseteq got'["dma"]
    BY <1>2, <1>4, <1>5, <1>7, OnePage, UsersNames DEF UsersInv, InOwnFrames
  <2>2. \A t, r \in DmaSlots : t # r /\ dma'[t].pages = 1 => dma'[t].base # dma'[r].base
    <3>1. dma'[s].base = Nth(0)
      BY <1>7
    <3> QED
      BY <1>7, <1>9, <3>1 DEF UsersInv, InOwnFrames
  <2>3. PagesOf(back') \subseteq got'["back"] /\ (doom' # 0 => doom' \in got'["doom"])
    BY <1>3, <1>4, UsersNames, Zenon DEF UsersInv, InOwnFrames
  <2> QED
    BY <2>1, <2>2, <2>3, Zenon DEF InOwnFrames
<1> QED
  BY <1>4, <1>8, <1>10, Zenon DEF UsersInv, OneFrameDma

LEMMA DmaFreed ==
    ASSUME UsersInv, NEW s \in DmaSlots, dma_free(s)
    PROVE  UsersInv'
<1> DEFINE b == dma[s].base
           fs == Ascending(b, 1)
<1>1. dma \in [DmaSlots -> Buffers({1})]
  BY Zenon DEF UsersInv, UsersTypeOK
<1>2. b \in BootFrames /\ dma[s] = [base |-> b, pages |-> 1] /\ dma[s].pages = 1
  BY <1>1 DEF Buffers, dma_free, NoBuffer
<1>3. b \in Nat /\ b # 0 /\ PagesOf(dma[s]) = {b} /\ b..(b + 1 - 1) = {b}
  BY <1>2, OnePage, BootFinite DEF UsersInv
<1>4. b \in got["dma"]
  BY <1>3, Zenon DEF UsersInv, InOwnFrames
<1>5. StackOf(fs) /\ FramesOn(fs) = {b} /\ Len(fs) = 1
  BY <1>2, <1>3, AscendingIs, Zenon
<1>6. GivesBack("dma", fs) /\ dma' = [dma EXCEPT ![s] = NoBuffer] /\ UNCHANGED <<back, doom>>
  BY <1>2, <1>3, <1>5, Zenon DEF dma_free, GivesBack, Ascending
<1> HIDE DEF fs
<1>7. /\ StackOf(pmm_stack') /\ got' \in [Users -> SUBSET BootFrames] /\ OneOwner'
      /\ got'["dma"] = got["dma"] \ {b} /\ \A v \in Users : v # "dma" => got'[v] = got[v]
  <2>1. FramesOn(fs) \subseteq got["dma"]
    BY <1>4, <1>5, Zenon
  <2> QED
    BY <1>5, <1>6, <2>1, UsersNames, GivingKeeps, Zenon DEF UsersInv
<1>8. dma' \in [DmaSlots -> Buffers({1})] /\ dma'[s] = NoBuffer
      /\ \A t \in DmaSlots : t # s => dma'[t] = dma[t]
  BY <1>1, <1>6, Zenon DEF Buffers
<1>9. UsersTypeOK'
  BY <1>6, <1>7, <1>8, Zenon DEF UsersInv, UsersTypeOK
<1>10. ASSUME NEW t \in DmaSlots PROVE PagesOf(dma'[t]) \subseteq got'["dma"]
  <2>1. CASE t = s
    BY <1>8, <2>1, NoPages, Zenon
  <2>2. CASE t # s /\ dma[t] = NoBuffer
    BY <1>8, <2>2, NoPages, Zenon
  <2>3. CASE t # s /\ dma[t] # NoBuffer
    <3>1. dma[t].base \in Nat /\ dma[t] = [base |-> dma[t].base, pages |-> 1]
      BY <1>1, <2>3, BootFinite, Zenon DEF Buffers, UsersInv
    <3>2. dma[t].base # b /\ dma[t].base \in got["dma"]
      BY <1>2, <2>3, <3>1, OnePage, Zenon DEF UsersInv, InOwnFrames
    <3> QED
      BY <1>7, <1>8, <2>3, <3>1, <3>2, OnePage
  <2> QED
    BY <2>1, <2>2, <2>3, Zenon
<1>11. \A t, r \in DmaSlots : t # r /\ dma'[t].pages = 1 => dma'[t].base # dma'[r].base
  <2>1. \A t \in DmaSlots : dma[t].pages = 1 => dma[t].base # NoBuffer.base
    <3> SUFFICES ASSUME NEW t \in DmaSlots, dma[t].pages = 1 PROVE dma[t].base # NoBuffer.base
      BY Zenon
    <3>1. dma[t].base \in BootFrames
      BY <1>1 DEF Buffers, NoBuffer
    <3> QED
      BY <3>1, BootFinite, Zenon DEF NoBuffer, UsersInv
  <2>2. NoBuffer.pages # 1
    BY DEF NoBuffer
  <2> QED
    BY <1>8, <2>1, <2>2 DEF UsersInv, InOwnFrames
<1>12. PagesOf(back') \subseteq got'["back"] /\ (doom' # 0 => doom' \in got'["doom"])
  BY <1>6, <1>7, UsersNames, Zenon DEF UsersInv, InOwnFrames
<1>13. InOwnFrames'
  BY <1>10, <1>11, <1>12, Zenon DEF InOwnFrames
<1> QED
  BY <1>7, <1>9, <1>13, Zenon DEF UsersInv, OneFrameDma

LEMMA GameMade ==
    ASSUME UsersInv, doom_init
    PROVE  UsersInv'
<1> DEFINE n == IF DoomPages < Top THEN DoomPages ELSE Top
<1>1. Top \in Nat /\ n \in 0..Top /\ n > 0
  BY DEF UsersInv, OneFrameDma, UsersTypeOK, StackOf, Top, doom_init
<1>2. Takes("doom", n) /\ doom' = Nth(0) /\ UNCHANGED <<back, dma>>
  BY Zenon DEF doom_init, Takes
<1> HIDE DEF n
<1>3. Nth(0) \in Taken(n)
  BY <1>1 DEF Taken
<1>4. /\ StackOf(pmm_stack') /\ got' \in [Users -> SUBSET BootFrames] /\ OneOwner'
      /\ \A v \in Users : got[v] \subseteq got'[v]
      /\ Taken(n) \subseteq got'["doom"]
  BY <1>1, <1>2, UsersNames, TakingKeeps, Zenon DEF UsersInv
<1>5. doom' \in Nat /\ doom' \in got'["doom"]
  BY <1>2, <1>3, <1>4, UsersNames, BootFinite, Zenon DEF UsersInv
<1>6. UsersTypeOK'
  BY <1>2, <1>4, <1>5, Zenon DEF UsersInv, UsersTypeOK
<1>7. InOwnFrames'
  BY <1>2, <1>4, <1>5, UsersNames, Zenon DEF UsersInv, InOwnFrames
<1> QED
  BY <1>4, <1>6, <1>7, Zenon DEF UsersInv, OneFrameDma

LEMMA UsersStep == UsersInv /\ [UsersNext]_userVars => UsersInv'
<1> SUFFICES ASSUME UsersInv, [UsersNext]_userVars PROVE UsersInv'
  BY Zenon
<1>1. CASE UNCHANGED userVars
  BY <1>1, Zenon DEF userVars, UsersInv, OneFrameDma, UsersTypeOK, OneOwner, InOwnFrames, PagesOf
<1>2. CASE UsersNext
  BY <1>2, BackMade, BackNotMade, BackFreed, DmaMade, DmaFreed, GameMade, Zenon DEF UsersNext
<1> QED
  BY <1>1, <1>2, Zenon

\* BuffersOwned of the back buffer and the DMA buffers, however much the game
\* has taken.
DriversOwned ==
    /\ \A u \in {"back", "dma"} :
         /\ Region(u) \subseteq got[u] /\ Region(u) \cap got["doom"] = {}
         /\ \A k \in 1..Top : pmm_stack[k] \notin Region(u)
    /\ Region("back") \cap Region("dma") = {}

LEMMA DriversInv == UsersInv => DriversOwned
<1> SUFFICES ASSUME UsersInv PROVE DriversOwned
  BY Zenon
<1>1. Region("back") \subseteq got["back"]
  BY Zenon DEF Region, UsersInv, InOwnFrames
<1>2. Region("dma") \subseteq got["dma"]
  BY Zenon DEF Region, UsersInv, InOwnFrames
<1>3. \A u, v \in Users : u # v => got[u] \cap got[v] = {}
  BY Zenon DEF UsersInv, OneOwner
<1>4. \A u \in Users : \A k \in 1..Top : pmm_stack[k] \notin got[u]
  BY Zenon DEF UsersInv, OneOwner, FramesOn, Top
<1>5. \A u \in {"back", "dma"} : u \in Users /\ u # "doom" /\ Region(u) \subseteq got[u]
  BY <1>1, <1>2, UsersNames, Zenon
<1>6. Region("back") \cap Region("dma") = {}
  BY <1>1, <1>2, <1>3, UsersNames, Zenon
<1> QED
  BY <1>3, <1>4, <1>5, <1>6, UsersNames, Zenon DEF DriversOwned

\* The back buffer and DMA buffers of a page lie in frames that were popped
\* for them, apart from each other, from whatever the game has popped and from
\* the stack (buffer.c, dma.cpp), for every boot stack, every size of the back
\* buffer and of the game's buffer.
THEOREM DriverBuffersOwned == OneFrameDma /\ UsersSpec => []DriversOwned
BY UsersInitInv, UsersStep, DriversInv, PTL DEF UsersSpec

\* With a game buffer of one page, as the z-buffer's and the row scratch's
\* are, the same holds of the game (doom.c).
THEOREM BuffersStayOwned == DoomPages = 1 /\ OneFrameDma /\ UsersSpec => []BuffersOwned
<1>1. DoomPages = 1 /\ UsersInv => BuffersOwned
  <2> SUFFICES ASSUME DoomPages = 1, UsersInv PROVE BuffersOwned
    BY Zenon
  <2>1. Region("back") \subseteq got["back"]
    BY Zenon DEF Region, UsersInv, InOwnFrames
  <2>2. Region("dma") \subseteq got["dma"]
    BY Zenon DEF Region, UsersInv, InOwnFrames
  <2>3. Region("doom") \subseteq got["doom"]
    <3>1. doom \in Nat /\ doom..(doom + DoomPages - 1) = {doom}
      BY DEF UsersInv, UsersTypeOK
    <3> QED
      BY <3>1, Zenon DEF Region, UsersInv, InOwnFrames
  <2>4. \A u \in Users : Region(u) \subseteq got[u]
    BY <2>1, <2>2, <2>3, Zenon DEF Users
  <2>5. \A u, v \in Users : u # v => got[u] \cap got[v] = {}
    BY Zenon DEF UsersInv, OneOwner
  <2>6. \A u \in Users : \A k \in 1..Top : pmm_stack[k] \notin got[u]
    BY Zenon DEF UsersInv, OneOwner, FramesOn, Top
  <2> QED
    BY <2>4, <2>5, <2>6, Zenon DEF BuffersOwned
<1> DEFINE Inv == DoomPages = 1 /\ UsersInv
<1>2. DoomPages = 1 /\ OneFrameDma /\ UsersInit => Inv
  BY UsersInitInv, Zenon
<1>3. Inv /\ [UsersNext]_userVars => Inv'
  BY UsersStep, Zenon
<1>4. Inv => BuffersOwned
  BY <1>1, Zenon
<1> QED
  BY <1>2, <1>3, <1>4, PTL DEF UsersSpec

\* A back buffer that is freed can be had again at once, whatever the game's
\* buffer took: no frame is dropped, and they come back in the right order.
THEOREM BackBufferReturns == OneFrameDma /\ UsersSpec => FreedBackBufferReturns
<1> DEFINE Returns == back.pages # 0 /\ back'.pages = 0 => DescendingRun(pmm_stack', back.pages)
<1>1. UsersInv /\ [UsersNext]_userVars => [Returns]_userVars
  <2> SUFFICES ASSUME UsersInv, UsersNext, back.pages # 0, back'.pages = 0
               PROVE  DescendingRun(pmm_stack', back.pages)
    BY Zenon
  <2>1. CASE framebuffer_buffer_free
    BY <2>1, BackFreed, Zenon
  <2>2. CASE ~framebuffer_buffer_free
    <3>1. back' = back
      BY <2>2, Zenon
      DEF UsersNext, framebuffer_buffer_init, framebuffer_buffer_init_fails, dma_alloc,
                  dma_free, doom_init
    <3> QED
      BY <3>1, Zenon
  <2> QED
    BY <2>1, <2>2, Zenon
<1>2. OneFrameDma /\ UsersInit => UsersInv
  BY UsersInitInv, Zenon
<1> QED
  BY <1>1, <1>2, UsersStep, PTL DEF UsersSpec, FreedBackBufferReturns

-----------------------------------------------------------------------------
(* The USB DMA pool, UsbDmaPool                                            *)

\* Buffers do not overlap because each ends below the bump offset of its page
\* and the next one on that page starts at or above it.
PoolInv ==
    /\ PoolTypeOK
    /\ IsFiniteSet(live)
    /\ PagesDistinct
    /\ BuffersInPage
    /\ BuffersDisjoint

\* Aligning never moves an offset down.
LEMMA AlignedUp ==
    ASSUME NEW x \in Nat, NEW a \in Nat \ {0}
    PROVE  ALIGN(x, a) \in Nat /\ ALIGN(x, a) >= x
<1>1. x % a \in 0..(a - 1)
  OBVIOUS
<1>2. (a - (x % a)) \in Nat
  BY <1>1
<1>3. (a - (x % a)) % a \in Nat
  BY <1>2
<1> QED
  BY <1>3 DEF ALIGN

LEMMA PoolStart == PoolInit => PoolInv
<1> SUFFICES ASSUME PoolInit PROVE PoolInv
  BY Zenon
<1>1. Pages = {}
  BY DEF PoolInit, Pages
<1>2. IsFiniteSet(live)
  BY FS_EmptySet, Zenon DEF PoolInit
<1>3. PoolTypeOK
  BY <1>1, PoolAssumption DEF PoolInit, PoolTypeOK
<1> QED
  BY <1>1, <1>2, <1>3, Zenon
     DEF PoolInit, PoolInv, PagesDistinct, BuffersInPage, BuffersDisjoint

\* A buffer carved at or above the bump offset of page i, with the offset moved
\* to its end, keeps the invariant.
LEMMA CarveKeeps ==
    ASSUME PoolInv, NEW size \in Nat \ {0}, NEW align \in Nat \ {0},
           usb_dma_carve(size, align)
    PROVE  PoolInv'
<1>1. PICK i \in Candidates :
        LET start == ALIGN(used[i], align)
        IN  /\ Fits(i, size, align)
            /\ used' = [used EXCEPT ![i] = start + size]
            /\ g_dma_cur' = i
            /\ live' = live \cup {Buffer(i, start, size, align)}
            /\ UNCHANGED <<g_dma_npages, phys, frames>>
  BY Zenon DEF usb_dma_carve
<1> DEFINE start == ALIGN(used[i], align)
           b == Buffer(i, start, size, align)
<1>2. i \in Pages /\ i \in Nat \ {0}
  BY PoolAssumption DEF Candidates, Pages, PoolInv, PoolTypeOK
<1>3. used[i] \in Nat
  BY <1>2 DEF PoolInv, PoolTypeOK
<1>4. start \in Nat /\ start >= used[i]
  BY <1>3, AlignedUp, Zenon
<1>5. start + size <= USB_DMA_PAGE_SIZE
  BY <1>1, Zenon DEF Fits
<1>6. Pages' = Pages
  BY <1>1, Zenon DEF Pages
<1>7. Cardinality(live) \in Nat
  BY FS_CardinalityType, Zenon DEF PoolInv
<1>8. /\ b \in [page : Pages, start : Nat, size : Nat \ {0},
                align : Nat \ {0}, id : Nat]
      /\ b.page = i /\ b.start = start /\ b.size = size
  BY <1>2, <1>4, <1>7, Zenon DEF Buffer
<1>9. used' \in [Pages -> 0..USB_DMA_PAGE_SIZE]
  <2>1. start + size \in 0..USB_DMA_PAGE_SIZE
    BY <1>4, <1>5, PoolAssumption
  <2> QED
    BY <1>1, <2>1, Zenon DEF PoolInv, PoolTypeOK
<1>10. PoolTypeOK'
  BY <1>1, <1>2, <1>6, <1>8, <1>9, Zenon DEF PoolInv, PoolTypeOK
<1>11. IsFiniteSet(live')
  BY <1>1, FS_AddElement, Zenon DEF PoolInv
<1>12. PagesDistinct'
  BY <1>1, <1>6, Zenon DEF PoolInv, PagesDistinct
<1>13. ASSUME NEW c \in live, c.page = i PROVE c.start + c.size <= used[i]
  BY <1>13, Zenon DEF PoolInv, BuffersInPage
<1>14. BuffersInPage'
  <2>1. ASSUME NEW c \in live PROVE c.start + c.size <= used'[c.page]
    <3>1. c.page \in Pages /\ c.start \in Nat /\ c.size \in Nat
      BY Zenon DEF PoolInv, PoolTypeOK
    <3>2. CASE c.page = i
      <4>1. used'[i] = start + size
        BY <1>1, <1>2, Zenon DEF PoolInv, PoolTypeOK
      <4> QED
        BY <1>3, <1>4, <1>13, <3>1, <3>2, <4>1
    <3>3. CASE c.page # i
      BY <1>1, <3>1, <3>3, Zenon DEF PoolInv, PoolTypeOK, BuffersInPage
    <3> QED
      BY <3>2, <3>3, Zenon
  <2>2. b.start + b.size <= used'[b.page]
    BY <1>1, <1>2, <1>4, <1>8 DEF PoolInv, PoolTypeOK
  <2> QED
    BY <1>1, <2>1, <2>2, Zenon DEF BuffersInPage
<1>15. BuffersDisjoint'
  <2>1. ASSUME NEW c \in live, c.page = b.page PROVE c.start + c.size <= b.start
    <3>1. c.start \in Nat /\ c.size \in Nat
      BY Zenon DEF PoolInv, PoolTypeOK
    <3> QED
      BY <1>3, <1>4, <1>8, <1>13, <2>1, <3>1
  <2> QED
    BY <1>1, <2>1, Zenon DEF PoolInv, BuffersDisjoint
<1> QED
  BY <1>10, <1>11, <1>12, <1>14, <1>15, Zenon DEF PoolInv

\* Adding pages to the pool moves no buffer.  The frames f of the new pages are
\* distinct and come from the allocator, and offs are their bump offsets.
LEMMA MorePages ==
    ASSUME PoolInv, NEW n \in Nat, g_dma_npages <= n, n <= USB_DMA_MAX_PAGES,
           NEW f \in [(g_dma_npages + 1)..n -> frames],
           \A i, j \in (g_dma_npages + 1)..n : f[i] = f[j] => i = j,
           NEW off \in 0..USB_DMA_PAGE_SIZE,
           phys' = [i \in 1..n |-> IF i \in Pages THEN phys[i] ELSE f[i]],
           used' = [i \in 1..n |-> IF i \in Pages THEN used[i] ELSE off],
           frames' = frames \ {f[i] : i \in (g_dma_npages + 1)..n},
           g_dma_npages' = n
    PROVE  /\ Pages \subseteq Pages'
           /\ phys' \in [Pages' -> Frames]
           /\ used' \in [Pages' -> 0..USB_DMA_PAGE_SIZE]
           /\ frames' \in SUBSET Frames
           /\ \A i \in Pages : used'[i] = used[i]
           /\ PagesDistinct'
<1>1. /\ g_dma_npages \in Nat
      /\ Pages = 1..g_dma_npages
      /\ Pages' = 1..n
      /\ Pages \subseteq Pages'
  BY PoolAssumption DEF PoolInv, PoolTypeOK, Pages
<1>2. \A i \in Pages' : i \notin Pages => i \in (g_dma_npages + 1)..n
  BY <1>1
<1>3. phys' \in [Pages' -> Frames] /\ frames' \in SUBSET Frames
  BY <1>1, <1>2, Zenon DEF PoolInv, PoolTypeOK
<1>4. used' \in [Pages' -> 0..USB_DMA_PAGE_SIZE] /\ \A i \in Pages : used'[i] = used[i]
  BY <1>1, Zenon DEF PoolInv, PoolTypeOK
<1>5. ASSUME NEW i \in Pages' PROVE phys'[i] \notin frames'
  <2>1. CASE i \in Pages
    BY <1>1, <2>1, Zenon DEF PoolInv, PagesDistinct
  <2>2. CASE i \notin Pages
    BY <1>1, <1>2, <2>2, Zenon
  <2> QED
    BY <2>1, <2>2, Zenon
<1>6. ASSUME NEW i \in Pages', NEW j \in Pages', phys'[i] = phys'[j] PROVE i = j
  <2>1. \A k \in Pages : phys'[k] = phys[k] /\ phys[k] \notin frames
    BY <1>1, Zenon DEF PoolInv, PagesDistinct
  <2>2. \A k \in Pages' : k \notin Pages => phys'[k] = f[k] /\ f[k] \in frames
    BY <1>1, <1>2, Zenon
  <2> QED
    BY <1>2, <1>6, <2>1, <2>2 DEF PoolInv, PagesDistinct
<1> QED
  BY <1>1, <1>3, <1>4, <1>5, <1>6 DEF PagesDistinct

\* The first buffer of a new page.
LEMMA GrowKeeps ==
    ASSUME PoolInv, NEW size \in Nat \ {0}, NEW align \in Nat \ {0},
           usb_dma_carve_grow(size, align)
    PROVE  PoolInv'
<1> DEFINE n == g_dma_npages + 1
           b == Buffer(n, 0, size, align)
<1>1. g_dma_npages \in Nat /\ n \in Nat /\ n <= USB_DMA_MAX_PAGES
  BY PoolAssumption DEF usb_dma_carve_grow, PoolInv, PoolTypeOK
<1>2. PICK fr \in frames :
        /\ phys' = [i \in 1..n |-> IF i \in Pages THEN phys[i] ELSE fr]
        /\ frames' = frames \ {fr}
  BY Zenon DEF usb_dma_carve_grow
<1>3. /\ size <= USB_DMA_PAGE_SIZE
      /\ used' = [i \in 1..n |-> IF i \in Pages THEN used[i] ELSE size]
      /\ g_dma_npages' = n
      /\ g_dma_cur' = n
      /\ live' = live \cup {b}
  BY Zenon DEF usb_dma_carve_grow
<1> DEFINE f == [i \in n..n |-> fr]
<1>4. /\ f \in [n..n -> frames]
      /\ \A i, j \in n..n : f[i] = f[j] => i = j
      /\ {f[i] : i \in n..n} = {fr}
      /\ size \in 0..USB_DMA_PAGE_SIZE
  BY <1>1, <1>3, PoolAssumption
<1>5. phys' = [i \in 1..n |-> IF i \in Pages THEN phys[i] ELSE f[i]]
  <2>1. \A i \in 1..n : i \notin Pages => i \in n..n
    BY <1>1 DEF Pages
  <2> QED
    BY <1>2, <2>1, Zenon
<1>6. frames' = frames \ {f[i] : i \in n..n}
  BY <1>2, <1>4, Zenon
<1>7. /\ Pages \subseteq Pages'
      /\ phys' \in [Pages' -> Frames]
      /\ used' \in [Pages' -> 0..USB_DMA_PAGE_SIZE]
      /\ frames' \in SUBSET Frames
      /\ \A i \in Pages : used'[i] = used[i]
      /\ PagesDistinct'
  <2> HIDE DEF f
  <2>1. g_dma_npages <= n
    BY <1>1
  <2> QED
    BY <1>1, <1>3, <1>4, <1>5, <1>6, <2>1, MorePages, Zenon
<1>8. n \in Pages' /\ n \notin Pages /\ used'[n] = size
  BY <1>1, <1>3 DEF Pages
<1>9. Cardinality(live) \in Nat
  BY FS_CardinalityType, Zenon DEF PoolInv
<1>10. /\ b \in [page : Pages', start : Nat, size : Nat \ {0},
                 align : Nat \ {0}, id : Nat]
       /\ b.page = n /\ b.start = 0 /\ b.size = size
  BY <1>8, <1>9, Zenon DEF Buffer
<1>11. PoolTypeOK'
  <2>1. live' \in SUBSET [page : Pages', start : Nat, size : Nat \ {0},
                          align : Nat \ {0}, id : Nat]
    BY <1>3, <1>7, <1>10, Zenon DEF PoolInv, PoolTypeOK
  <2>2. g_dma_npages' \in 0..USB_DMA_MAX_PAGES /\ g_dma_cur' \in Nat \ {0}
    BY <1>1, <1>3, PoolAssumption
  <2> QED
    BY <1>7, <2>1, <2>2, Zenon DEF PoolTypeOK
<1>12. IsFiniteSet(live')
  BY <1>3, FS_AddElement, Zenon DEF PoolInv
<1>13. ASSUME NEW c \in live PROVE c.page \in Pages
  BY Zenon DEF PoolInv, PoolTypeOK
<1>14. BuffersInPage'
  BY <1>3, <1>7, <1>8, <1>10, <1>13 DEF PoolInv, BuffersInPage
<1>15. BuffersDisjoint'
  BY <1>3, <1>8, <1>10, <1>13 DEF PoolInv, BuffersDisjoint
<1> QED
  BY <1>7, <1>11, <1>12, <1>14, <1>15, Zenon DEF PoolInv

\* Steps that hand out nothing and change the pages' offsets nowhere.
LEMMA NoBufferKeeps ==
    ASSUME PoolInv, live' = live, Pages \subseteq Pages',
           \A i \in Pages : used'[i] = used[i],
           g_dma_npages' \in 0..USB_DMA_MAX_PAGES,
           g_dma_cur' \in Nat \ {0},
           phys' \in [Pages' -> Frames],
           used' \in [Pages' -> 0..USB_DMA_PAGE_SIZE],
           frames' \in SUBSET Frames,
           PagesDistinct'
    PROVE  PoolInv'
<1>1. \A c \in live : c.page \in Pages
  BY Zenon DEF PoolInv, PoolTypeOK
<1>2. live' \in SUBSET [page : Pages', start : Nat, size : Nat \ {0},
                        align : Nat \ {0}, id : Nat]
  BY Zenon DEF PoolInv, PoolTypeOK
<1>3. PoolTypeOK'
  BY <1>2, Zenon DEF PoolTypeOK
<1>4. BuffersInPage' /\ BuffersDisjoint' /\ IsFiniteSet(live')
  BY <1>1, Zenon DEF PoolInv, BuffersInPage, BuffersDisjoint
<1> QED
  BY <1>3, <1>4, Zenon DEF PoolInv

LEMMA FailsKeeps ==
    ASSUME PoolInv, NEW size \in Nat \ {0}, NEW align \in Nat \ {0},
           usb_dma_carve_fails(size, align)
    PROVE  PoolInv'
<1>1. UNCHANGED <<g_dma_npages, phys, used, frames, live>>
  BY Zenon DEF usb_dma_carve_fails
<1>2. Pages' = Pages
  BY <1>1, Zenon DEF Pages
<1>3. g_dma_cur' \in Nat \ {0}
  BY PoolAssumption DEF usb_dma_carve_fails, PoolInv, PoolTypeOK
<1>4. PagesDistinct'
  BY <1>1, <1>2, Zenon DEF PoolInv, PagesDistinct
<1> QED
  BY <1>1, <1>2, <1>3, <1>4, NoBufferKeeps, Zenon DEF PoolInv, PoolTypeOK

LEMMA OversizeKeeps ==
    ASSUME PoolInv, NEW size \in Nat \ {0}, NEW align \in Nat \ {0},
           usb_dma_carve_oversize(size, align)
    PROVE  PoolInv'
<1>1. PICK n \in g_dma_npages..USB_DMA_MAX_PAGES :
        /\ \E f \in [(g_dma_npages + 1)..n -> frames] :
             /\ \A i, j \in DOMAIN f : f[i] = f[j] => i = j
             /\ phys' = [i \in 1..n |-> IF i \in Pages THEN phys[i] ELSE f[i]]
             /\ frames' = frames \ {f[i] : i \in DOMAIN f}
        /\ used' = [i \in 1..n |-> IF i \in Pages THEN used[i] ELSE 0]
        /\ g_dma_npages' = n
        /\ g_dma_cur' = IF n = 0 THEN g_dma_cur ELSE n
  BY Zenon DEF usb_dma_carve_oversize
<1>2. PICK f \in [(g_dma_npages + 1)..n -> frames] :
        /\ \A i, j \in DOMAIN f : f[i] = f[j] => i = j
        /\ phys' = [i \in 1..n |-> IF i \in Pages THEN phys[i] ELSE f[i]]
        /\ frames' = frames \ {f[i] : i \in DOMAIN f}
  BY <1>1, Zenon
<1>3. /\ n \in Nat /\ g_dma_npages <= n /\ n <= USB_DMA_MAX_PAGES
      /\ DOMAIN f = (g_dma_npages + 1)..n
      /\ 0 \in 0..USB_DMA_PAGE_SIZE
  BY PoolAssumption DEF PoolInv, PoolTypeOK
<1>4. /\ Pages \subseteq Pages'
      /\ phys' \in [Pages' -> Frames]
      /\ used' \in [Pages' -> 0..USB_DMA_PAGE_SIZE]
      /\ frames' \in SUBSET Frames
      /\ \A i \in Pages : used'[i] = used[i]
      /\ PagesDistinct'
  <2>1. \A i, j \in (g_dma_npages + 1)..n : f[i] = f[j] => i = j
    BY <1>2, <1>3, Zenon
  <2>2. frames' = frames \ {f[i] : i \in (g_dma_npages + 1)..n}
    BY <1>2, <1>3, Zenon
  <2>3. /\ phys' = [i \in 1..n |-> IF i \in Pages THEN phys[i] ELSE f[i]]
        /\ used' = [i \in 1..n |-> IF i \in Pages THEN used[i] ELSE 0]
        /\ g_dma_npages' = n
    BY <1>1, <1>2, Zenon
  <2> QED
    BY <1>3, <2>1, <2>2, <2>3, MorePages, Zenon
<1>5. g_dma_npages' \in 0..USB_DMA_MAX_PAGES /\ g_dma_cur' \in Nat \ {0}
  BY <1>1, <1>3, PoolAssumption DEF PoolInv, PoolTypeOK
<1>6. live' = live
  BY Zenon DEF usb_dma_carve_oversize
<1> QED
  BY <1>4, <1>5, <1>6, NoBufferKeeps, Zenon

LEMMA PoolInitKeeps ==
    ASSUME PoolInv, usb_dma_pool_init
    PROVE  PoolInv'
<1>1. /\ g_dma_npages = 0 /\ g_dma_npages' = 1 /\ g_dma_cur' = 1
      /\ used' = [i \in 1..1 |-> 0]
      /\ live' = live
  BY Zenon DEF usb_dma_pool_init
<1>2. PICK fr \in frames : phys' = [i \in 1..1 |-> fr] /\ frames' = frames \ {fr}
  BY Zenon DEF usb_dma_pool_init
<1>3. Pages = {} /\ Pages' = {1} /\ 1..1 = {1}
  BY <1>1 DEF Pages
<1>4. /\ phys' \in [Pages' -> Frames] /\ used' \in [Pages' -> 0..USB_DMA_PAGE_SIZE]
      /\ frames' \in SUBSET Frames
      /\ g_dma_npages' \in 0..USB_DMA_MAX_PAGES /\ g_dma_cur' \in Nat \ {0}
  BY <1>1, <1>2, <1>3, PoolAssumption DEF PoolInv, PoolTypeOK
<1>5. PagesDistinct'
  BY <1>2, <1>3, Zenon DEF PagesDistinct
<1> QED
  BY <1>1, <1>3, <1>4, <1>5, NoBufferKeeps, Zenon

LEMMA ResetKeeps ==
    ASSUME PoolInv, usb_dma_reset
    PROVE  PoolInv'
<1>1. /\ used' = [i \in Pages |-> 0] /\ g_dma_cur' = 1 /\ live' = {}
      /\ UNCHANGED <<g_dma_npages, phys, frames>>
  BY Zenon DEF usb_dma_reset
<1>2. Pages' = Pages
  BY <1>1, Zenon DEF Pages
<1>3. PoolTypeOK'
  BY <1>1, <1>2, PoolAssumption DEF PoolInv, PoolTypeOK
<1>4. PagesDistinct'
  BY <1>1, <1>2, Zenon DEF PoolInv, PagesDistinct
<1>5. BuffersInPage' /\ BuffersDisjoint' /\ IsFiniteSet(live')
  BY <1>1, FS_EmptySet, Zenon DEF BuffersInPage, BuffersDisjoint
<1> QED
  BY <1>3, <1>4, <1>5, Zenon DEF PoolInv

LEMMA PoolStep == PoolInv /\ [PoolNext]_poolVars => PoolInv'
<1> SUFFICES ASSUME PoolInv, [PoolNext]_poolVars PROVE PoolInv'
  BY Zenon
<1>1. CASE usb_dma_pool_init
  BY <1>1, PoolInitKeeps, Zenon
<1>2. CASE usb_dma_reset
  BY <1>2, ResetKeeps, Zenon
<1>3. ASSUME NEW r \in Requests, usb_dma_alloc_aligned(r[1], r[2])
      PROVE  PoolInv'
  <2> DEFINE sz == ALIGN(r[1], r[2])
  <2>1. r[1] \in Nat \ {0} /\ r[2] \in Nat \ {0}
    BY PoolAssumption, Zenon
  <2>2. sz \in Nat \ {0}
    <3>1. sz \in Nat /\ sz >= r[1]
      BY <2>1, AlignedUp, Zenon
    <3> QED
      BY <2>1, <3>1
  <2>3. \/ usb_dma_carve(sz, r[2]) \/ usb_dma_carve_grow(sz, r[2])
        \/ usb_dma_carve_fails(sz, r[2]) \/ usb_dma_carve_oversize(sz, r[2])
    BY <1>3, Zenon DEF usb_dma_alloc_aligned
  <2> QED
    BY <2>1, <2>2, <2>3, CarveKeeps, GrowKeeps, FailsKeeps, OversizeKeeps, Zenon
<1>4. CASE UNCHANGED poolVars
  <2>1. UNCHANGED <<g_dma_npages, phys, used, g_dma_cur, frames, live>>
    BY <1>4, Zenon DEF poolVars
  <2>2. Pages' = Pages
    BY <2>1, Zenon DEF Pages
  <2>3. PagesDistinct'
    BY <2>1, <2>2, Zenon DEF PoolInv, PagesDistinct
  <2> QED
    BY <2>1, <2>2, <2>3, NoBufferKeeps, Zenon DEF PoolInv, PoolTypeOK
<1> QED
  BY <1>1, <1>2, <1>3, <1>4, Zenon DEF PoolNext

LEMMA PoolAlways == PoolSpec => []PoolInv
  BY PoolStart, PoolStep, PTL DEF PoolSpec

\* The pool's bookkeeping is well formed: offsets stay within a page and the
\* pool within its limit.
THEOREM PoolTyped == PoolSpec => []PoolTypeOK
  BY PoolAlways, PTL DEF PoolInv

\* Two buffers handed out by the pool never overlap, whatever sizes and
\* alignments are asked for and however often the pool grows or fails to.
THEOREM PoolBuffersDisjoint == PoolSpec => [](PagesDistinct /\ BuffersInPage /\ BuffersDisjoint)
  BY PoolAlways, PTL DEF PoolInv

-----------------------------------------------------------------------------
(* The heap of the AHCI driver, AhciHeap                                   *)

Asked == AhciRequests \cup {<<r[1], DefaultAlign>> : r \in AhciRequests}

\* Frame 0 may be one of the frames; alignments need not be powers of two here.
CarveSizes ==
    /\ AHCI_PAGE_SIZE \in Nat \ {0} /\ AhciFrames \subseteq Nat
    /\ \A r \in Asked : r[1] \in 1..AHCI_PAGE_SIZE /\ r[2] \in Nat \ {0}

CarveTypeOK ==
    /\ g_carve \in Nat /\ g_carve_end \in Nat /\ ahci_frames \subseteq AhciFrames
    /\ \A b \in buffers : b.start \in Nat /\ b.size \in Nat \ {0}

\* The rest of the carve page lies in a frame the heap took, and no buffer
\* reaches into it.
CarveOwned ==
    g_carve # 0 =>
        /\ g_carve .. (g_carve_end - 1) \subseteq TakenBytes
        /\ \A b \in buffers : Bytes(b) \cap (g_carve .. (g_carve_end - 1)) = {}

CarveInv == CarveSizes /\ CarveTypeOK /\ CarveOwned /\ StructuresOwned

-----------------------------------------------------------------------------
\* Alignment moves a position up.
LEMMA AlignUpIs == \A x \in Nat : \A a \in Nat \ {0} : AlignUp(x, a) \in Nat /\ AlignUp(x, a) >= x
  <1> SUFFICES ASSUME NEW x \in Nat, NEW a \in Nat \ {0}
               PROVE  AlignUp(x, a) \in Nat /\ AlignUp(x, a) >= x
    BY Zenon
  <1>1. (a - (x % a)) % a \in Nat
    OBVIOUS
  <1> QED
    BY <1>1 DEF AlignUp

\* Two frames have no byte in common.
LEMMA PagesApart ==
  ASSUME NEW P \in Nat \ {0}, NEW e \in Nat, NEW f \in Nat, e # f,
         NEW j \in 0..(P - 1), NEW k \in 0..(P - 1)
  PROVE  e * P + j # f * P + k
  <1>1. ASSUME NEW x \in Nat, NEW y \in Nat, x < y PROVE x * P + P <= y * P
    <2>1. PICK d \in Nat : y = x + 1 + d
      <3>1. y - x - 1 \in Nat /\ y = x + 1 + (y - x - 1)
        BY <1>1
      <3> QED
        BY <3>1, Zenon
    <2>2. y * P = x * P + P + d * P
      BY <2>1
    <2>3. d * P \in Nat /\ x * P \in Nat
      OBVIOUS
    <2> QED
      BY <2>2, <2>3
  <1>2. e * P \in Nat /\ f * P \in Nat
    OBVIOUS
  <1>3. CASE e < f
    <2>1. e * P + P <= f * P
      BY <1>1, <1>3, Zenon
    <2> QED
      BY <1>2, <2>1
  <1>4. CASE f < e
    <2>1. f * P + P <= e * P
      BY <1>1, <1>4, Zenon
    <2> QED
      BY <1>2, <2>1
  <1> QED
    BY <1>3, <1>4
-----------------------------------------------------------------------------
\* A buffer n with room of its own, to whichever bytes, keeps buffers apart.
LEMMA AddBuffer ==
  ASSUME CarveInv, NEW n, n.start \in Nat, n.size \in Nat \ {0},
         buffers' = buffers \cup {n}, ahci_frames' \subseteq ahci_frames,
         Bytes(n) \subseteq TakenBytes',
         \A b \in buffers : Bytes(b) \cap Bytes(n) = {}
  PROVE  /\ StructuresOwned'
         /\ \A b \in buffers' : b.start \in Nat /\ b.size \in Nat \ {0}
  <1>1. TakenBytes \subseteq TakenBytes'
    BY DEF TakenBytes
  <1>2. \A b \in buffers : Bytes(b) \subseteq TakenBytes
    BY Zenon DEF CarveInv, StructuresOwned
  <1>3. \A b \in buffers' : Bytes(b) \subseteq TakenBytes'
    BY <1>1, <1>2, Zenon
  <1>4. \A b, c \in buffers' : b # c => Bytes(b) \cap Bytes(c) = {}
    <2> SUFFICES ASSUME NEW b \in buffers', NEW c \in buffers', b # c
                 PROVE  Bytes(b) \cap Bytes(c) = {}
      BY Zenon
    <2>1. CASE b \in buffers /\ c \in buffers
      BY <2>1, Zenon DEF CarveInv, StructuresOwned
    <2>2. CASE b = n
      <3>1. c \in buffers
        BY <2>2, Zenon
      <3> QED
        BY <2>2, <3>1, Zenon
    <2>3. CASE c = n
      <3>1. b \in buffers
        BY <2>3, Zenon
      <3> QED
        BY <2>3, <3>1, Zenon
    <2> QED
      BY <2>1, <2>2, <2>3, Zenon
  <1>5. \A b \in buffers' : b.start \in Nat /\ b.size \in Nat \ {0}
    BY Zenon DEF CarveInv, CarveTypeOK
  <1> QED
    BY <1>3, <1>4, <1>5, Zenon DEF StructuresOwned, Bytes

\* A buffer cut from the carve page.
LEMMA CarveStep ==
  ASSUME CarveInv, NEW size \in 1..AHCI_PAGE_SIZE, NEW align \in Nat \ {0},
         dma_alloc_aligned(size, align)
  PROVE  CarveInv'
  <1> DEFINE a == AlignUp(g_carve, align)
             n == Carved(a, size, align)
  <1>0. CarveSizes /\ CarveTypeOK /\ CarveOwned
    BY Zenon DEF CarveInv
  <1>1. /\ g_carve # 0 /\ a + size <= g_carve_end /\ g_carve' = a + size
        /\ buffers' = buffers \cup {n} /\ g_carve_end' = g_carve_end /\ ahci_frames' = ahci_frames
    BY Zenon DEF dma_alloc_aligned, FitsInPage
  <1>2. a \in Nat /\ a >= g_carve
    BY <1>0, AlignUpIs, Zenon DEF CarveTypeOK
  <1>3. n.start = a /\ n.size = size
    BY Zenon DEF Carved
  <1> HIDE DEF a, n
  <1>4. size \in Nat \ {0} /\ g_carve \in Nat /\ g_carve_end \in Nat
    BY <1>0 DEF CarveSizes, CarveTypeOK
  <1>5. Bytes(n) \subseteq g_carve .. (g_carve_end - 1)
    BY <1>1, <1>2, <1>3, <1>4 DEF Bytes
  <1>6. /\ g_carve .. (g_carve_end - 1) \subseteq TakenBytes
        /\ \A b \in buffers : Bytes(b) \cap (g_carve .. (g_carve_end - 1)) = {}
    BY <1>0, <1>1, Zenon DEF CarveOwned
  <1>7. TakenBytes' = TakenBytes
    BY <1>1 DEF TakenBytes
  <1>8. /\ Bytes(n) \subseteq TakenBytes'
        /\ \A b \in buffers : Bytes(b) \cap Bytes(n) = {}
    BY <1>5, <1>6, <1>7, Zenon
  <1>9. /\ StructuresOwned'
        /\ \A b \in buffers' : b.start \in Nat /\ b.size \in Nat \ {0}
    BY <1>1, <1>2, <1>3, <1>4, <1>8, AddBuffer, Zenon
  <1>10. CarveTypeOK'
    BY <1>0, <1>1, <1>2, <1>4, <1>9 DEF CarveTypeOK
  <1>11. CarveOwned'
    <2>1. g_carve' .. (g_carve_end' - 1) \subseteq g_carve .. (g_carve_end - 1)
      BY <1>1, <1>2, <1>4
    <2>2. Bytes(n) \cap (g_carve' .. (g_carve_end' - 1)) = {}
      BY <1>1, <1>2, <1>3, <1>4 DEF Bytes
    <2>3. \A b \in buffers' : Bytes(b) \cap (g_carve' .. (g_carve_end' - 1)) = {}
      BY <1>1, <1>6, <2>1, <2>2, Zenon
    <2> QED
      BY <1>6, <1>7, <2>1, <2>3, Zenon DEF CarveOwned, Bytes
  <1> QED
    BY <1>0, <1>9, <1>10, <1>11, Zenon DEF CarveInv, CarveSizes, Asked

\* A buffer at the start of a new carve page.
LEMMA NewPageStep ==
  ASSUME CarveInv, NEW size \in 1..AHCI_PAGE_SIZE, NEW align \in Nat \ {0},
         dma_alloc_aligned_new_page(size, align)
  PROVE  CarveInv'
  <1>0. CarveSizes /\ CarveTypeOK
    BY Zenon DEF CarveInv
  <1>1. PICK f \in ahci_frames :
            /\ ahci_frames' = ahci_frames \ {f}
            /\ g_carve' = f * AHCI_PAGE_SIZE + size
            /\ g_carve_end' = f * AHCI_PAGE_SIZE + AHCI_PAGE_SIZE
            /\ buffers' = buffers \cup {Carved(f * AHCI_PAGE_SIZE, size, align)}
    BY Zenon DEF dma_alloc_aligned_new_page
  <1> DEFINE s == f * AHCI_PAGE_SIZE
             n == Carved(s, size, align)
             page == s .. (s + AHCI_PAGE_SIZE - 1)
  <1>2. AHCI_PAGE_SIZE \in Nat \ {0} /\ size \in Nat \ {0} /\ size <= AHCI_PAGE_SIZE
    BY <1>0 DEF CarveSizes
  <1>3. f \in AhciFrames /\ f \in Nat
    BY <1>0, Zenon DEF CarveSizes, CarveTypeOK
  <1>4. s \in Nat
    BY <1>2, <1>3
  <1>5. \A x \in page : x - s \in 0..(AHCI_PAGE_SIZE - 1) /\ x = s + (x - s)
    BY <1>2, <1>4
  <1>6. page \subseteq TakenBytes'
    <2> SUFFICES ASSUME NEW x \in page PROVE x \in TakenBytes'
      BY Zenon
    <2>1. f \in AhciFrames \ ahci_frames'
      BY <1>1, <1>3, Zenon
    <2>2. x - s \in 0..(AHCI_PAGE_SIZE - 1) /\ x = f * AHCI_PAGE_SIZE + (x - s)
      BY <1>5, Zenon
    <2>3. \E k \in 0..(AHCI_PAGE_SIZE - 1) : x = f * AHCI_PAGE_SIZE + k
      BY <2>2, Zenon
    <2>4. TakenBytes' = {e * AHCI_PAGE_SIZE + k : e \in AhciFrames \ ahci_frames', k \in 0..(AHCI_PAGE_SIZE - 1)}
      BY DEF TakenBytes
    <2> HIDE DEF page
    <2> QED
      BY <2>1, <2>3, <2>4
  <1>7. page \cap TakenBytes = {}
    <2> SUFFICES ASSUME NEW x \in page, x \in TakenBytes PROVE FALSE
      BY Zenon
    <2>1. PICK e \in AhciFrames \ ahci_frames, k \in 0..(AHCI_PAGE_SIZE - 1) : x = e * AHCI_PAGE_SIZE + k
      BY DEF TakenBytes
    <2>2. e \in Nat /\ e # f
      BY <1>0, <1>1, Zenon DEF CarveSizes
    <2>3. x - s \in 0..(AHCI_PAGE_SIZE - 1) /\ x = f * AHCI_PAGE_SIZE + (x - s)
      BY <1>5, Zenon
    <2>4. e * AHCI_PAGE_SIZE + k # f * AHCI_PAGE_SIZE + (x - s)
      BY <1>2, <1>3, <2>2, <2>3, PagesApart, Zenon
    <2> QED
      BY <2>1, <2>3, <2>4, Zenon
  <1>8. n.start = s /\ n.size = size
    BY Zenon DEF Carved
  <1>9. /\ g_carve' = s + size /\ g_carve_end' = s + AHCI_PAGE_SIZE /\ buffers' = buffers \cup {n}
        /\ ahci_frames' \subseteq ahci_frames
    BY <1>1, Zenon
  <1> HIDE DEF s, n
  <1>10. Bytes(n) \subseteq page
    BY <1>2, <1>4, <1>8 DEF Bytes
  <1>11. \A b \in buffers : Bytes(b) \cap page = {}
    BY <1>7, Zenon DEF CarveInv, StructuresOwned
  <1>12. /\ StructuresOwned'
         /\ \A b \in buffers' : b.start \in Nat /\ b.size \in Nat \ {0}
    <2>1. Bytes(n) \subseteq TakenBytes' /\ \A b \in buffers : Bytes(b) \cap Bytes(n) = {}
      BY <1>6, <1>10, <1>11, Zenon
    <2> QED
      BY <1>2, <1>4, <1>8, <1>9, <2>1, AddBuffer, Zenon
  <1>13. CarveTypeOK'
    BY <1>0, <1>2, <1>4, <1>9, <1>12 DEF CarveTypeOK
  <1>14. CarveOwned'
    <2>1. g_carve' .. (g_carve_end' - 1) \subseteq page
      BY <1>2, <1>4, <1>9
    <2>2. Bytes(n) \cap (g_carve' .. (g_carve_end' - 1)) = {}
      BY <1>2, <1>4, <1>8, <1>9 DEF Bytes
    <2> HIDE DEF page
    <2>3. \A b \in buffers' : Bytes(b) \cap (g_carve' .. (g_carve_end' - 1)) = {}
      BY <1>9, <1>11, <2>1, <2>2, Zenon
    <2> QED
      BY <1>6, <2>1, <2>3, Zenon DEF CarveOwned, Bytes
  <1> QED
    BY <1>0, <1>12, <1>13, <1>14, Zenon DEF CarveInv, CarveSizes, Asked

\* Command list, received FIS and command tables lie in frames the heap took
\* and are apart, whatever the sizes, alignments and frames.
THEOREM StructuresApart == CarveSizes /\ CarveSpec => []StructuresOwned
  <1>1. CarveSizes /\ CarveInit => CarveInv
    BY DEF CarveInit, CarveInv, CarveSizes, CarveTypeOK, CarveOwned, StructuresOwned
  <1>2. CarveInv /\ [CarveNext]_carveVars => CarveInv'
    <2> SUFFICES ASSUME CarveInv, [CarveNext]_carveVars PROVE CarveInv'
      BY Zenon
    <2>1. CASE UNCHANGED carveVars
      <3>1. UNCHANGED <<TakenBytes, buffers, g_carve, g_carve_end, ahci_frames>>
        BY <2>1 DEF carveVars, TakenBytes
      <3>2. CarveSizes' /\ CarveTypeOK'
        BY <3>1, Zenon DEF CarveInv, CarveSizes, Asked, CarveTypeOK
      <3>3. CarveOwned' /\ StructuresOwned'
        BY <3>1, Zenon DEF CarveInv, CarveOwned, StructuresOwned, Bytes
      <3> QED
        BY <3>2, <3>3, Zenon DEF CarveInv
    <2>2. ASSUME NEW r \in Asked,
                 \/ dma_alloc_aligned(r[1], r[2])
                 \/ dma_alloc_aligned_new_page(r[1], r[2])
                 \/ dma_alloc_aligned_fails(r[1], r[2])
          PROVE  CarveInv'
      <3>1. r[1] \in 1..AHCI_PAGE_SIZE /\ r[2] \in Nat \ {0}
        BY Zenon DEF CarveInv, CarveSizes
      <3>2. CASE dma_alloc_aligned(r[1], r[2])
        BY <3>1, <3>2, CarveStep, Zenon
      <3>3. CASE dma_alloc_aligned_new_page(r[1], r[2])
        BY <3>1, <3>3, NewPageStep, Zenon
      <3>4. CASE dma_alloc_aligned_fails(r[1], r[2])
        BY <2>1, <3>4, Zenon DEF dma_alloc_aligned_fails
      <3> QED
        BY <2>2, <3>2, <3>3, <3>4, Zenon
    <2> QED
      BY <2>1, <2>2, Zenon DEF CarveNext, Asked
  <1>3. CarveInv => StructuresOwned
    BY Zenon DEF CarveInv
  <1> QED
    BY <1>1, <1>2, <1>3, PTL DEF CarveSpec
=============================================================================
