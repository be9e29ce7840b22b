------------------------------ MODULE Lemmas ------------------------------
(***************************************************************************)
(* Facts that the proofs of several components rest on: the least member   *)
(* of a set of numbers, and a circular buffer of n slots as a sequence,    *)
(* the slots from tail up to, and not including, head, oldest first.  The  *)
(* keyboard ring and the rings of the network driver are read this way.    *)
(***************************************************************************)
EXTENDS Integers, Sequences, FiniteSetsExt, WellFoundedInduction, TLAPS

\* A leaf that names no prover is tried with SMT, then with Zenon, for at most 20 seconds each.
USE SMTT(20), ZenonT(20)

\* A set of natural numbers that is not empty has a least member.
LEMMA MinIsLeast ==
    ASSUME NEW S, S \subseteq Nat, S # {}
    PROVE  Min(S) \in S /\ \A y \in S : Min(S) =< y
<1>1. PICK x \in S : \A y \in S : ~ (<<y, x>> \in OpToRel(<, Nat))
  BY NatLessThanWellFounded, WFMin, Zenon
<1>2. \A y \in S : <<y, x>> \in OpToRel(<, Nat) <=> y < x
  BY Zenon DEF OpToRel
<1>3. \A y \in S : ~ (y < x)
  BY <1>1, <1>2, Zenon
<1>4. \A y \in S : x =< y
  BY <1>3
<1> QED
  BY <1>4, Zenon DEF Min

-----------------------------------------------------------------------------

\* How many slots are in use, and the slot of the k-th of them.
Used(n, head, tail) == (head + n - tail) % n
SlotAt(n, tail, k) == (tail + k - 1) % n
Step(n, i) == (i + 1) % n
Queue(n, g, head, tail) == [k \in 1..Used(n, head, tail) |-> g[SlotAt(n, tail, k)]]

\* The indices of a ring.
IsRing(n, head, tail) == n \in Nat \ {0} /\ head \in 0..(n - 1) /\ tail \in 0..(n - 1)

\* g gives every slot a value of V.
ValuesIn(n, g, V) == g \in [0..(n - 1) -> V]

\* h is g but for what slot i holds.
Stores(n, g, h, i) == \A j \in 0..(n - 1) : j # i => h[j] = g[j]

\* The remainder of what is less than twice the divisor.
LEMMA ModOnce == \A n \in Nat \ {0} : \A a \in 0..(2 * n - 1) :
                   a % n = IF a < n THEN a ELSE a - n
  <1> SUFFICES ASSUME NEW n \in Nat \ {0}, NEW a \in 0..(2 * n - 1)
               PROVE  a % n = IF a < n THEN a ELSE a - n
    BY Zenon
  <1>1. CASE a < n
    BY <1>1
  <1>2. CASE a >= n
    BY <1>2
  <1> QED
    BY <1>1, <1>2
\* How many slots are in use, without the remainder.
LEMMA UsedIs ==
  ASSUME NEW n \in Nat \ {0}, NEW head \in 0..(n - 1), NEW tail \in 0..(n - 1)
  PROVE  /\ Used(n, head, tail) = IF head >= tail THEN head - tail ELSE head + n - tail
         /\ Used(n, head, tail) \in 0..(n - 1)
  <1> DEFINE a == head + n - tail
  <1>1. a \in 0..(2 * n - 1)
    OBVIOUS
  <1>2. Used(n, head, tail) = a % n
    BY Zenon DEF Used
  <1> HIDE DEF a
  <1>3. a % n = IF a < n THEN a ELSE a - n
    BY <1>1, ModOnce, Zenon
  <1> QED
    BY <1>2, <1>3 DEF a

\* The slot after a slot, without the remainder.
LEMMA StepIs ==
  ASSUME NEW n \in Nat \ {0}, NEW i \in 0..(n - 1)
  PROVE  /\ Step(n, i) = IF i = n - 1 THEN 0 ELSE i + 1
         /\ Step(n, i) \in 0..(n - 1)
  <1> DEFINE a == i + 1
  <1>1. a \in 0..(2 * n - 1)
    OBVIOUS
  <1>2. Step(n, i) = a % n
    BY Zenon DEF Step
  <1> HIDE DEF a
  <1>3. a % n = IF a < n THEN a ELSE a - n
    BY <1>1, ModOnce, Zenon
  <1> QED
    BY <1>2, <1>3 DEF a

\* The k-th slot in use, without the remainder.
LEMMA AtIs ==
  ASSUME NEW n \in Nat \ {0}, NEW tail \in 0..(n - 1), NEW k \in 1..n
  PROVE  /\ SlotAt(n, tail, k) = IF tail + k - 1 < n THEN tail + k - 1 ELSE tail + k - 1 - n
         /\ SlotAt(n, tail, k) \in 0..(n - 1)
  <1> DEFINE a == tail + k - 1
  <1>1. a \in 0..(2 * n - 1)
    OBVIOUS
  <1>2. SlotAt(n, tail, k) = a % n
    BY Zenon DEF SlotAt
  <1> HIDE DEF a
  <1>3. a % n = IF a < n THEN a ELSE a - n
    BY <1>1, ModOnce, Zenon
  <1> QED
    BY <1>2, <1>3 DEF a

\* The slots in use make a sequence as long as they are many.
LEMMA QueueIs ==
  \A n, head, tail, V, g :
    IsRing(n, head, tail) /\ ValuesIn(n, g, V) =>
      /\ Queue(n, g, head, tail) \in Seq(V)
      /\ Len(Queue(n, g, head, tail)) = Used(n, head, tail)
  <1> SUFFICES ASSUME NEW n \in Nat \ {0}, NEW head \in 0..(n - 1), NEW tail \in 0..(n - 1),
                      NEW V, NEW g,
                      ValuesIn(n, g, V)
               PROVE  /\ Queue(n, g, head, tail) \in Seq(V)
                      /\ Len(Queue(n, g, head, tail)) = Used(n, head, tail)
    BY DEF IsRing
  <1> DEFINE m == Used(n, head, tail)
             q == Queue(n, g, head, tail)
  <1>1. m \in Nat /\ m < n
    <2>1. m \in 0..(n - 1)
      BY UsedIs, Zenon
    <2> QED
      BY <2>1
  <1>2. \A k \in 1..m : g[SlotAt(n, tail, k)] \in V
    <2> SUFFICES ASSUME NEW k \in 1..m PROVE g[SlotAt(n, tail, k)] \in V
      BY Zenon
    <2>1. k \in 1..n
      BY <1>1
    <2> QED
      BY <2>1, AtIs, Zenon DEF ValuesIn
  <1>3. q \in [1..m -> V]
    BY <1>2, Zenon DEF Queue
  <1> HIDE DEF q, m
  <1>4. q \in Seq(V) /\ Len(q) = m
    BY <1>1, <1>3
  <1> QED
    BY <1>4, Zenon DEF q, m

\* The ring is full, that is, the slot after head is tail, when all slots but
\* one are in use; else moving head up puts one more in use.
LEMMA HeadUp ==
  \A n, head, tail :
    IsRing(n, head, tail) =>
      /\ Step(n, head) # tail <=> Used(n, head, tail) < n - 1
      /\ Step(n, head) # tail => Used(n, Step(n, head), tail) = Used(n, head, tail) + 1
      /\ SlotAt(n, tail, Used(n, head, tail) + 1) = head
      /\ \A k \in 1..Used(n, head, tail) : SlotAt(n, tail, k) # head
  <1> SUFFICES ASSUME NEW n \in Nat \ {0}, NEW head \in 0..(n - 1), NEW tail \in 0..(n - 1)
               PROVE  /\ Step(n, head) # tail <=> Used(n, head, tail) < n - 1
                      /\ Step(n, head) # tail =>
                           Used(n, Step(n, head), tail) = Used(n, head, tail) + 1
                      /\ SlotAt(n, tail, Used(n, head, tail) + 1) = head
                      /\ \A k \in 1..Used(n, head, tail) : SlotAt(n, tail, k) # head
    BY DEF IsRing
  <1> DEFINE m == Used(n, head, tail)
             s == Step(n, head)
  <1>1. /\ m = IF head >= tail THEN head - tail ELSE head + n - tail
        /\ m \in 0..(n - 1)
    BY UsedIs, Zenon
  <1>2. /\ s = IF head = n - 1 THEN 0 ELSE head + 1
        /\ s \in 0..(n - 1)
    BY StepIs, Zenon
  <1>3. Used(n, s, tail) = IF s >= tail THEN s - tail ELSE s + n - tail
    BY <1>2, UsedIs, Zenon
  <1> HIDE DEF m, s
  <1>4. (s # tail <=> m < n - 1) /\ (s # tail => Used(n, s, tail) = m + 1)
    BY <1>1, <1>2, <1>3
  <1>5. SlotAt(n, tail, m + 1) = head
    <2>1. m + 1 \in 1..n
      BY <1>1
    <2>2. SlotAt(n, tail, m + 1) = IF tail + (m + 1) - 1 < n
                                 THEN tail + (m + 1) - 1 ELSE tail + (m + 1) - 1 - n
      BY <2>1, AtIs, Zenon
    <2> QED
      BY <1>1, <2>2
  <1>6. ASSUME NEW k \in 1..m PROVE SlotAt(n, tail, k) # head
    <2>1. k \in 1..n
      BY <1>1
    <2>2. SlotAt(n, tail, k) = IF tail + k - 1 < n THEN tail + k - 1 ELSE tail + k - 1 - n
      BY <2>1, AtIs, Zenon
    <2> QED
      BY <1>1, <2>2
  <1> QED
    BY <1>4, <1>5, <1>6, Zenon DEF m, s

\* The number in use alone, when the next slot is free.
LEMMA UsedUp ==
  \A n, head, tail :
    IsRing(n, head, tail) /\ Step(n, head) # tail =>
      Used(n, Step(n, head), tail) = Used(n, head, tail) + 1
  BY HeadUp

\* Moving tail of a ring that is not empty up puts one less in use, and numbers
\* the others one lower.
LEMMA TailUp ==
  \A n, head, tail :
    IsRing(n, head, tail) /\ head # tail =>
      /\ Used(n, head, tail) >= 1
      /\ Used(n, head, Step(n, tail)) = Used(n, head, tail) - 1
      /\ SlotAt(n, tail, 1) = tail
      /\ \A k \in 1..(Used(n, head, tail) - 1) : SlotAt(n, Step(n, tail), k) = SlotAt(n, tail, k + 1)
  <1> SUFFICES ASSUME NEW n \in Nat \ {0}, NEW head \in 0..(n - 1), NEW tail \in 0..(n - 1),
                      head # tail
               PROVE  /\ Used(n, head, tail) >= 1
                      /\ Used(n, head, Step(n, tail)) = Used(n, head, tail) - 1
                      /\ SlotAt(n, tail, 1) = tail
                      /\ \A k \in 1..(Used(n, head, tail) - 1) :
                           SlotAt(n, Step(n, tail), k) = SlotAt(n, tail, k + 1)
    BY DEF IsRing
  <1> DEFINE m == Used(n, head, tail)
             s == Step(n, tail)
  <1>1. /\ m = IF head >= tail THEN head - tail ELSE head + n - tail
        /\ m \in 0..(n - 1)
    BY UsedIs, Zenon
  <1>2. /\ s = IF tail = n - 1 THEN 0 ELSE tail + 1
        /\ s \in 0..(n - 1)
    BY StepIs, Zenon
  <1>3. Used(n, head, s) = IF head >= s THEN head - s ELSE head + n - s
    BY <1>2, UsedIs, Zenon
  <1> HIDE DEF m, s
  <1>4. m >= 1 /\ Used(n, head, s) = m - 1
    BY <1>1, <1>2, <1>3
  <1>5. SlotAt(n, tail, 1) = tail
    BY AtIs
  <1>6. ASSUME NEW k \in 1..(m - 1) PROVE SlotAt(n, s, k) = SlotAt(n, tail, k + 1)
    <2>1. k \in 1..n /\ k + 1 \in 1..n
      BY <1>1
    <2>2. SlotAt(n, s, k) = IF s + k - 1 < n THEN s + k - 1 ELSE s + k - 1 - n
      BY <1>2, <2>1, AtIs, Zenon
    <2>3. SlotAt(n, tail, k + 1) = IF tail + (k + 1) - 1 < n
                                 THEN tail + (k + 1) - 1 ELSE tail + (k + 1) - 1 - n
      BY <2>1, AtIs, Zenon
    <2> QED
      BY <1>1, <1>2, <2>2, <2>3
  <1> QED
    BY <1>4, <1>5, <1>6, Zenon DEF m, s

\* The number in use alone, when something is in use.
LEMMA UsedDown ==
  \A n, head, tail :
    IsRing(n, head, tail) /\ head # tail =>
      Used(n, head, Step(n, tail)) = Used(n, head, tail) - 1
  BY TailUp

\* A value stored at head of a ring that is not full is appended.
LEMMA RingPushed ==
  \A n, head, tail, V, g, h :
    /\ IsRing(n, head, tail) /\ ValuesIn(n, g, V) /\ ValuesIn(n, h, V)
    /\ Stores(n, g, h, head) /\ Step(n, head) # tail
    =>
      Queue(n, h, Step(n, head), tail) = Append(Queue(n, g, head, tail), h[head])
  <1> SUFFICES ASSUME NEW n \in Nat \ {0}, NEW head \in 0..(n - 1), NEW tail \in 0..(n - 1),
                      NEW V, NEW g, NEW h,
                      ValuesIn(n, g, V), ValuesIn(n, h, V), Stores(n, g, h, head), Step(n, head) # tail
               PROVE  Queue(n, h, Step(n, head), tail) = Append(Queue(n, g, head, tail), h[head])
    BY DEF IsRing
  <1>r. IsRing(n, head, tail)
    BY Zenon DEF IsRing
  <1> DEFINE m == Used(n, head, tail)
             s == Step(n, head)
             q == Queue(n, g, head, tail)
             r == Queue(n, h, s, tail)
  <1>1. m \in 0..(n - 1)
    BY UsedIs, Zenon
  <1>2. s \in 0..(n - 1)
    BY StepIs, Zenon
  <1>n. IsRing(n, s, tail)
    BY <1>2, Zenon DEF IsRing
  <1>3. /\ Used(n, s, tail) = m + 1 /\ SlotAt(n, tail, m + 1) = head
        /\ \A k \in 1..m : SlotAt(n, tail, k) # head
    BY <1>r, HeadUp
  <1>4. q \in Seq(V) /\ Len(q) = m
    BY <1>r, QueueIs, Zenon
  <1>5. r \in Seq(V) /\ Len(r) = m + 1
    <2>1. r \in Seq(V) /\ Len(r) = Used(n, s, tail)
      BY <1>n, QueueIs, Zenon
    <2> QED
      BY <1>3, <2>1, Zenon
  <1>6. q = [k \in 1..m |-> g[SlotAt(n, tail, k)]] /\ r = [k \in 1..(m + 1) |-> h[SlotAt(n, tail, k)]]
    BY <1>3, Zenon DEF Queue
  <1> HIDE DEF m, s, q, r
  <1>7. \A k \in 1..m : r[k] = q[k]
    <2> SUFFICES ASSUME NEW k \in 1..m PROVE r[k] = q[k]
      BY Zenon
    <2>1. k \in 1..(m + 1) /\ k \in 1..n
      BY <1>1
    <2>2. SlotAt(n, tail, k) \in 0..(n - 1)
      BY <2>1, AtIs, Zenon
    <2>3. h[SlotAt(n, tail, k)] = g[SlotAt(n, tail, k)]
      BY <1>3, <2>2, Zenon DEF Stores
    <2> QED
      BY <1>6, <2>1, <2>3, Zenon
  <1>8. r[m + 1] = h[head]
    BY <1>1, <1>3, <1>6
  <1>9. h[head] \in V
    BY Zenon DEF ValuesIn
  <1>10. r = Append(q, h[head])
    BY <1>1, <1>4, <1>5, <1>7, <1>8, <1>9
  <1> QED
    BY <1>10, Zenon DEF s, q, r

\* Moving tail up takes the oldest value out.
LEMMA TakenOut ==
  \A n, head, tail, V, g :
    IsRing(n, head, tail) /\ ValuesIn(n, g, V) /\ head # tail =>
      /\ Queue(n, g, head, tail) # <<>>
      /\ Head(Queue(n, g, head, tail)) = g[tail]
      /\ Tail(Queue(n, g, head, tail)) = Queue(n, g, head, Step(n, tail))
  <1> SUFFICES ASSUME NEW n \in Nat \ {0}, NEW head \in 0..(n - 1), NEW tail \in 0..(n - 1),
                      NEW V, NEW g,
                      ValuesIn(n, g, V), head # tail
               PROVE  /\ Queue(n, g, head, tail) # <<>>
                      /\ Head(Queue(n, g, head, tail)) = g[tail]
                      /\ Tail(Queue(n, g, head, tail)) = Queue(n, g, head, Step(n, tail))
    BY DEF IsRing
  <1>r. IsRing(n, head, tail)
    BY Zenon DEF IsRing
  <1> DEFINE m == Used(n, head, tail)
             s == Step(n, tail)
             q == Queue(n, g, head, tail)
             r == Queue(n, g, head, s)
  <1>1. m \in 0..(n - 1)
    BY UsedIs, Zenon
  <1>2. s \in 0..(n - 1)
    BY StepIs, Zenon
  <1>n. IsRing(n, head, s)
    BY <1>2, Zenon DEF IsRing
  <1>3. /\ m >= 1 /\ Used(n, head, s) = m - 1 /\ SlotAt(n, tail, 1) = tail
        /\ \A k \in 1..(m - 1) : SlotAt(n, s, k) = SlotAt(n, tail, k + 1)
    BY <1>r, TailUp
  <1>4. q \in Seq(V) /\ Len(q) = m
    BY <1>r, QueueIs, Zenon
  <1>5. r \in Seq(V) /\ Len(r) = m - 1
    <2>1. r \in Seq(V) /\ Len(r) = Used(n, head, s)
      BY <1>n, QueueIs, Zenon
    <2> QED
      BY <1>3, <2>1, Zenon
  <1>6. q = [k \in 1..m |-> g[SlotAt(n, tail, k)]] /\ r = [k \in 1..(m - 1) |-> g[SlotAt(n, s, k)]]
    BY <1>3, Zenon DEF Queue
  <1> HIDE DEF m, s, q, r
  <1>7. q[1] = g[tail]
    BY <1>1, <1>3, <1>6
  <1>8. \A k \in 1..(m - 1) : r[k] = q[k + 1]
    BY <1>1, <1>3, <1>6
  <1>9. q # <<>> /\ Head(q) = g[tail]
    BY <1>1, <1>3, <1>4, <1>7
  <1>10. Tail(q) = r
    BY <1>1, <1>3, <1>4, <1>5, <1>8
  <1> QED
    BY <1>9, <1>10, Zenon DEF s, q, r
===========================================================================
