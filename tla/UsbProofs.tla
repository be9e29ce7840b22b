----------------------------- MODULE UsbProofs ------------------------------
(***************************************************************************)
(* Proofs about the USB host controllers: a transfer of the xHCI driver is *)
(* given its own status, for every size of the rings; and the control pipes *)
(* of the enumeration stay exclusive, for every tree of hubs.              *)
(***************************************************************************)
EXTENDS Xhci, UsbEnum, TLAPS

\* A leaf that names no prover is tried with SMT, then with Zenon, for at most 20 seconds each.
USE SMTT(20), ZenonT(20)

-----------------------------------------------------------------------------
(* The rings of the USB host controller, Xhci                              *)

\* A ring has more items than there are TRBs without an answer, so that the
\* place of the last one tells them apart; one of the thread and the tick
\* uses the controller.
RingsFit ==
    /\ XHCI_RING_ITEMS \in Nat /\ MaxUnanswered \in Nat
    /\ MaxUnanswered < XHCI_RING_ITEMS - 1
    /\ TrbCounts \subseteq Nat \ {0}
    /\ UserSets \subseteq {{"thread"}, {"tick"}}

LastItem == XHCI_RING_ITEMS - 1
Places == 0..LastItem
Bits == {0, 1}

\* How many TRBs were put on ring q after the one before place p.
Behind(q, p) == IF p <= q.nidx THEN q.nidx - p ELSE q.nidx + LastItem - p

\* The cycle bit of a place in a ring written up to n with cycle bit c.
BitAt(p, n, c) == IF p <= n THEN c ELSE Flip(c)

Trbs == [id : Int, ioc : BOOLEAN, c : Bits]
Queues == [trb : [Items -> Trbs], nidx : Places, cs : Bits, eidx : Places, evt : Int]

\* The written entries of a ring have its cycle bit and the others have not;
\* a link is only in the last item.
RingOK(q) ==
    /\ q \in Queues
    /\ \A h \in Items : q.trb[h].c = IF h < q.nidx THEN q.cs ELSE Flip(q.cs)
    /\ \A h \in 0..(LastItem - 1) : q.trb[h].id # Link

\* The controller is in the driver's lap, or in the one before.
PlaceOK(q, p) ==
    /\ p.idx \in Places /\ p.cs = BitAt(p.idx, q.nidx, q.cs)
    /\ p.idx > q.nidx => q.trb[LastItem].id = Link

\* The last TRB is of the request asked for, and the ring is idle only with
\* that request's status.
Answers(q, p, a) ==
    /\ Behind(q, q.eidx) <= MaxUnanswered
    /\ q.nidx > 0 => q.trb[q.nidx - 1].id = a
    /\ q.eidx = q.nidx => q.evt = a
    /\ ~p.halted => PlaceOK(q, p) /\ Behind(q, p.idx) <= Behind(q, q.eidx)

Events == [r : {"cmd"}, idx : Places, id : Int, n : Nat, c : Bits]

\* The event ring: x is the driver's place and y the controller's.
EventRingOK(v, x, y) ==
    /\ v \in [Items -> Events]
    /\ x \in [nidx : Items, cs : Bits] /\ y \in [idx : Items, cs : Bits]
    /\ \A h \in Items : v[h].c = IF h < y.idx THEN y.cs ELSE Flip(y.cs)
    /\ x.cs = BitAt(x.nidx, y.idx, y.cs)

Fresh(h, x, y) ==
    IF x.nidx <= y.idx THEN x.nidx <= h /\ h < y.idx ELSE x.nidx <= h \/ h < y.idx
Rank(h, x) == IF x.nidx <= h THEN h - x.nidx ELSE h + XHCI_RING_ITEMS - x.nidx

\* An event not yet moved past is about a TRB no earlier than the last one
\* applied and before the controller's place, and later ones are about later
\* TRBs; one about the last TRB is about the request asked for.
EventOK(ev, q, p, a) ==
    /\ ev.idx + 1 \in Places
    /\ Behind(q, ev.idx + 1) <= Behind(q, q.eidx)
    /\ ev.idx + 1 = q.nidx => ev.id = a
    /\ ~p.halted => Behind(q, p.idx) <= Behind(q, ev.idx + 1)
Pending(v, x, y, q, p, a) == \A h \in Items : Fresh(h, x, y) => EventOK(v[h], q, p, a)
Ordered(v, x, y, q) ==
    \A h, j \in Items :
        Fresh(h, x, y) /\ Fresh(j, x, y) /\ Rank(h, x) <= Rank(j, x) =>
            Behind(q, v[j].idx + 1) <= Behind(q, v[h].idx + 1)

\* Without the tick nothing is put on the interrupt pipe's ring.
IntIdle ==
    /\ \A h \in Items : ring["int"].trb[h].c = 0
    /\ ctl["int"].idx = 0 /\ ctl["int"].cs = 1

ThreadTypeOK ==
    /\ ring = [r \in Rings |-> ring[r]]
    /\ ctl \in [Rings -> [idx : Places, cs : Bits, halted : BOOLEAN]]
    /\ asked \in Nat /\ posted \in Nat
    /\ erdp = e.nidx
    /\ hc_pc \in {"apply", "advance"} => l = e /\ e.nidx # post.idx

ThreadInv ==
    /\ ThreadTypeOK /\ IntIdle
    /\ RingOK(ring["cmd"]) /\ Answers(ring["cmd"], ctl["cmd"], asked)
    /\ EventRingOK(evts, e, post)
    /\ Pending(evts, e, post, ring["cmd"], ctl["cmd"], asked)
    /\ Ordered(evts, e, post, ring["cmd"])

HcInv ==
    /\ users \in {{"thread"}, {"tick"}}
    /\ users = {"tick"} => hc_pc = "idle"
    /\ users = {"thread"} => ThreadInv

-----------------------------------------------------------------------------
LEMMA ItemsAre ==
    ASSUME RingsFit
    PROVE  /\ LastItem \in Nat \ {0} /\ LastItem + 1 = XHCI_RING_ITEMS
           /\ Items = 0..LastItem /\ Places = 0..LastItem /\ MaxUnanswered \in Nat
           /\ MaxUnanswered < LastItem /\ XHCI_RING_ITEMS \in Nat
BY DEF RingsFit, LastItem, Items, Places

LEMMA FlipTwice == \A c \in Bits : Flip(c) \in Bits /\ Flip(c) # c /\ Flip(Flip(c)) = c
BY DEF Bits, Flip

LEMMA BehindIs ==
    ASSUME RingsFit, NEW q, q.nidx \in Places, NEW p \in Places
    PROVE  /\ Behind(q, p) \in Nat
           /\ Behind(q, p) = IF p <= q.nidx THEN q.nidx - p ELSE q.nidx + LastItem - p
BY ItemsAre DEF Behind

\* Unanswered measures the same, while there are fewer TRBs than places.
LEMMA UnansweredIs ==
    ASSUME RingsFit, NEW q, q.nidx \in Places, q.eidx \in Places,
           Behind(q, q.eidx) <= MaxUnanswered
    PROVE  Unanswered(q) = Behind(q, q.eidx)
<1> DEFINE d == q.nidx - q.eidx
<1>1. LastItem \in Nat \ {0} /\ MaxUnanswered \in Nat /\ MaxUnanswered < LastItem
      /\ q.nidx \in 0..LastItem /\ q.eidx \in 0..LastItem
  BY ItemsAre, Zenon
<1>2. Unanswered(q) = d % LastItem
  BY Zenon DEF Unanswered, LastItem
<1>3. CASE q.eidx <= q.nidx
  <2>1. d \in 0..(LastItem - 1) /\ Behind(q, q.eidx) = d
    BY <1>1, <1>3, BehindIs
  <2> HIDE DEF d
  <2> QED
    BY <1>1, <1>2, <2>1
<1>4. CASE ~(q.eidx <= q.nidx)
  <2>1. Behind(q, q.eidx) = d + LastItem /\ d \in Int /\ d + LastItem \in 0..(LastItem - 1)
    BY <1>1, <1>4, BehindIs
  <2> HIDE DEF d
  <2>2. d % LastItem = d + LastItem
    BY <1>1, <2>1
  <2> QED
    BY <1>2, <2>1, <2>2, Zenon
<1> QED
  BY <1>3, <1>4, Zenon

\* m TRBs written at the end of ring q, the last for request id, make it ring w.
Grown(q, w, id, m) ==
    /\ RingOK(w) /\ w.eidx = q.eidx /\ w.evt = q.evt
    /\ w.nidx > 0 /\ w.trb[w.nidx - 1].id = id
    /\ \A p \in Places : Behind(q, p) + m < LastItem =>
         /\ Behind(w, p) = Behind(q, p) + m
         /\ BitAt(p, w.nidx, w.cs) = BitAt(p, q.nidx, q.cs)
         /\ p > w.nidx => \/ w.trb[LastItem].id = Link
                          \/ p > q.nidx /\ w.trb[LastItem] = q.trb[LastItem]

\* A ring with its fields spelled out.
Queue(t, n, c, ei, ev) == [trb |-> t, nidx |-> n, cs |-> c, eidx |-> ei, evt |-> ev]
Trb(id, ioc, c) == [id |-> id, ioc |-> ioc, c |-> c]

LEMMA FillIs ==
    ASSUME NEW q \in Queues, NEW id, NEW ioc
    PROVE  xhci_trb_fill(q, id, ioc) =
               Queue([q.trb EXCEPT ![q.nidx] = Trb(id, ioc, q.cs)], q.nidx, q.cs, q.eidx, q.evt)
BY DEF xhci_trb_fill, Queues, Queue, Trb

LEMMA AnyFillIs ==
    ASSUME NEW t, NEW n, NEW c, NEW ei, NEW ev, NEW id, NEW ioc
    PROVE  xhci_trb_fill(Queue(t, n, c, ei, ev), id, ioc) =
               Queue([t EXCEPT ![n] = Trb(id, ioc, c)], n, c, ei, ev)
BY DEF xhci_trb_fill, Queue, Trb

LEMMA QueueInside ==
    ASSUME NEW q \in Queues, NEW id, NEW ioc, ~(q.nidx >= XHCI_RING_ITEMS - 1)
    PROVE  xhci_trb_queue(q, id, ioc) =
               Queue([q.trb EXCEPT ![q.nidx] = Trb(id, ioc, q.cs)], q.nidx + 1, q.cs, q.eidx, q.evt)
<1> DEFINE f == xhci_trb_fill(q, id, ioc)
           t == [q.trb EXCEPT ![q.nidx] = Trb(id, ioc, q.cs)]
<1>1. f = Queue(t, q.nidx, q.cs, q.eidx, q.evt)
  BY FillIs, Zenon
<1>2. xhci_trb_queue(q, id, ioc) = [f EXCEPT !.nidx = @ + 1]
  BY Zenon DEF xhci_trb_queue
<1> HIDE DEF f, t
<1>3. [f EXCEPT !.nidx = @ + 1] = Queue(t, q.nidx + 1, q.cs, q.eidx, q.evt)
  BY <1>1 DEF Queue
<1> QED
  BY <1>2, <1>3, Zenon DEF t

LEMMA QueueWraps ==
    ASSUME NEW q \in Queues, NEW id, NEW ioc, q.nidx >= XHCI_RING_ITEMS - 1
    PROVE  xhci_trb_queue(q, id, ioc) =
               Queue([[q.trb EXCEPT ![q.nidx] = Trb(Link, FALSE, q.cs)]
                          EXCEPT ![0] = Trb(id, ioc, Flip(q.cs))],
                     1, Flip(q.cs), q.eidx, q.evt)
<1> DEFINE t == [q.trb EXCEPT ![q.nidx] = Trb(Link, FALSE, q.cs)]
           b == Flip(q.cs)
           f == xhci_trb_fill(q, Link, FALSE)
           w == [f EXCEPT !.nidx = 0, !.cs = b]
           v == xhci_trb_fill(w, id, ioc)
           x == [t EXCEPT ![0] = Trb(id, ioc, b)]
<1>1. f = Queue(t, q.nidx, q.cs, q.eidx, q.evt)
  BY FillIs, Zenon
<1>2. xhci_trb_queue(q, id, ioc) = [v EXCEPT !.nidx = @ + 1]
  BY Zenon DEF xhci_trb_queue
<1> HIDE DEF f, t, b
<1>3. w = Queue(t, 0, b, q.eidx, q.evt)
  <2> DEFINE g == [f EXCEPT !.nidx = 0]
  <2>1. w = [g EXCEPT !.cs = b]
    BY <1>1, Zenon DEF Queue
  <2>2. g = Queue(t, 0, q.cs, q.eidx, q.evt)
    BY <1>1 DEF Queue
  <2> HIDE DEF g
  <2>3. [g EXCEPT !.cs = b] = Queue(t, 0, b, q.eidx, q.evt)
    BY <2>2 DEF Queue
  <2> QED
    BY <2>1, <2>3, Zenon
<1> HIDE DEF w
<1>4. v = Queue(x, 0, b, q.eidx, q.evt)
  BY <1>3, AnyFillIs
<1> HIDE DEF v, x
<1>5. [v EXCEPT !.nidx = @ + 1] = Queue(x, 1, b, q.eidx, q.evt)
  BY <1>4 DEF Queue
<1> QED
  BY <1>2, <1>5, Zenon DEF x, t, b

LEMMA OneMore ==
    ASSUME RingsFit, NEW q, NEW w, NEW n \in Places, n < LastItem, q.nidx = n, w.nidx = n + 1,
           NEW p \in Places, Behind(q, p) + 1 < LastItem
    PROVE  Behind(w, p) = Behind(q, p) + 1 /\ (p <= w.nidx <=> p <= n)
BY ItemsAre DEF Behind

LEMMA QueueGrows ==
    ASSUME RingsFit, NEW q, RingOK(q), NEW id \in Nat, NEW ioc \in BOOLEAN
    PROVE  Grown(q, xhci_trb_queue(q, id, ioc), id, 1)
<1> DEFINE w == xhci_trb_queue(q, id, ioc)
           n == q.nidx
           T(c) == Trb(id, ioc, c)
           K == Trb(Link, FALSE, q.cs)
<1>1. /\ LastItem \in Nat \ {0} /\ LastItem + 1 = XHCI_RING_ITEMS
      /\ Items = 0..LastItem /\ Places = 0..LastItem
  BY ItemsAre, Zenon
<1>2. /\ q.trb \in [Items -> Trbs] /\ n \in Places /\ q.cs \in Bits /\ q.eidx \in Places
      /\ q.evt \in Int /\ q \in Queues
      /\ \A h \in Items : q.trb[h].c = IF h < n THEN q.cs ELSE Flip(q.cs)
      /\ \A h \in 0..(LastItem - 1) : q.trb[h].id # Link
  BY Zenon DEF RingOK, Queues
<1>3. Flip(q.cs) \in Bits /\ Flip(q.cs) # q.cs /\ Flip(Flip(q.cs)) = q.cs
  BY <1>2, FlipTwice, Zenon
<1>4. /\ \A c \in Bits : T(c) \in Trbs /\ T(c).c = c /\ T(c).id = id /\ id # Link
      /\ K \in Trbs /\ K.c = q.cs /\ K.id = Link
  BY <1>2 DEF Trbs, Trb, Link
<1>5. CASE n < LastItem
  <2>1. w = Queue([q.trb EXCEPT ![n] = T(q.cs)], n + 1, q.cs, q.eidx, q.evt)
    <3>1. ~(n >= XHCI_RING_ITEMS - 1) /\ q \in Queues
      BY <1>1, <1>2, <1>5
    <3> QED
      BY <3>1, QueueInside, Zenon
  <2>2. /\ w.trb = [q.trb EXCEPT ![n] = T(q.cs)] /\ w.nidx = n + 1 /\ w.cs = q.cs
        /\ w.eidx = q.eidx /\ w.evt = q.evt
        /\ w = [trb |-> w.trb, nidx |-> w.nidx, cs |-> w.cs, eidx |-> w.eidx, evt |-> w.evt]
    BY <2>1 DEF Queue
  <2> HIDE DEF w, T, n
  <2>3. n + 1 \in Places /\ n \in Items /\ n \in 0..(LastItem - 1) /\ LastItem \in Items
        /\ LastItem # n
    BY <1>1, <1>2, <1>5
  <2>4. /\ w.trb \in [Items -> Trbs] /\ w.trb[n] = T(q.cs)
        /\ \A h \in Items : h # n => w.trb[h] = q.trb[h]
    BY <1>2, <1>4, <2>2, <2>3
  <2>5. w \in Queues
    BY <1>2, <2>2, <2>3, <2>4, Zenon DEF Queues
  <2>6. ASSUME NEW h \in Items PROVE w.trb[h].c = IF h < w.nidx THEN w.cs ELSE Flip(w.cs)
    <3>1. CASE h = n
      <4>1. h < w.nidx
        BY <1>1, <1>2, <2>2, <3>1
      <4> QED
        BY <1>2, <1>4, <2>2, <2>4, <3>1, <4>1
    <3>2. CASE h # n
      <4>1. h < w.nidx <=> h < n
        BY <1>1, <1>2, <2>2, <3>2
      <4> QED
        BY <1>2, <2>2, <2>4, <3>2, <4>1, Zenon
    <3> QED
      BY <3>1, <3>2, Zenon
  <2>7. ASSUME NEW h \in 0..(LastItem - 1) PROVE w.trb[h].id # Link
    <3>1. h \in Items
      BY <1>1
    <3>2. CASE h = n
      BY <1>2, <1>4, <2>4, <3>2
    <3>3. CASE h # n
      BY <1>2, <2>4, <3>1, <3>3, Zenon
    <3> QED
      BY <3>2, <3>3, Zenon
  <2>8. RingOK(w)
    BY <2>5, <2>6, <2>7, Zenon DEF RingOK
  <2>9. w.nidx > 0 /\ w.nidx - 1 = n
    BY <1>1, <1>2, <2>2
  <2>10. w.trb[w.nidx - 1].id = id
    BY <1>2, <1>4, <2>4, <2>9, Zenon
  <2>11. ASSUME NEW p \in Places, Behind(q, p) + 1 < LastItem
         PROVE  Behind(w, p) = Behind(q, p) + 1 /\ (p <= w.nidx <=> p <= n)
    <3>1. n \in Places /\ n < LastItem /\ q.nidx = n /\ w.nidx = n + 1
      BY <1>2, <1>5, <2>2, Zenon DEF n
    <3> QED
      BY <2>11, <3>1, OneMore, Zenon
  <2>12. ASSUME NEW p \in Places, Behind(q, p) + 1 < LastItem
         PROVE  /\ BitAt(p, w.nidx, w.cs) = BitAt(p, n, q.cs)
                /\ p > w.nidx => p > n /\ w.trb[LastItem] = q.trb[LastItem]
    <3>1. p > w.nidx => p > n
      BY <1>1, <1>2, <2>2
    <3> QED
      BY <2>2, <2>3, <2>4, <2>11, <2>12, <3>1, Zenon DEF BitAt
  <2> QED
    BY <2>2, <2>8, <2>9, <2>10, <2>11, <2>12, Zenon DEF Grown, w, n
<1>6. CASE ~(n < LastItem)
  <2>1. n = LastItem /\ 0 \in Items /\ LastItem \in Items /\ 0 # LastItem /\ 1 \in Places
        /\ 0 \in 0..(LastItem - 1) /\ LastItem \notin 0..(LastItem - 1)
    BY <1>1, <1>2, <1>6
  <2>2. w = Queue([[q.trb EXCEPT ![n] = K] EXCEPT ![0] = T(Flip(q.cs))],
                  1, Flip(q.cs), q.eidx, q.evt)
    <3>1. n >= XHCI_RING_ITEMS - 1 /\ q \in Queues
      BY <1>1, <1>2, <2>1
    <3> QED
      BY <3>1, QueueWraps, Zenon
  <2>3. /\ w.trb = [[q.trb EXCEPT ![n] = K] EXCEPT ![0] = T(Flip(q.cs))]
        /\ w.nidx = 1 /\ w.cs = Flip(q.cs) /\ w.eidx = q.eidx /\ w.evt = q.evt
        /\ w = [trb |-> w.trb, nidx |-> w.nidx, cs |-> w.cs, eidx |-> w.eidx, evt |-> w.evt]
    BY <2>2 DEF Queue
  <2> HIDE DEF w, T, K, n
  <2>4. /\ w.trb \in [Items -> Trbs] /\ w.trb[0] = T(Flip(q.cs)) /\ w.trb[LastItem] = K
        /\ \A h \in Items : h # LastItem /\ h # 0 => w.trb[h] = q.trb[h]
    BY <1>2, <1>3, <1>4, <2>1, <2>3
  <2>5. w \in Queues
    BY <1>2, <1>3, <2>1, <2>3, <2>4, Zenon DEF Queues
  <2>6. ASSUME NEW h \in Items PROVE w.trb[h].c = IF h < w.nidx THEN w.cs ELSE Flip(w.cs)
    <3>1. CASE h = 0
      <4>1. h < w.nidx
        BY <2>3, <3>1
      <4> QED
        BY <1>3, <1>4, <2>3, <2>4, <3>1, <4>1, Zenon
    <3>2. CASE h = LastItem
      <4>1. ~(h < w.nidx)
        BY <1>1, <2>3, <3>2
      <4> QED
        BY <1>3, <1>4, <2>3, <2>4, <3>2, <4>1, Zenon
    <3>3. CASE h # 0 /\ h # LastItem
      <4>1. ~(h < w.nidx) /\ h < n
        BY <1>1, <2>1, <2>3, <3>3
      <4> QED
        BY <1>2, <1>3, <2>3, <2>4, <3>3, <4>1, Zenon
    <3> QED
      BY <3>1, <3>2, <3>3, Zenon
  <2>7. ASSUME NEW h \in 0..(LastItem - 1) PROVE w.trb[h].id # Link
    <3>1. h \in Items /\ h # LastItem
      BY <1>1
    <3>2. CASE h = 0
      BY <1>3, <1>4, <2>4, <3>2, Zenon
    <3>3. CASE h # 0
      BY <1>2, <2>4, <3>1, <3>3, Zenon
    <3> QED
      BY <3>2, <3>3, Zenon
  <2>8. RingOK(w)
    BY <2>5, <2>6, <2>7, Zenon DEF RingOK
  <2>9. w.nidx > 0 /\ w.nidx - 1 = 0
    BY <2>3
  <2>10. w.trb[w.nidx - 1].id = id /\ w.trb[LastItem].id = Link
    BY <1>3, <1>4, <2>4, <2>9, Zenon
  <2>11. ASSUME NEW p \in Places, Behind(q, p) + 1 < LastItem
         PROVE  Behind(w, p) = Behind(q, p) + 1 /\ p <= n /\ ~(p <= w.nidx)
    <3>1. Behind(q, p) = IF p <= n THEN n - p ELSE n + LastItem - p
      BY <1>2, BehindIs, Zenon DEF n
    <3>2. Behind(w, p) = IF p <= 1 THEN 1 - p ELSE 1 + LastItem - p
      BY <2>1, <2>3, BehindIs, Zenon
    <3> QED
      BY <1>1, <2>1, <2>3, <2>11, <3>1, <3>2
  <2>12. ASSUME NEW p \in Places, Behind(q, p) + 1 < LastItem
         PROVE  BitAt(p, w.nidx, w.cs) = BitAt(p, n, q.cs)
    BY <1>3, <2>3, <2>11, <2>12, Zenon DEF BitAt
  <2> QED
    BY <2>3, <2>8, <2>9, <2>10, <2>11, <2>12, Zenon DEF Grown, w, n
<1> QED
  BY <1>5, <1>6, Zenon

LEMMA GrownTwice ==
    ASSUME RingsFit, NEW q, RingOK(q), NEW u, NEW w, NEW id \in Nat,
           Grown(q, u, id, 1), Grown(u, w, id, 1)
    PROVE  Grown(q, w, id, 2)
<1>1. q.nidx \in Places /\ u.nidx \in Places /\ LastItem \in Nat
  BY ItemsAre, Zenon DEF Grown, RingOK, Queues
<1>2. ASSUME NEW p \in Places, Behind(q, p) + 2 < LastItem
      PROVE  /\ Behind(w, p) = Behind(q, p) + 2
             /\ BitAt(p, w.nidx, w.cs) = BitAt(p, q.nidx, q.cs)
             /\ p > w.nidx => \/ w.trb[LastItem].id = Link
                              \/ p > q.nidx /\ w.trb[LastItem] = q.trb[LastItem]
  <2>1. Behind(q, p) \in Nat /\ Behind(q, p) + 1 < LastItem
    BY <1>1, <1>2, BehindIs
  <2>2. /\ Behind(u, p) = Behind(q, p) + 1
        /\ BitAt(p, u.nidx, u.cs) = BitAt(p, q.nidx, q.cs)
        /\ p > u.nidx => \/ u.trb[LastItem].id = Link
                         \/ p > q.nidx /\ u.trb[LastItem] = q.trb[LastItem]
    BY <2>1, Zenon DEF Grown
  <2>3. Behind(u, p) + 1 < LastItem
    BY <1>1, <1>2, <2>1, <2>2
  <2>4. /\ Behind(w, p) = Behind(u, p) + 1
        /\ BitAt(p, w.nidx, w.cs) = BitAt(p, u.nidx, u.cs)
        /\ p > w.nidx => \/ w.trb[LastItem].id = Link
                         \/ p > u.nidx /\ w.trb[LastItem] = u.trb[LastItem]
    BY <2>3, Zenon DEF Grown
  <2>5. Behind(w, p) = Behind(q, p) + 2
    BY <2>1, <2>2, <2>4
  <2> QED
    BY <2>2, <2>4, <2>5, Zenon
<1> QED
  BY <1>2, Zenon DEF Grown

\* A new request leaves what is known of the events, which are further behind.
LEMMA GrowthKeeps ==
    ASSUME RingsFit, NEW q, RingOK(q), NEW p, NEW a, Answers(q, p, a), NEW w, NEW b,
           NEW m \in Nat \ {0}, Grown(q, w, b, m), Behind(q, q.eidx) + m <= MaxUnanswered
    PROVE  /\ Answers(w, p, b)
           /\ \A ev : EventOK(ev, q, p, a) =>
                EventOK(ev, w, p, b) /\ Behind(w, ev.idx + 1) = Behind(q, ev.idx + 1) + m
<1>1. /\ q.nidx \in Places /\ w.nidx \in Places /\ q.eidx \in Places /\ w.eidx = q.eidx
      /\ LastItem \in Nat /\ MaxUnanswered \in Nat /\ MaxUnanswered < LastItem
  BY ItemsAre, Zenon DEF Grown, RingOK, Queues
<1>2. ASSUME NEW k \in Places, Behind(q, k) <= Behind(q, q.eidx)
      PROVE  /\ Behind(w, k) = Behind(q, k) + m /\ Behind(q, k) \in Nat /\ k # w.nidx
             /\ BitAt(k, w.nidx, w.cs) = BitAt(k, q.nidx, q.cs)
             /\ k > w.nidx => \/ w.trb[LastItem].id = Link
                              \/ k > q.nidx /\ w.trb[LastItem] = q.trb[LastItem]
  <2>1. Behind(q, k) \in Nat /\ Behind(q, q.eidx) \in Nat
    BY <1>1, BehindIs, Zenon
  <2>2. Behind(q, k) + m < LastItem
    BY <1>1, <1>2, <2>1
  <2>3. /\ Behind(w, k) = Behind(q, k) + m
        /\ BitAt(k, w.nidx, w.cs) = BitAt(k, q.nidx, q.cs)
        /\ k > w.nidx => \/ w.trb[LastItem].id = Link
                         \/ k > q.nidx /\ w.trb[LastItem] = q.trb[LastItem]
    BY <2>2, Zenon DEF Grown
  <2>4. w.nidx \in Nat /\ Behind(w, w.nidx) = 0
    BY <1>1 DEF Behind, Places
  <2>5. k # w.nidx
    BY <2>1, <2>3, <2>4
  <2> QED
    BY <2>1, <2>3, <2>5, Zenon
<1>3. Behind(q, q.eidx) \in Nat /\ Behind(q, q.eidx) <= Behind(q, q.eidx)
  BY <1>1, BehindIs
<1>4. Behind(w, w.eidx) = Behind(q, q.eidx) + m /\ w.eidx # w.nidx
  BY <1>1, <1>2, <1>3, Zenon
<1>5. ASSUME ~p.halted PROVE PlaceOK(w, p) /\ Behind(w, p.idx) <= Behind(w, w.eidx)
  <2>1. PlaceOK(q, p) /\ Behind(q, p.idx) <= Behind(q, q.eidx) /\ p.idx \in Places
    BY <1>5, Zenon DEF Answers, PlaceOK
  <2>2. /\ Behind(w, p.idx) = Behind(q, p.idx) + m /\ Behind(q, p.idx) \in Nat
        /\ BitAt(p.idx, w.nidx, w.cs) = BitAt(p.idx, q.nidx, q.cs)
        /\ p.idx > w.nidx => \/ w.trb[LastItem].id = Link
                             \/ p.idx > q.nidx /\ w.trb[LastItem] = q.trb[LastItem]
    BY <1>2, <2>1, Zenon
  <2>3. PlaceOK(w, p)
    BY <2>1, <2>2, Zenon DEF PlaceOK
  <2> QED
    BY <1>3, <1>4, <2>1, <2>2, <2>3
<1>6. Answers(w, p, b)
  BY <1>3, <1>4, <1>5, Zenon DEF Answers, Grown
<1>7. ASSUME NEW ev, EventOK(ev, q, p, a)
      PROVE  EventOK(ev, w, p, b) /\ Behind(w, ev.idx + 1) = Behind(q, ev.idx + 1) + m
  <2>1. ev.idx + 1 \in Places /\ Behind(q, ev.idx + 1) <= Behind(q, q.eidx)
    BY <1>7, Zenon DEF EventOK
  <2>2. /\ Behind(w, ev.idx + 1) = Behind(q, ev.idx + 1) + m
        /\ Behind(q, ev.idx + 1) \in Nat /\ ev.idx + 1 # w.nidx
    BY <1>2, <2>1, Zenon
  <2>3. ~p.halted => Behind(w, p.idx) <= Behind(w, ev.idx + 1)
    <3> SUFFICES ASSUME ~p.halted PROVE Behind(w, p.idx) <= Behind(w, ev.idx + 1)
      BY Zenon
    <3>1. p.idx \in Places /\ Behind(q, p.idx) <= Behind(q, q.eidx)
          /\ Behind(q, p.idx) <= Behind(q, ev.idx + 1)
      BY <1>7, Zenon DEF Answers, PlaceOK, EventOK
    <3>2. Behind(w, p.idx) = Behind(q, p.idx) + m /\ Behind(q, p.idx) \in Nat
      BY <1>2, <3>1, Zenon
    <3> QED
      BY <2>2, <3>1, <3>2
  <2>4. Behind(w, ev.idx + 1) <= Behind(w, w.eidx)
    BY <1>3, <1>4, <2>1, <2>2
  <2> QED
    BY <2>1, <2>2, <2>3, <2>4, Zenon DEF EventOK
<1> QED
  BY <1>6, <1>7, Zenon

-----------------------------------------------------------------------------
(* The event ring                                                          *)

\* The driver sees the cycle bit it expects exactly when there is an event.
LEMMA SeesFresh ==
    ASSUME RingsFit, NEW v, NEW x, NEW y, EventRingOK(v, x, y)
    PROVE  /\ v[x.nidx].c = x.cs <=> x.nidx # y.idx
           /\ x.nidx # y.idx => Fresh(x.nidx, x, y) /\ Rank(x.nidx, x) = 0
<1>1. /\ x.nidx \in Items /\ y.idx \in Items /\ y.cs \in Bits /\ Items = 0..LastItem
      /\ LastItem \in Nat /\ x.cs = BitAt(x.nidx, y.idx, y.cs)
      /\ v[x.nidx].c = IF x.nidx < y.idx THEN y.cs ELSE Flip(y.cs)
  BY ItemsAre, Zenon DEF EventRingOK
<1>2. Flip(y.cs) # y.cs
  BY <1>1, FlipTwice, Zenon
<1>3. CASE x.nidx = y.idx
  BY <1>1, <1>2, <1>3 DEF BitAt
<1>4. CASE x.nidx # y.idx
  <2>1. x.nidx < y.idx <=> x.nidx <= y.idx
    BY <1>1, <1>4
  <2>2. v[x.nidx].c = x.cs
    BY <1>1, <2>1 DEF BitAt
  <2>3. Fresh(x.nidx, x, y) /\ Rank(x.nidx, x) = 0
    BY <1>1, <1>4 DEF Fresh, Rank
  <2> QED
    BY <1>4, <2>2, <2>3, Zenon
<1> QED
  BY <1>3, <1>4, Zenon

NextItem(k) == IF k = LastItem THEN 0 ELSE k + 1

LEMMA NextIs ==
    ASSUME RingsFit, NEW k \in Items
    PROVE  (k + 1) % XHCI_RING_ITEMS = NextItem(k) /\ NextItem(k) \in Items
<1>1. /\ XHCI_RING_ITEMS \in Nat \ {0} /\ XHCI_RING_ITEMS = LastItem + 1
      /\ k \in 0..LastItem /\ LastItem \in Nat /\ Items = 0..LastItem
  BY ItemsAre
<1>2. CASE k = LastItem
  BY <1>1, <1>2 DEF NextItem
<1>3. CASE k # LastItem
  BY <1>1, <1>3 DEF NextItem
<1> QED
  BY <1>2, <1>3, Zenon

\* The driver goes on past the event at x, to z.
Passes(v, x, y, z) ==
    /\ EventRingOK(v, x, y) /\ x.nidx # y.idx
    /\ z = [nidx |-> NextItem(x.nidx), cs |-> IF x.nidx = LastItem THEN Flip(x.cs) ELSE x.cs]

\* What is fresh then was fresh before, one place further on.
Passed(v, x, y, z) ==
    /\ EventRingOK(v, z, y)
    /\ \A h \in Items : Fresh(h, z, y) => Fresh(h, x, y) /\ Rank(h, z) = Rank(h, x) - 1
    /\ \A h \in Items : Rank(h, x) \in Nat

\* The driver moves past an event.
LEMMA MovesPast ==
    ASSUME RingsFit, NEW v, NEW x, NEW y, NEW z, Passes(v, x, y, z)
    PROVE  Passed(v, x, y, z)
<1>0. /\ EventRingOK(v, x, y) /\ x.nidx # y.idx
      /\ z = [nidx |-> NextItem(x.nidx), cs |-> IF x.nidx = LastItem THEN Flip(x.cs) ELSE x.cs]
  BY Zenon DEF Passes
<1>1. /\ x.nidx \in Items /\ y.idx \in Items /\ y.cs \in Bits /\ Items = 0..LastItem
      /\ LastItem \in Nat /\ x.cs = BitAt(x.nidx, y.idx, y.cs) /\ x.cs \in Bits
      /\ XHCI_RING_ITEMS = LastItem + 1
  BY <1>0, ItemsAre, Zenon DEF EventRingOK
<1>2. Flip(y.cs) # y.cs /\ Flip(Flip(y.cs)) = y.cs /\ Flip(x.cs) \in Bits
  BY <1>1, FlipTwice, Zenon
<1>3. z.nidx = NextItem(x.nidx) /\ z.cs = (IF x.nidx = LastItem THEN Flip(x.cs) ELSE x.cs)
      /\ z \in [nidx : Items, cs : Bits]
  <2>1. NextItem(x.nidx) \in Items
    BY <1>1, NextIs, Zenon
  <2> QED
    BY <1>0, <1>1, <1>2, <2>1, Zenon
<1>4. z.cs = BitAt(z.nidx, y.idx, y.cs)
  <2>1. CASE x.nidx = LastItem
    <3>1. ~(x.nidx <= y.idx) /\ z.nidx = 0 /\ 0 <= y.idx
      BY <1>0, <1>1, <1>3, <2>1 DEF NextItem
    <3> QED
      BY <1>1, <1>2, <1>3, <2>1, <3>1, Zenon DEF BitAt
  <2>2. CASE x.nidx # LastItem
    <3>1. z.nidx = x.nidx + 1 /\ (z.nidx <= y.idx <=> x.nidx <= y.idx)
      BY <1>0, <1>1, <1>3, <2>2 DEF NextItem
    <3> QED
      BY <1>1, <1>3, <2>2, <3>1, Zenon DEF BitAt
  <2> QED
    BY <2>1, <2>2, Zenon
<1>5. EventRingOK(v, z, y)
  BY <1>0, <1>3, <1>4, Zenon DEF EventRingOK
<1>6. ASSUME NEW h \in Items, Fresh(h, z, y)
      PROVE  Fresh(h, x, y) /\ Rank(h, z) = Rank(h, x) - 1
  <2>1. CASE x.nidx = LastItem
    <3>1. z.nidx = 0
      BY <1>3, <2>1, Zenon DEF NextItem
    <3> QED
      BY <1>0, <1>1, <1>6, <2>1, <3>1 DEF Fresh, Rank
  <2>2. CASE x.nidx # LastItem
    <3>1. z.nidx = x.nidx + 1
      BY <1>3, <2>2, Zenon DEF NextItem
    <3> QED
      BY <1>0, <1>1, <1>6, <2>2, <3>1 DEF Fresh, Rank
  <2> QED
    BY <2>1, <2>2, Zenon
<1>7. \A h \in Items : Rank(h, x) \in Nat
  BY <1>1 DEF Rank
<1> QED
  BY <1>5, <1>6, <1>7, Zenon DEF Passed

\* The event ev is posted: events v and place y become w and z.
Posts(v, x, y, ev, w, z) ==
    /\ EventRingOK(v, x, y) /\ NextItem(y.idx) # x.nidx /\ ev \in Events /\ ev.c = y.cs
    /\ w = [v EXCEPT ![y.idx] = ev]
    /\ z = [idx |-> NextItem(y.idx), cs |-> IF y.idx = LastItem THEN Flip(y.cs) ELSE y.cs]

\* What is fresh then is what was, and the event, the last of them.
Posted(v, x, y, w, z) ==
    /\ EventRingOK(w, x, z)
    /\ \A h \in Items : Fresh(h, x, z) => h = y.idx \/ Fresh(h, x, y)
    /\ \A h \in Items : Fresh(h, x, y) => Rank(h, x) < Rank(y.idx, x)

\* The controller posts an event in an entry that is not fresh.
LEMMA Posting ==
    ASSUME RingsFit, NEW v, NEW x, NEW y, NEW ev, NEW w, NEW z, Posts(v, x, y, ev, w, z)
    PROVE  Posted(v, x, y, w, z)
<1>0. /\ EventRingOK(v, x, y) /\ NextItem(y.idx) # x.nidx /\ ev \in Events /\ ev.c = y.cs
      /\ w = [v EXCEPT ![y.idx] = ev]
      /\ z = [idx |-> NextItem(y.idx), cs |-> IF y.idx = LastItem THEN Flip(y.cs) ELSE y.cs]
  BY Zenon DEF Posts
<1>1. /\ x.nidx \in Items /\ y.idx \in Items /\ y.cs \in Bits /\ Items = 0..LastItem
      /\ LastItem \in Nat /\ x.cs = BitAt(x.nidx, y.idx, y.cs) /\ x \in [nidx : Items, cs : Bits]
      /\ XHCI_RING_ITEMS = LastItem + 1 /\ v \in [Items -> Events]
      /\ \A h \in Items : v[h].c = IF h < y.idx THEN y.cs ELSE Flip(y.cs)
  BY <1>0, ItemsAre, Zenon DEF EventRingOK
<1>2. Flip(y.cs) # y.cs /\ Flip(Flip(y.cs)) = y.cs /\ Flip(y.cs) \in Bits
  BY <1>1, FlipTwice, Zenon
<1>3. z.idx = NextItem(y.idx) /\ z.cs = (IF y.idx = LastItem THEN Flip(y.cs) ELSE y.cs)
      /\ z \in [idx : Items, cs : Bits]
  <2>1. NextItem(y.idx) \in Items
    BY <1>1, NextIs, Zenon
  <2> QED
    BY <1>0, <1>1, <1>2, <2>1, Zenon
<1>4. w \in [Items -> Events] /\ w[y.idx].c = y.cs /\ \A h \in Items : h # y.idx => w[h] = v[h]
  BY <1>0, <1>1, Zenon
<1>5. CASE y.idx = LastItem
  <2>1. z.idx = 0 /\ z.cs = Flip(y.cs) /\ x.nidx # 0
    BY <1>0, <1>3, <1>5, Zenon DEF NextItem
  <2>2. ASSUME NEW h \in Items PROVE w[h].c = IF h < z.idx THEN z.cs ELSE Flip(z.cs)
    <3>1. ~(h < z.idx) /\ (h # y.idx => h < y.idx)
      BY <1>1, <1>5, <2>1
    <3> QED
      BY <1>1, <1>2, <1>4, <2>1, <3>1, Zenon
  <2>3. x.nidx <= y.idx /\ ~(x.nidx <= z.idx)
    BY <1>1, <1>5, <2>1
  <2>4. x.cs = BitAt(x.nidx, z.idx, z.cs)
    BY <1>1, <1>2, <2>1, <2>3, Zenon DEF BitAt
  <2>5. EventRingOK(w, x, z)
    BY <1>1, <1>3, <1>4, <2>2, <2>4, Zenon DEF EventRingOK
  <2>6. \A h \in Items : Fresh(h, x, z) => h = y.idx \/ Fresh(h, x, y)
    BY <1>1, <1>5, <2>1, <2>3 DEF Fresh
  <2>7. \A h \in Items : Fresh(h, x, y) => Rank(h, x) < Rank(y.idx, x)
    BY <1>1, <1>5, <2>3 DEF Fresh, Rank
  <2> QED
    BY <2>5, <2>6, <2>7, Zenon DEF Posted
<1>6. CASE y.idx # LastItem
  <2>1. z.idx = y.idx + 1 /\ z.cs = y.cs /\ x.nidx # y.idx + 1
    BY <1>0, <1>3, <1>6, Zenon DEF NextItem
  <2>2. ASSUME NEW h \in Items PROVE w[h].c = IF h < z.idx THEN z.cs ELSE Flip(z.cs)
    <3>1. h # y.idx => (h < z.idx <=> h < y.idx)
      BY <1>1, <2>1
    <3>2. y.idx < z.idx
      BY <1>1, <2>1
    <3> QED
      BY <1>1, <1>4, <2>1, <3>1, <3>2, Zenon
  <2>3. x.nidx <= z.idx <=> x.nidx <= y.idx
    BY <1>1, <2>1
  <2>4. x.cs = BitAt(x.nidx, z.idx, z.cs)
    BY <1>1, <2>1, <2>3, Zenon DEF BitAt
  <2>5. EventRingOK(w, x, z)
    BY <1>1, <1>3, <1>4, <2>2, <2>4, Zenon DEF EventRingOK
  <2>6. \A h \in Items : Fresh(h, x, z) => h = y.idx \/ Fresh(h, x, y)
    BY <1>1, <2>1, <2>3 DEF Fresh
  <2>7. \A h \in Items : Fresh(h, x, y) => Rank(h, x) < Rank(y.idx, x)
    BY <1>1, <2>1 DEF Fresh, Rank
  <2> QED
    BY <2>5, <2>6, <2>7, Zenon DEF Posted
<1> QED
  BY <1>5, <1>6, Zenon

-----------------------------------------------------------------------------
(* The controller's place in a ring                                        *)

\* A TRB whose cycle bit the controller expects was put there in its lap.
LEMMA ReadyAt ==
    ASSUME RingsFit, NEW q, RingOK(q), NEW p, PlaceOK(q, p), q.trb[p.idx].c = p.cs
    PROVE  /\ q.trb[p.idx].id = Link => p.idx = LastItem /\ p.idx > q.nidx
           /\ q.trb[p.idx].id # Link =>
                /\ p.idx + 1 \in Places /\ Behind(q, p.idx + 1) = Behind(q, p.idx) - 1
                /\ BitAt(p.idx + 1, q.nidx, q.cs) = BitAt(p.idx, q.nidx, q.cs)
                /\ p.idx + 1 > q.nidx => p.idx > q.nidx
<1> DEFINE k == p.idx
           n == q.nidx
<1>1. /\ k \in Places /\ n \in Places /\ q.cs \in Bits /\ Items = 0..LastItem /\ Places = 0..LastItem
      /\ LastItem \in Nat \ {0} /\ p.cs = BitAt(k, n, q.cs)
      /\ k > n => q.trb[LastItem].id = Link
  BY ItemsAre, Zenon DEF RingOK, PlaceOK, Queues
<1>2. q.trb[k].c = IF k < n THEN q.cs ELSE Flip(q.cs)
  BY <1>1, Zenon DEF RingOK
<1>3. Flip(q.cs) # q.cs
  BY <1>1, FlipTwice, Zenon
<1>4. \A h \in 0..(LastItem - 1) : q.trb[h].id # Link
  BY Zenon DEF RingOK
<1>5. q.trb[k].c = p.cs
  BY Zenon
<1> HIDE DEF k, n
<1>6. k # n
  <2> SUFFICES ASSUME k = n PROVE FALSE
    BY Zenon
  <2>1. ~(k < n) /\ k <= n
    BY <1>1
  <2> QED
    BY <1>1, <1>2, <1>3, <1>5, <2>1, Zenon DEF BitAt
<1>7. ASSUME q.trb[k].id = Link PROVE k = LastItem /\ k > n
  BY <1>1, <1>4, <1>6, <1>7
<1>8. ASSUME q.trb[k].id # Link
      PROVE  /\ k + 1 \in Places /\ Behind(q, k + 1) = Behind(q, k) - 1
             /\ (k + 1 <= n <=> k <= n) /\ (k + 1 > n => k > n)
  <2>1. k # LastItem
    BY <1>1, <1>6, <1>8
  <2>2. k + 1 \in Places /\ (k + 1 <= n <=> k <= n) /\ (k + 1 > n => k > n)
    BY <1>1, <1>6, <2>1
  <2>3. /\ Behind(q, k) = (IF k <= n THEN n - k ELSE n + LastItem - k)
        /\ Behind(q, k + 1) = (IF k + 1 <= n THEN n - (k + 1) ELSE n + LastItem - (k + 1))
    BY Zenon DEF Behind, n
  <2> QED
    BY <1>1, <2>2, <2>3
<1> QED
  BY <1>7, <1>8, Zenon DEF BitAt, k, n

\* The controller takes a TRB, with or without an event, or stops at it.
LEMMA TrbTaken ==
    ASSUME RingsFit, ThreadInv, Ready("cmd"), ring["cmd"].trb[ctl["cmd"].idx].id # Link,
           ctl' \in [Rings -> [idx : Places, cs : Bits, halted : BOOLEAN]],
           ctl'["int"] = ctl["int"],
           \/ ctl'["cmd"].halted
           \/ ctl'["cmd"].idx = ctl["cmd"].idx + 1 /\ ctl'["cmd"].cs = ctl["cmd"].cs,
           \/ UNCHANGED <<evts, post, posted>>
           \/ EventRoom /\ Post("cmd"),
           UNCHANGED <<ring, e, erdp, hc_pc, l, asked>>
    PROVE  ThreadInv'
<1> DEFINE q == ring["cmd"]
           p == ctl["cmd"]
           r == ctl'["cmd"]
<1>1. /\ RingOK(q) /\ Answers(q, p, asked) /\ EventRingOK(evts, e, post)
      /\ Pending(evts, e, post, q, p, asked) /\ Ordered(evts, e, post, q) /\ ThreadTypeOK
      /\ IntIdle
  BY Zenon DEF ThreadInv
<1>2. ~p.halted /\ q.trb[p.idx].c = p.cs
  BY Zenon DEF Ready
<1>3. PlaceOK(q, p) /\ Behind(q, p.idx) <= Behind(q, q.eidx)
  BY <1>1, <1>2, Zenon DEF Answers
<1>4. /\ p.idx + 1 \in Places /\ Behind(q, p.idx + 1) = Behind(q, p.idx) - 1
      /\ BitAt(p.idx + 1, q.nidx, q.cs) = BitAt(p.idx, q.nidx, q.cs)
      /\ p.idx + 1 > q.nidx => p.idx > q.nidx
  BY <1>1, <1>2, <1>3, ReadyAt, Zenon
<1>5. /\ Behind(q, p.idx) \in Nat /\ Behind(q, q.eidx) \in Nat /\ q.nidx \in Places
      /\ p.idx \in Places /\ q.trb \in [Items -> Trbs]
  BY <1>1, <1>3, BehindIs, Zenon DEF RingOK, Queues, PlaceOK
<1>6. r.halted \/ (r.idx = p.idx + 1 /\ r.cs = p.cs)
  BY Zenon
<1>7. Answers(q, r, asked)
  <2>1. ~r.halted => PlaceOK(q, r)
    BY <1>3, <1>4, <1>6, Zenon DEF PlaceOK
  <2>2. ~r.halted => Behind(q, r.idx) <= Behind(q, q.eidx)
    BY <1>3, <1>4, <1>5, <1>6
  <2> QED
    BY <1>1, <2>1, <2>2, Zenon DEF Answers
<1>8. ASSUME NEW ev, EventOK(ev, q, p, asked)
      PROVE  EventOK(ev, q, r, asked) /\ Behind(q, p.idx + 1) <= Behind(q, ev.idx + 1)
  <2>1. Behind(q, p.idx) <= Behind(q, ev.idx + 1) /\ ev.idx + 1 \in Places
    BY <1>2, <1>8, Zenon DEF EventOK
  <2>2. Behind(q, ev.idx + 1) \in Nat
    BY <1>5, <2>1, BehindIs, Zenon
  <2>3. Behind(q, p.idx + 1) <= Behind(q, ev.idx + 1)
    BY <1>4, <1>5, <2>1, <2>2
  <2> QED
    BY <1>6, <1>8, <2>3, Zenon DEF EventOK
<1>9. CASE UNCHANGED <<evts, post, posted>>
  <2>1. Pending(evts, e, post, q, r, asked)
    BY <1>1, <1>8, Zenon DEF Pending
  <2>2. ThreadTypeOK' /\ IntIdle'
    BY <1>1, <1>9, Zenon DEF ThreadTypeOK, IntIdle
  <2> QED
    BY <1>1, <1>7, <1>9, <2>1, <2>2, Zenon DEF ThreadInv
<1>10. CASE EventRoom /\ Post("cmd")
  <2> DEFINE ev == [r |-> "cmd", idx |-> p.idx, id |-> q.trb[p.idx].id, n |-> posted + 1,
                    c |-> post.cs]
             z == [idx |-> NextItem(post.idx),
                   cs |-> IF post.idx = LastItem THEN Flip(post.cs) ELSE post.cs]
  <2>1. /\ evts' = [evts EXCEPT ![post.idx] = ev] /\ posted' = posted + 1
        /\ post' = IF post.idx + 1 = XHCI_RING_ITEMS
                     THEN [idx |-> 0, cs |-> Flip(post.cs)] ELSE [post EXCEPT !.idx = @ + 1]
    BY <1>10, Zenon DEF Post
  <2>2. post \in [idx : Items, cs : Bits] /\ Items = 0..LastItem /\ LastItem \in Nat
        /\ XHCI_RING_ITEMS = LastItem + 1 /\ Places = Items
    BY <1>1, ItemsAre, Zenon DEF EventRingOK
  <2>3. post.idx + 1 = XHCI_RING_ITEMS <=> post.idx = LastItem
    BY <2>2
  <2>4. post' = z
    BY <2>1, <2>2, <2>3, Zenon DEF NextItem
  <2>5. NextItem(post.idx) # e.nidx
    BY <1>1, <1>10, <2>2, NextIs, Zenon DEF EventRoom, ThreadTypeOK
  <2>6. ev \in Events /\ ev.c = post.cs /\ ev.idx = p.idx /\ ev.id = q.trb[p.idx].id
    <3>1. q.trb[p.idx].id \in Int /\ posted + 1 \in Nat /\ post.cs \in Bits
      <4>1. q.trb[p.idx] \in Trbs
        BY <1>5, <2>2, Zenon
      <4>2. posted \in Nat
        BY <1>1, Zenon DEF ThreadTypeOK
      <4> QED
        BY <2>2, <4>1, <4>2 DEF Trbs
    <3> QED
      BY <1>5, <3>1, Zenon DEF Events
  <2> HIDE DEF ev, z
  <2>7. /\ EventRingOK(evts', e, post')
        /\ \A h \in Items : Fresh(h, e, post') => h = post.idx \/ Fresh(h, e, post)
        /\ \A h \in Items : Fresh(h, e, post) => Rank(h, e) < Rank(post.idx, e)
    <3>1. Posts(evts, e, post, ev, evts', post')
      BY <1>1, <2>1, <2>4, <2>5, <2>6, Zenon DEF Posts, z
    <3> QED
      BY <3>1, Posting, Zenon DEF Posted
  <2>8. EventOK(ev, q, r, asked)
    <3>1. Behind(q, p.idx + 1) <= Behind(q, q.eidx)
      BY <1>3, <1>4, <1>5
    <3>2. p.idx + 1 = q.nidx => ev.id = asked
      <4> SUFFICES ASSUME p.idx + 1 = q.nidx PROVE ev.id = asked
        BY Zenon
      <4>1. q.nidx > 0 /\ q.nidx - 1 = p.idx
        <5>1. p.idx \in 0..LastItem
          BY <1>5, <2>2, Zenon
        <5> QED
          BY <2>2, <5>1
      <4> QED
        BY <1>1, <2>6, <4>1, Zenon DEF Answers
    <3>3. ~r.halted => Behind(q, r.idx) <= Behind(q, p.idx + 1)
      BY <1>4, <1>5, <1>6
    <3> QED
      BY <1>4, <2>6, <3>1, <3>2, <3>3, Zenon DEF EventOK
  <2>9. evts'[post.idx] = ev /\ \A h \in Items : h # post.idx => evts'[h] = evts[h]
    BY <1>1, <2>1, <2>2, Zenon DEF EventRingOK
  <2>10. ASSUME NEW h \in Items, Fresh(h, e, post')
         PROVE  EventOK(evts'[h], q, r, asked)
    <3>1. CASE h = post.idx
      BY <2>8, <2>9, <3>1, Zenon
    <3>2. CASE h # post.idx
      <4>1. EventOK(evts[h], q, p, asked)
        BY <1>1, <2>7, <2>10, <3>2, Zenon DEF Pending
      <4> QED
        BY <1>8, <2>9, <3>2, <4>1, Zenon
    <3> QED
      BY <3>1, <3>2, Zenon
  <2>11. ASSUME NEW h \in Items, NEW j \in Items, Fresh(h, e, post'), Fresh(j, e, post'),
                Rank(h, e) <= Rank(j, e)
         PROVE  Behind(q, evts'[j].idx + 1) <= Behind(q, evts'[h].idx + 1)
    <3>1. CASE j = post.idx /\ h = post.idx
      <4>1. Behind(q, p.idx + 1) \in Nat
        BY <1>4, <1>5, BehindIs, Zenon
      <4> QED
        BY <2>6, <2>9, <3>1, <4>1
    <3>2. CASE j = post.idx /\ h # post.idx
      <4>1. EventOK(evts[h], q, p, asked)
        BY <1>1, <2>7, <2>11, <3>2, Zenon DEF Pending
      <4> QED
        BY <1>8, <2>6, <2>9, <3>2, <4>1, Zenon
    <3>3. CASE j # post.idx /\ h = post.idx
      <4>1. Rank(j, e) < Rank(post.idx, e) /\ Rank(post.idx, e) <= Rank(j, e)
        BY <2>7, <2>11, <3>3, Zenon
      <4>2. Rank(j, e) \in Int /\ Rank(post.idx, e) \in Int
        <5>1. e.nidx \in Items
          BY <1>1, Zenon DEF EventRingOK
        <5> QED
          BY <2>2, <5>1 DEF Rank
      <4> QED
        BY <4>1, <4>2
    <3>4. CASE j # post.idx /\ h # post.idx
      BY <1>1, <2>7, <2>9, <2>11, <3>4, Zenon DEF Ordered
    <3> QED
      BY <3>1, <3>2, <3>3, <3>4, Zenon
  <2>12. Pending(evts', e, post', q, r, asked) /\ Ordered(evts', e, post', q)
    BY <2>10, <2>11, Zenon DEF Pending, Ordered
  <2>13. hc_pc \in {"apply", "advance"} => l = e /\ e.nidx # post'.idx
    BY <1>1, <2>4, <2>5, Zenon DEF ThreadTypeOK, z
  <2>14. ThreadTypeOK' /\ IntIdle'
    <3>1. posted' \in Nat
      BY <1>1, <2>1 DEF ThreadTypeOK
    <3> QED
      BY <1>1, <2>13, <3>1, Zenon DEF ThreadTypeOK, IntIdle
  <2> QED
    BY <1>1, <1>7, <2>7, <2>12, <2>14, Zenon DEF ThreadInv
<1> QED
  BY <1>9, <1>10, Zenon

-----------------------------------------------------------------------------
(* The steps                                                               *)

\* Without the tick the controller finds nothing on the interrupt pipe.
LEMMA IntNotReady == RingsFit /\ ThreadInv => ~Ready("int")
<1> SUFFICES ASSUME RingsFit, ThreadInv PROVE ~Ready("int")
  BY Zenon
<1>1. 0 \in Items
  BY ItemsAre
<1> QED
  BY <1>1 DEF Ready, ThreadInv, IntIdle

LEMMA FollowKeeps ==
    ASSUME RingsFit, ThreadInv, FollowLink("cmd")
    PROVE  ThreadInv'
<1> DEFINE q == ring["cmd"]
           p == ctl["cmd"]
           r == ctl'["cmd"]
<1>1. /\ RingOK(q) /\ Answers(q, p, asked) /\ ThreadTypeOK
      /\ Pending(evts, e, post, q, p, asked)
  BY Zenon DEF ThreadInv
<1>2. ~p.halted /\ q.trb[p.idx].c = p.cs /\ q.trb[p.idx].id = Link
  BY Zenon DEF FollowLink, Ready
<1>3. PlaceOK(q, p) /\ Behind(q, p.idx) <= Behind(q, q.eidx)
  BY <1>1, <1>2, Zenon DEF Answers
<1>4. p.idx = LastItem /\ p.idx > q.nidx
  BY <1>1, <1>2, <1>3, ReadyAt, Zenon
<1>5. /\ q.nidx \in 0..LastItem /\ LastItem \in Nat /\ q.cs \in Bits /\ 0 \in Places
      /\ Places = 0..LastItem
  BY <1>1, ItemsAre DEF RingOK, Queues
<1>6. p.cs = Flip(q.cs) /\ Flip(p.cs) = q.cs /\ Flip(p.cs) \in Bits
  <2>1. ~(p.idx <= q.nidx)
    BY <1>4, <1>5
  <2>2. p.cs = Flip(q.cs)
    BY <1>3, <2>1, Zenon DEF PlaceOK, BitAt
  <2> QED
    BY <1>5, <2>2, FlipTwice, Zenon
<1>7. /\ ctl' \in [Rings -> [idx : Places, cs : Bits, halted : BOOLEAN]]
      /\ r.idx = 0 /\ r.cs = q.cs /\ r.halted = p.halted /\ ctl'["int"] = ctl["int"]
  BY <1>1, <1>5, <1>6, Zenon DEF FollowLink, ThreadTypeOK, Rings
<1>8. Behind(q, r.idx) = Behind(q, p.idx)
  BY <1>4, <1>5, <1>7 DEF Behind
<1>9. PlaceOK(q, r)
  BY <1>5, <1>7 DEF PlaceOK, BitAt
<1>10. Answers(q, r, asked)
  BY <1>1, <1>3, <1>8, <1>9, Zenon DEF Answers
<1>11. \A ev : EventOK(ev, q, p, asked) => EventOK(ev, q, r, asked)
  BY <1>7, <1>8, Zenon DEF EventOK
<1>12. Pending(evts, e, post, q, r, asked)
  BY <1>1, <1>11, Zenon DEF Pending
<1>13. UNCHANGED <<ring, evts, e, erdp, post, posted, hc_pc, l, asked>>
  BY Zenon DEF FollowLink
<1>14. ThreadTypeOK' /\ IntIdle'
  BY <1>7, <1>13, Zenon DEF ThreadInv, ThreadTypeOK, IntIdle
<1> QED
  BY <1>10, <1>12, <1>13, <1>14, Zenon DEF ThreadInv

LEMMA ControllerKeeps ==
    ASSUME RingsFit, ThreadInv, Controller
    PROVE  ThreadInv'
<1>1. ~FollowLink("int") /\ ~Execute("int")
  BY IntNotReady, Zenon DEF FollowLink, Execute
<1>2. CASE FollowLink("cmd")
  BY <1>2, FollowKeeps, Zenon
<1>3. CASE Execute("cmd")
  <2>1. ctl \in [Rings -> [idx : Places, cs : Bits, halted : BOOLEAN]]
    BY Zenon DEF ThreadInv, ThreadTypeOK
  <2>2. Ready("cmd") /\ ring["cmd"].trb[ctl["cmd"].idx].id # Link
    BY <1>3, Zenon DEF Execute
  <2>3. ctl["cmd"].idx + 1 \in Places
    BY <2>2, ReadyAt, Zenon DEF ThreadInv, Answers, Ready
  <2>4. ctl' = [ctl EXCEPT !["cmd"].idx = @ + 1]
    BY <1>3, Zenon DEF Execute
  <2>5. /\ ctl' \in [Rings -> [idx : Places, cs : Bits, halted : BOOLEAN]]
        /\ ctl'["cmd"].idx = ctl["cmd"].idx + 1 /\ ctl'["cmd"].cs = ctl["cmd"].cs
        /\ ctl'["int"] = ctl["int"]
    BY <2>1, <2>3, <2>4, Zenon DEF Rings
  <2>6. UNCHANGED <<evts, post, posted>> \/ (EventRoom /\ Post("cmd"))
    BY <1>3, Zenon DEF Execute
  <2>7. UNCHANGED <<ring, e, erdp, hc_pc, l, asked>>
    BY <1>3, Zenon DEF Execute
  <2> QED
    BY <2>2, <2>5, <2>6, <2>7, TrbTaken, Zenon
<1>4. CASE Halt("cmd")
  <2>1. ctl \in [Rings -> [idx : Places, cs : Bits, halted : BOOLEAN]]
    BY Zenon DEF ThreadInv, ThreadTypeOK
  <2>2. Ready("cmd") /\ ring["cmd"].trb[ctl["cmd"].idx].id # Link /\ EventRoom /\ Post("cmd")
    BY <1>4, Zenon DEF Halt
  <2>3. /\ ctl' \in [Rings -> [idx : Places, cs : Bits, halted : BOOLEAN]]
        /\ ctl'["cmd"].halted /\ ctl'["int"] = ctl["int"]
    BY <1>4, <2>1, Zenon DEF Halt, Rings
  <2>4. UNCHANGED <<ring, e, erdp, hc_pc, l, asked>>
    BY <1>4, Zenon DEF Halt
  <2> QED
    BY <2>2, <2>3, <2>4, TrbTaken, Zenon
<1> QED
  BY <1>1, <1>2, <1>3, <1>4, Zenon DEF Controller, Rings, Halt

LEMMA SubmitKeeps ==
    ASSUME RingsFit, ThreadInv, NEW k \in TrbCounts, Submit(k)
    PROVE  ThreadInv'
<1> DEFINE q == ring["cmd"]
           p == ctl["cmd"]
           b == asked + 1
           u == xhci_trb_queue(q, b, FALSE)
           w == ring'["cmd"]
           m == IF k = 1 THEN 1 ELSE 2
<1>1. /\ RingOK(q) /\ Answers(q, p, asked) /\ EventRingOK(evts, e, post)
      /\ Pending(evts, e, post, q, p, asked) /\ Ordered(evts, e, post, q) /\ ThreadTypeOK
      /\ IntIdle
  BY Zenon DEF ThreadInv
<1>2. k \in Nat \ {0} /\ b \in Nat /\ MaxUnanswered \in Nat
  BY <1>1 DEF RingsFit, ThreadTypeOK
<1>3. Unanswered(q) = Behind(q, q.eidx) /\ Behind(q, q.eidx) \in Nat
  BY <1>1, UnansweredIs, BehindIs, Zenon DEF RingOK, Queues, Answers
<1>4. /\ asked' = b /\ hc_pc' = "scan" /\ UNCHANGED <<ctl, evts, e, erdp, post, posted, l>>
      /\ Unanswered(q) + k <= MaxUnanswered
  BY Zenon DEF Submit
<1>5. ring' = [ring EXCEPT !["cmd"] = xhci_trb_queue(IF k = 1 THEN q ELSE u, b, TRUE)]
  BY <1>4, Zenon DEF Submit
<1>6. /\ w = xhci_trb_queue(IF k = 1 THEN q ELSE u, b, TRUE) /\ ring'["int"] = ring["int"]
      /\ ring' = [r \in Rings |-> ring'[r]]
  BY <1>1, <1>5, Zenon DEF ThreadTypeOK, Rings
<1>7. m \in Nat \ {0} /\ Behind(q, q.eidx) + m <= MaxUnanswered
  BY <1>2, <1>3, <1>4
<1>8. Grown(q, w, b, m)
  <2>1. CASE k = 1
    BY <1>1, <1>2, <1>6, <2>1, QueueGrows, Zenon
  <2>2. CASE k # 1
    <3>1. Grown(q, u, b, 1)
      BY <1>1, <1>2, QueueGrows, Zenon
    <3>2. RingOK(u)
      BY <3>1, Zenon DEF Grown
    <3>3. Grown(u, w, b, 1)
      BY <1>2, <1>6, <2>2, <3>2, QueueGrows, Zenon
    <3> QED
      BY <1>1, <1>2, <2>2, <3>1, <3>3, GrownTwice, Zenon
  <2> QED
    BY <2>1, <2>2, Zenon
<1> HIDE DEF w, m, b, u
<1>9. /\ Answers(w, p, b)
      /\ \A ev : EventOK(ev, q, p, asked) =>
           EventOK(ev, w, p, b) /\ Behind(w, ev.idx + 1) = Behind(q, ev.idx + 1) + m
  <2>1. /\ RingOK(q) /\ Answers(q, p, asked) /\ m \in Nat \ {0} /\ Grown(q, w, b, m)
        /\ Behind(q, q.eidx) + m <= MaxUnanswered
    BY <1>1, <1>7, <1>8, Zenon
  <2> HIDE DEF q, p
  <2> QED
    BY <2>1, GrowthKeeps
<1>10. Pending(evts, e, post, w, p, b)
  BY <1>1, <1>9, Zenon DEF Pending
<1>11. Ordered(evts, e, post, w)
  <2> SUFFICES ASSUME NEW h \in Items, NEW j \in Items, Fresh(h, e, post), Fresh(j, e, post),
                      Rank(h, e) <= Rank(j, e)
               PROVE  Behind(w, evts[j].idx + 1) <= Behind(w, evts[h].idx + 1)
    BY Zenon DEF Ordered
  <2>1. EventOK(evts[h], q, p, asked) /\ EventOK(evts[j], q, p, asked)
    BY <1>1, Zenon DEF Pending
  <2>2. /\ Behind(w, evts[h].idx + 1) = Behind(q, evts[h].idx + 1) + m
        /\ Behind(w, evts[j].idx + 1) = Behind(q, evts[j].idx + 1) + m
    BY <1>9, <2>1, Zenon
  <2>3. Behind(q, evts[h].idx + 1) \in Nat /\ Behind(q, evts[j].idx + 1) \in Nat
    BY <1>1, <2>1, BehindIs, Zenon DEF EventOK, RingOK, Queues
  <2>4. Behind(q, evts[j].idx + 1) <= Behind(q, evts[h].idx + 1)
    BY <1>1, Zenon DEF Ordered
  <2> QED
    BY <1>7, <2>2, <2>3, <2>4
<1>12. RingOK(w)
  BY <1>8, Zenon DEF Grown
<1>13. ThreadTypeOK' /\ IntIdle'
  BY <1>1, <1>2, <1>4, <1>6, Zenon DEF ThreadTypeOK, IntIdle
<1> QED
  BY <1>1, <1>4, <1>9, <1>10, <1>11, <1>12, <1>13, Zenon DEF ThreadInv, w

LEMMA LookKeeps == RingsFit /\ ThreadInv /\ Look => ThreadInv'
<1> SUFFICES ASSUME RingsFit, ThreadInv, Look PROVE ThreadInv'
  BY Zenon
<1>1. UNCHANGED <<ring, ctl, evts, e, erdp, post, posted, asked>> /\ l' = e
      /\ hc_pc' = (IF evts[e.nidx].c = e.cs THEN "apply" ELSE "check")
  BY Zenon DEF Look
<1>2. evts[e.nidx].c = e.cs <=> e.nidx # post.idx
  BY SeesFresh, Zenon DEF ThreadInv
<1>3. ThreadTypeOK' /\ IntIdle'
  BY <1>1, <1>2, Zenon DEF ThreadInv, ThreadTypeOK, IntIdle
<1> QED
  BY <1>1, <1>3, Zenon DEF ThreadInv

LEMMA UseKeeps == RingsFit /\ ThreadInv /\ Use => ThreadInv'
<1> SUFFICES ASSUME RingsFit, ThreadInv, Use PROVE ThreadInv'
  BY Zenon
<1> DEFINE q == ring["cmd"]
           p == ctl["cmd"]
           ev == evts[e.nidx]
           w == ring'["cmd"]
<1>1. /\ RingOK(q) /\ Answers(q, p, asked) /\ EventRingOK(evts, e, post)
      /\ Pending(evts, e, post, q, p, asked) /\ Ordered(evts, e, post, q) /\ ThreadTypeOK
      /\ IntIdle
  BY Zenon DEF ThreadInv
<1>2. l = e /\ e.nidx # post.idx /\ UNCHANGED <<ctl, evts, e, erdp, post, posted, l, asked>>
      /\ hc_pc' = "advance"
  BY <1>1, Zenon DEF Use, ThreadTypeOK
<1>3. Fresh(e.nidx, e, post) /\ Rank(e.nidx, e) = 0 /\ e.nidx \in Items
  BY <1>1, <1>2, SeesFresh, Zenon DEF EventRingOK
<1>4. ev \in Events /\ ev.r = "cmd" /\ ev.id \in Int
  BY <1>1, <1>3, Zenon DEF EventRingOK, Events
<1>5. ring' = [ring EXCEPT !["cmd"] = Apply(@, ev)]
  BY <1>2, <1>4, Zenon DEF Use
<1>6. w = Apply(q, ev) /\ ring'["int"] = ring["int"] /\ ring' = [r \in Rings |-> ring'[r]]
  BY <1>1, <1>5, Zenon DEF ThreadTypeOK, Rings
<1>7. EventOK(ev, q, p, asked)
  BY <1>1, <1>3, Zenon DEF Pending
<1>8. /\ w.trb = q.trb /\ w.nidx = q.nidx /\ w.cs = q.cs /\ w.eidx = ev.idx + 1 /\ w.evt = ev.id
      /\ w \in Queues
  BY <1>1, <1>4, <1>6, <1>7, Zenon DEF Apply, RingOK, Queues, EventOK
<1> HIDE DEF w
<1>9. \A k : Behind(w, k) = Behind(q, k)
  BY <1>8, Zenon DEF Behind
<1>10. RingOK(w)
  BY <1>1, <1>8, Zenon DEF RingOK
<1>11. Behind(q, ev.idx + 1) \in Nat /\ Behind(q, q.eidx) \in Nat /\ MaxUnanswered \in Nat
       /\ Behind(q, ev.idx + 1) <= MaxUnanswered
  <2>1. Behind(q, ev.idx + 1) \in Nat /\ Behind(q, q.eidx) \in Nat /\ MaxUnanswered \in Nat
    BY <1>1, <1>7, BehindIs, ItemsAre, Zenon DEF RingOK, Queues, EventOK
  <2>2. Behind(q, ev.idx + 1) <= Behind(q, q.eidx) /\ Behind(q, q.eidx) <= MaxUnanswered
    BY <1>1, <1>7, Zenon DEF EventOK, Answers
  <2> QED
    BY <2>1, <2>2
<1>12. Answers(w, p, asked)
  <2>1. ~p.halted => PlaceOK(w, p) /\ Behind(w, p.idx) <= Behind(w, w.eidx)
    BY <1>1, <1>7, <1>8, <1>9, Zenon DEF Answers, PlaceOK, EventOK
  <2>2. w.eidx = w.nidx => w.evt = asked
    BY <1>7, <1>8, Zenon DEF EventOK
  <2> QED
    BY <1>1, <1>8, <1>9, <1>11, <2>1, <2>2, Zenon DEF Answers
<1>13. Pending(evts, e, post, w, p, asked)
  <2> SUFFICES ASSUME NEW h \in Items, Fresh(h, e, post) PROVE EventOK(evts[h], w, p, asked)
    BY Zenon DEF Pending
  <2>1. EventOK(evts[h], q, p, asked)
    BY <1>1, Zenon DEF Pending
  <2>2. 0 <= Rank(h, e)
    <3>1. e.nidx \in 0..LastItem /\ h \in 0..LastItem /\ XHCI_RING_ITEMS = LastItem + 1
          /\ LastItem \in Nat
      BY <1>3, ItemsAre, Zenon
    <3> QED
      BY <3>1 DEF Rank
  <2>3. Behind(q, evts[h].idx + 1) <= Behind(q, ev.idx + 1)
    BY <1>1, <1>3, <2>2, ZenonT(30) DEF Ordered
  <2> QED
    BY <1>8, <1>9, <2>1, <2>3, Zenon DEF EventOK
<1>14. Ordered(evts, e, post, w)
  BY <1>1, <1>9 DEF Ordered
<1>15. ThreadTypeOK' /\ IntIdle'
  BY <1>1, <1>2, <1>6, Zenon DEF ThreadTypeOK, IntIdle
<1> QED
  BY <1>1, <1>2, <1>10, <1>12, <1>13, <1>14, <1>15, Zenon DEF ThreadInv, w

LEMMA MoveOnKeeps == RingsFit /\ ThreadInv /\ MoveOn => ThreadInv'
<1> SUFFICES ASSUME RingsFit, ThreadInv, MoveOn PROVE ThreadInv'
  BY Zenon
<1> DEFINE q == ring["cmd"]
           z == [nidx |-> NextItem(e.nidx), cs |-> IF e.nidx = LastItem THEN Flip(e.cs) ELSE e.cs]
<1>1. /\ EventRingOK(evts, e, post) /\ Pending(evts, e, post, q, ctl["cmd"], asked)
      /\ Ordered(evts, e, post, q) /\ ThreadTypeOK /\ IntIdle
  BY Zenon DEF ThreadInv
<1>2. l = e /\ e.nidx # post.idx /\ UNCHANGED <<ring, ctl, evts, post, posted, l, asked>>
      /\ hc_pc' = "scan"
  BY <1>1, Zenon DEF MoveOn, ThreadTypeOK
<1>3. e.nidx \in Items /\ Items = 0..LastItem /\ LastItem \in Nat \ {0}
      /\ XHCI_RING_ITEMS = LastItem + 1
  BY <1>1, ItemsAre, Zenon DEF EventRingOK
<1>4. (e.nidx + 1) % XHCI_RING_ITEMS = NextItem(e.nidx)
  BY <1>3, NextIs, Zenon
<1>5. (e.nidx + 1 >= XHCI_RING_ITEMS <=> e.nidx = LastItem) /\ (NextItem(e.nidx) = 0 <=> e.nidx = LastItem)
  BY <1>3 DEF NextItem
<1>6. e' = z /\ erdp' = NextItem(e.nidx)
  BY <1>2, <1>4, <1>5, Zenon DEF MoveOn, Advance
<1> HIDE DEF z
<1>7. /\ EventRingOK(evts, e', post)
      /\ \A h \in Items : Fresh(h, e', post) => Fresh(h, e, post) /\ Rank(h, e') = Rank(h, e) - 1
      /\ \A h \in Items : Rank(h, e) \in Nat
  <2>1. Passes(evts, e, post, e')
    BY <1>1, <1>2, <1>6, Zenon DEF Passes, z
  <2> QED
    BY <2>1, MovesPast, Zenon DEF Passed
<1>8. Pending(evts, e', post, q, ctl["cmd"], asked)
  BY <1>1, <1>7, Zenon DEF Pending
<1>9. Ordered(evts, e', post, q)
  <2> SUFFICES ASSUME NEW h \in Items, NEW j \in Items, Fresh(h, e', post), Fresh(j, e', post),
                      Rank(h, e') <= Rank(j, e')
               PROVE  Behind(q, evts[j].idx + 1) <= Behind(q, evts[h].idx + 1)
    BY Zenon DEF Ordered
  <2>1. Rank(h, e) <= Rank(j, e)
    BY <1>7
  <2> QED
    BY <1>1, <1>7, <2>1, Zenon DEF Ordered
<1>10. erdp' = e'.nidx
  BY <1>6, Zenon DEF z
<1>11. ThreadTypeOK' /\ IntIdle'
  BY <1>1, <1>2, <1>10, Zenon DEF ThreadTypeOK, IntIdle
<1> QED
  BY <1>2, <1>7, <1>8, <1>9, <1>11, Zenon DEF ThreadInv

LEMMA WaitKeeps == ThreadInv /\ (Answered \/ NotYet) => ThreadInv'
<1> SUFFICES ASSUME ThreadInv, Answered \/ NotYet PROVE ThreadInv'
  BY Zenon
<1>1. UNCHANGED <<ring, ctl, evts, e, erdp, post, posted, l, asked>> /\ hc_pc' \in {"scan", "idle"}
  BY Zenon DEF Answered, NotYet
<1>2. ThreadTypeOK' /\ IntIdle'
  BY <1>1, Zenon DEF ThreadInv, ThreadTypeOK, IntIdle
<1> QED
  BY <1>1, <1>2, Zenon DEF ThreadInv

-----------------------------------------------------------------------------
LEMMA HcInitInv == RingsFit /\ HcInit => HcInv
<1> SUFFICES ASSUME RingsFit, HcInit PROVE HcInv
  BY Zenon
<1>1. /\ LastItem \in Nat \ {0} /\ Items = 0..LastItem /\ Places = 0..LastItem
      /\ MaxUnanswered \in Nat
  BY ItemsAre, Zenon
<1> DEFINE q == ring["cmd"]
           p == ctl["cmd"]
           T == [id |-> 0, ioc |-> FALSE, c |-> 0]
<1>2. /\ q = [trb |-> [h \in Items |-> T], nidx |-> 0, cs |-> 1, eidx |-> 0, evt |-> 0]
      /\ p = [idx |-> 0, cs |-> 1, halted |-> FALSE]
      /\ ring = [r \in Rings |-> ring[r]]
      /\ ctl \in [Rings -> [idx : Places, cs : Bits, halted : BOOLEAN]]
      /\ ring["int"].trb = [h \in Items |-> T] /\ ctl["int"].idx = 0 /\ ctl["int"].cs = 1
  <2>1. /\ "cmd" \in Rings /\ "int" \in Rings /\ 0 \in Places /\ 1 \in Bits
    BY <1>1 DEF Rings, Bits
  <2> QED
    BY <2>1, Zenon DEF HcInit
<1>3. T \in Trbs /\ T.c = 0 /\ T.id # Link
  BY DEF Trbs, Bits, Link
<1> HIDE DEF T
<1>4. /\ q.trb \in [Items -> Trbs] /\ q.nidx = 0 /\ q.cs = 1 /\ q.eidx = 0 /\ q.evt = 0
      /\ \A h \in Items : q.trb[h] = T
  BY <1>2, <1>3
<1>5. RingOK(q)
  <2>1. q \in Queues
    BY <1>1, <1>2, <1>4 DEF Queues, Bits
  <2>2. \A h \in Items : q.trb[h].c = IF h < q.nidx THEN q.cs ELSE Flip(q.cs)
    BY <1>1, <1>3, <1>4 DEF Flip
  <2>3. \A h \in 0..(LastItem - 1) : q.trb[h].id # Link
    BY <1>1, <1>3, <1>4
  <2> QED
    BY <2>1, <2>2, <2>3, Zenon DEF RingOK
<1>6. Answers(q, p, asked)
  <2>1. asked = 0 /\ p.idx = 0 /\ p.cs = 1
    BY <1>2 DEF HcInit
  <2>2. Behind(q, 0) = 0
    BY <1>4 DEF Behind
  <2> QED
    BY <1>1, <1>4, <2>1, <2>2 DEF Answers, PlaceOK, BitAt
<1>7. EventRingOK(evts, e, post)
  BY <1>1 DEF HcInit, EventRingOK, Events, Bits, Flip, BitAt
<1>8. \A h \in Items : ~Fresh(h, e, post)
  BY <1>1 DEF HcInit, Fresh
<1>9. ThreadTypeOK /\ IntIdle
  <2>1. posted \in Nat /\ asked \in Nat /\ hc_pc = "idle" /\ erdp = e.nidx /\ l = e
    BY Zenon DEF HcInit
  <2>2. ThreadTypeOK
    BY <1>2, <2>1, Zenon DEF ThreadTypeOK
  <2>3. IntIdle
    BY <1>2, <1>3, Zenon DEF IntIdle
  <2> QED
    BY <2>2, <2>3, Zenon
<1>10. Pending(evts, e, post, q, p, asked) /\ Ordered(evts, e, post, q)
  BY <1>8, Zenon DEF Pending, Ordered
<1>11. ThreadInv
  BY <1>5, <1>6, <1>7, <1>9, <1>10, Zenon DEF ThreadInv
<1>12. users \in {{"thread"}, {"tick"}} /\ hc_pc = "idle"
  BY Zenon DEF HcInit, RingsFit
<1> QED
  BY <1>11, <1>12, Zenon DEF HcInv

LEMMA HcStep == RingsFit /\ HcInv /\ [HcNext]_hcVars => HcInv'
<1> SUFFICES ASSUME RingsFit, HcInv, [HcNext]_hcVars PROVE HcInv'
  BY Zenon
<1>1. users' = users
  BY Zenon DEF HcNext, hcVars, Thread, Submit, Look, Use, MoveOn, Answered, NotYet, xhci_poll_intr,
         Controller, FollowLink, Execute, Halt
<1>2. CASE users = {"tick"}
  <2>1. "thread" \notin users /\ hc_pc = "idle"
    BY <1>2, Zenon DEF HcInv
  <2>2. ~Thread
    BY <2>1, Zenon DEF Thread, Submit, Look, Use, MoveOn, Answered, NotYet
  <2>3. hc_pc' = "idle"
    BY <2>1, <2>2, Zenon DEF HcNext, hcVars, xhci_poll_intr, Controller, FollowLink, Execute, Halt
  <2>4. users' # {"thread"}
    BY <1>1, <2>1, Zenon
  <2> QED
    BY <1>1, <1>2, <2>3, <2>4, Zenon DEF HcInv
<1>3. CASE users = {"thread"}
  <2>1. ThreadInv /\ "tick" \notin users /\ users # {"tick"}
    BY <1>3, Zenon DEF HcInv
  <2>2. ASSUME UNCHANGED hcVars PROVE ThreadInv'
    BY <2>1, <2>2, Zenon DEF hcVars, ThreadInv, ThreadTypeOK, IntIdle
  <2>3. ASSUME HcNext PROVE ThreadInv'
    <3>1. ~xhci_poll_intr
      BY <2>1, Zenon DEF xhci_poll_intr
    <3>2. CASE Controller
      BY <2>1, <3>2, ControllerKeeps, Zenon
    <3>3. CASE Thread
      BY <2>1, <3>3, SubmitKeeps, LookKeeps, UseKeeps, MoveOnKeeps, WaitKeeps, Zenon DEF Thread
    <3> QED
      BY <2>3, <3>1, <3>2, <3>3, Zenon DEF HcNext
  <2>4. ThreadInv'
    BY <2>2, <2>3, Zenon
  <2> QED
    BY <1>1, <1>3, <2>1, <2>4, Zenon DEF HcInv
<1> QED
  BY <1>2, <1>3, Zenon DEF HcInv

\* The status a request returns is its own, however often the rings and their
\* cycle bits have gone round, whatever timed out before and was finished
\* late, and whichever TRB fails (xhci_trb_queue, xhci_process_events and
\* xhci_event_wait of xhci.c), for every size of the rings and every bound on
\* the unanswered TRBs that is below it.
THEOREM StatusIsOwn == RingsFit /\ HcSpec => []OwnStatus
<1>1. HcInv => OwnStatus
  <2> SUFFICES ASSUME HcInv, hc_pc = "check", ~xhci_ring_busy(ring["cmd"])
               PROVE  ring["cmd"].evt = asked
    BY Zenon DEF OwnStatus
  <2>1. users = {"thread"} /\ ThreadInv
    BY Zenon DEF HcInv
  <2> QED
    BY <2>1, Zenon DEF ThreadInv, Answers, xhci_ring_busy
<1>2. RingsFit /\ HcInit => RingsFit /\ HcInv
  BY HcInitInv, Zenon
<1>3. (RingsFit /\ HcInv) /\ [HcNext]_hcVars => (RingsFit /\ HcInv)'
  BY HcStep, Zenon
<1> QED
  BY <1>1, <1>2, <1>3, PTL DEF HcSpec

-----------------------------------------------------------------------------
(* UsbEnum: the control pipes                                              *)

\* The frames of usb_hub_port_setup.
PortSteps == {"detect", "reset", "address", "configure", "hub"}
PortFrames == [hub : Hubs \cup {0}, i : Nat, pipe : Nat, found : Nat, step : PortSteps]

\* No pipe is used in two frames of s, or in a frame while it is on the free
\* list f, or twice on f; and pipes are numbered up to n.
FrameOK(s, f, n, u) == s[u].pipe <= n /\ \A k \in 1..Len(f) : s[u].pipe # f[k]
FramesApart(s, u, j) == (s[u].pipe # 0 /\ s[u].pipe = s[j].pipe) => u = j
InFrames(s, f, n) ==
    /\ s \in Seq(PortFrames)
    /\ \A u \in 1..Len(s) : FrameOK(s, f, n, u)
    /\ \A u, j \in 1..Len(s) : FramesApart(s, u, j)

\* The free list f holds each of its pipes once.
FreeOK(f, n) ==
    /\ n \in Nat /\ f \in Seq(1..n)
    /\ \A j, k \in 1..Len(f) : f[j] = f[k] => j = k

\* What every step of the enumeration keeps.
PipesInv == InFrames(stack, freelist, npipes) /\ FreeOK(freelist, npipes)

LEMMA FrameFields ==
    ASSUME NEW r \in PortFrames, NEW n \in Nat
    PROVE  r.pipe \in Nat /\ r.i + 1 \in Nat /\ r.found + n \in Nat
    BY DEF PortFrames

LEMMA FrameChanged ==
    ASSUME NEW r \in PortFrames, NEW a \in Nat, NEW b \in Nat, NEW c \in Nat, NEW z \in PortSteps
    PROVE  [r EXCEPT !.i = a, !.step = z, !.pipe = b, !.found = c] \in PortFrames
    BY Zenon DEF PortFrames

\* The pipes of the frames.
LEMMA PipesOfFrames ==
    ASSUME NEW s \in Seq(PortFrames)
    PROVE  Len(s) \in Nat /\ \A u \in 1..Len(s) : s[u].pipe \in Nat
<1>1. \A u \in 1..Len(s) : s[u] \in PortFrames
    OBVIOUS
<1> QED
    BY <1>1, FrameFields

\* The innermost frame is replaced.
LEMMA TopReplaced ==
    ASSUME NEW s \in Seq(PortFrames), s # <<>>, NEW r \in PortFrames
    PROVE  LET t == <<r>> \o Tail(s)
           IN  /\ t \in Seq(PortFrames) /\ Len(t) = Len(s) /\ t[1] = r
               /\ \A u \in 2..Len(s) : t[u] = s[u]
<1> DEFINE t == <<r>> \o Tail(s)
<1>1. /\ Tail(s) \in Seq(PortFrames) /\ Len(Tail(s)) = Len(s) - 1 /\ Len(s) \in Nat \ {0}
      /\ \A u \in 1..(Len(s) - 1) : Tail(s)[u] = s[u + 1]
    OBVIOUS
<1>2. /\ <<r>> \in Seq(PortFrames) /\ Len(<<r>>) = 1 /\ <<r>>[1] = r
    OBVIOUS
<1>3. /\ t \in Seq(PortFrames) /\ Len(t) = Len(s) /\ t[1] = r
    BY <1>1, <1>2
<1>4. ASSUME NEW u \in 2..Len(s) PROVE t[u] = s[u]
    <2>1. t[u] = Tail(s)[u - 1]
        BY <1>1, <1>2
    <2> QED
        BY <2>1, <1>1
<1> QED
    BY <1>3, <1>4, Zenon

\* A frame put in the place of the innermost one keeps the order when its
\* pipe is none, the one it replaces, or one that is in no other place.
LEMMA TopKeeps ==
    ASSUME NEW s, NEW f, NEW n, NEW r \in PortFrames, InFrames(s, f, n), s # <<>>,
           NEW g, NEW m \in Nat, n \in Nat, n <= m, FreeOK(g, m),
           r.pipe <= m, \A k \in 1..Len(g) : r.pipe # g[k],
           r.pipe # 0 => \A u \in 2..Len(s) : s[u].pipe # r.pipe,
           \A u \in 2..Len(s) : \A k \in 1..Len(g) : s[u].pipe # g[k]
    PROVE  InFrames(<<r>> \o Tail(s), g, m)
<1> DEFINE t == <<r>> \o Tail(s)
<1>1. s \in Seq(PortFrames)
    BY Zenon DEF InFrames
<1>2. /\ t \in Seq(PortFrames) /\ Len(t) = Len(s) /\ t[1] = r
      /\ \A u \in 2..Len(s) : t[u] = s[u]
    BY <1>1, TopReplaced, Zenon
<1>3. Len(s) \in Nat /\ \A u \in 1..Len(s) : s[u].pipe \in Nat
    BY <1>1, PipesOfFrames, Zenon
<1> HIDE DEF t
<1>4. ASSUME NEW u \in 1..Len(t) PROVE FrameOK(t, g, m, u)
    <2>1. CASE u = 1
        BY <2>1, <1>2, Zenon DEF FrameOK
    <2>2. CASE u # 1
        <3>1. u \in 2..Len(s) /\ t[u] = s[u]
            BY <2>2, <1>2, <1>3
        <3>2. s[u].pipe <= n
            BY <3>1 DEF InFrames, FrameOK
        <3> QED
            BY <3>1, <3>2, <1>3 DEF FrameOK
    <2> QED
        BY <2>1, <2>2, Zenon
<1>5. ASSUME NEW u \in 1..Len(t), NEW j \in 1..Len(t) PROVE FramesApart(t, u, j)
    <2>1. CASE u = 1 \/ j = 1
        BY <2>1, <1>2, <1>3 DEF FramesApart
    <2>2. CASE u # 1 /\ j # 1
        <3>1. u \in 2..Len(s) /\ t[u] = s[u] /\ j \in 2..Len(s) /\ t[j] = s[j]
            BY <2>2, <1>2, <1>3
        <3>2. FramesApart(s, u, j)
            BY <3>1, <1>3 DEF InFrames
        <3> QED
            BY <3>1, <3>2, Zenon DEF FramesApart
    <2> QED
        BY <2>1, <2>2, Zenon
<1>6. InFrames(t, g, m)
    BY <1>2, <1>4, <1>5, Zenon DEF InFrames
<1> QED
    BY <1>6, Zenon DEF t

\* A frame that gives its pipe back, or has none, goes on without one.
LEMMA TopWithout ==
    ASSUME NEW s, NEW f, NEW n, NEW r \in PortFrames, r.pipe = 0,
           InFrames(s, f, n), FreeOK(f, n), s # <<>>,
           NEW g, g = f \/ (g = <<s[1].pipe>> \o f /\ s[1].pipe # 0)
    PROVE  InFrames(<<r>> \o Tail(s), g, n) /\ FreeOK(g, n)
<1>1. /\ s \in Seq(PortFrames) /\ Len(s) \in Nat \ {0} /\ n \in Nat /\ f \in Seq(1..n)
      /\ \A u \in 1..Len(s) : s[u].pipe \in Nat
    <2>1. s \in Seq(PortFrames) /\ n \in Nat /\ f \in Seq(1..n)
        BY Zenon DEF InFrames, FreeOK
    <2>2. Len(s) # 0
        BY <2>1
    <2> QED
        BY <2>1, <2>2, PipesOfFrames, Zenon
<1>2. \A u \in 1..Len(s) : s[u].pipe <= n /\ \A k \in 1..Len(f) : s[u].pipe # f[k]
    BY Zenon DEF InFrames, FrameOK
<1>3. \A u, j \in 1..Len(s) : FramesApart(s, u, j)
    BY Zenon DEF InFrames
<1>4. FreeOK(g, n) /\ \A u \in 2..Len(s) : \A k \in 1..Len(g) : s[u].pipe # g[k]
    <2>1. CASE g = f
        BY <2>1, <1>1, <1>2
    <2>2. CASE g = <<s[1].pipe>> \o f /\ s[1].pipe # 0
        <3> DEFINE p == s[1].pipe
        <3>1. p \in 1..n /\ \A k \in 1..Len(f) : p # f[k]
            BY <2>2, <1>1, <1>2
        <3>2. \A u \in 2..Len(s) : s[u].pipe # p
            BY <2>2, <1>1, <1>3 DEF FramesApart
        <3> HIDE DEF p
        <3>3. g = <<p>> \o f
            BY <2>2, Zenon DEF p
        <3>4. <<p>> \in Seq(1..n) /\ Len(<<p>>) = 1 /\ <<p>>[1] = p /\ Len(f) \in Nat
            BY <3>1, <1>1
        <3>5. /\ g \in Seq(1..n) /\ Len(g) = Len(f) + 1 /\ g[1] = p
              /\ \A k \in 2..Len(g) : g[k] = f[k - 1]
            BY <3>3, <3>4, <1>1
        <3>6. ASSUME NEW j \in 1..Len(g), NEW k \in 1..Len(g), g[j] = g[k] PROVE j = k
            <4>0. ASSUME NEW h \in 1..Len(g), h # 1 PROVE g[h] # g[1]
                <5>1. h \in 2..Len(g) /\ h - 1 \in 1..Len(f)
                    BY <3>4, <3>5, <4>0
                <5>2. g[h] = f[h - 1] /\ p # f[h - 1] /\ g[1] = p
                    BY <3>1, <3>5, <5>1, Zenon
                <5> QED
                    BY <5>2, Zenon
            <4>1. CASE j = 1 \/ k = 1
                BY <4>0, <4>1, <3>6, Zenon
            <4>2. CASE j # 1 /\ k # 1
                <5>1. /\ j - 1 \in 1..Len(f) /\ k - 1 \in 1..Len(f)
                      /\ f[j - 1] = f[k - 1]
                    BY <4>2, <3>4, <3>5, <3>6
                <5>2. j - 1 = k - 1
                    BY <5>1, Zenon DEF FreeOK
                <5> QED
                    BY <5>2
            <4> QED
                BY <4>1, <4>2, Zenon
        <3>7. ASSUME NEW u \in 2..Len(s), NEW k \in 1..Len(g) PROVE s[u].pipe # g[k]
            <4>1. CASE k = 1
                BY <4>1, <3>2, <3>5, Zenon
            <4>2. CASE k # 1
                <5>1. k \in 2..Len(g) /\ k - 1 \in 1..Len(f) /\ u \in 1..Len(s)
                    BY <4>2, <3>4, <3>5, <1>1
                <5> QED
                    BY <5>1, <3>5, <1>2, Zenon
            <4> QED
                BY <4>1, <4>2, Zenon
        <3> QED
            BY <3>5, <3>6, <3>7, <1>1, Zenon DEF FreeOK
    <2> QED
        BY <2>1, <2>2, Zenon
<1>5. g \in Seq(1..n) /\ \A k \in 1..Len(g) : r.pipe # g[k]
    BY <1>4, <1>1 DEF FreeOK
<1>6. n <= n /\ r.pipe <= n
    BY <1>1
<1> QED
    BY <1>1, <1>4, <1>5, <1>6, TopKeeps, Zenon

\* The frame under the innermost one goes on in its place.
LEMMA TopDropped ==
    ASSUME NEW s, NEW f, NEW n, InFrames(s, f, n), Len(s) > 1
    PROVE  /\ InFrames(Tail(s), f, n) /\ Tail(s) # <<>> /\ Tail(s)[1] = s[2]
<1> DEFINE t == Tail(s)
<1>1. s \in Seq(PortFrames) /\ Len(s) \in Nat
    BY DEF InFrames
<1>2. /\ t \in Seq(PortFrames) /\ Len(t) = Len(s) - 1
      /\ \A u \in 1..Len(t) : t[u] = s[u + 1] /\ u + 1 \in 1..Len(s)
    BY <1>1
<1> HIDE DEF t
<1>3. ASSUME NEW u \in 1..Len(t) PROVE FrameOK(t, f, n, u)
    <2>1. FrameOK(s, f, n, u + 1)
        BY <1>2, Zenon DEF InFrames
    <2> QED
        BY <2>1, <1>2, Zenon DEF FrameOK
<1>4. ASSUME NEW u \in 1..Len(t), NEW j \in 1..Len(t) PROVE FramesApart(t, u, j)
    <2>1. FramesApart(s, u + 1, j + 1)
        BY <1>2, Zenon DEF InFrames
    <2> QED
        BY <2>1, <1>1, <1>2 DEF FramesApart
<1>5. InFrames(t, f, n)
    BY <1>2, <1>3, <1>4, Zenon DEF InFrames
<1>6. t # <<>> /\ t[1] = s[2]
    BY <1>1, <1>2
<1> QED
    BY <1>5, <1>6, Zenon DEF t

\* A hub is entered: a frame without a pipe comes on top.
LEMMA TopAdded ==
    ASSUME NEW s, NEW f, NEW n, InFrames(s, f, n), FreeOK(f, n),
           NEW r \in PortFrames, r.pipe = 0
    PROVE  InFrames(<<r>> \o s, f, n)
<1> DEFINE t == <<r>> \o s
<1>1. /\ s \in Seq(PortFrames) /\ Len(s) \in Nat /\ n \in Nat /\ f \in Seq(1..n)
    BY DEF InFrames, FreeOK
<1>2. <<r>> \in Seq(PortFrames) /\ Len(<<r>>) = 1 /\ <<r>>[1] = r
    OBVIOUS
<1>3. /\ t \in Seq(PortFrames) /\ Len(t) = Len(s) + 1 /\ t[1] = r
      /\ \A u \in 2..Len(t) : t[u] = s[u - 1] /\ u - 1 \in 1..Len(s)
    BY <1>1, <1>2
<1> HIDE DEF t
<1>4. ASSUME NEW u \in 1..Len(t) PROVE FrameOK(t, f, n, u)
    <2>1. CASE u = 1
        BY <2>1, <1>1, <1>3 DEF FrameOK
    <2>2. CASE u # 1
        <3>1. u \in 2..Len(t)
            BY <2>2, <1>1, <1>3
        <3>2. FrameOK(s, f, n, u - 1)
            BY <3>1, <1>3, Zenon DEF InFrames
        <3> QED
            BY <3>1, <3>2, <1>3, Zenon DEF FrameOK
    <2> QED
        BY <2>1, <2>2, Zenon
<1>5. ASSUME NEW u \in 1..Len(t), NEW j \in 1..Len(t) PROVE FramesApart(t, u, j)
    <2>1. CASE u = 1 \/ j = 1
        BY <2>1, <1>1, <1>3, Zenon DEF FramesApart
    <2>2. CASE u # 1 /\ j # 1
        <3>1. u \in 2..Len(t) /\ j \in 2..Len(t)
            BY <2>2, <1>1, <1>3
        <3>2. FramesApart(s, u - 1, j - 1)
            BY <3>1, <1>3, Zenon DEF InFrames
        <3> QED
            BY <3>1, <3>2, <1>1, <1>3 DEF FramesApart
    <2> QED
        BY <2>1, <2>2, Zenon
<1>6. InFrames(t, f, n)
    BY <1>3, <1>4, <1>5, Zenon DEF InFrames
<1> QED
    BY <1>6, Zenon DEF t

\* The pipe that is taken is in no frame and leaves the free list.
LEMMA PipeTaken ==
    ASSUME PipesInv, Pipe # 0, usb_alloc_pipe
    PROVE  /\ Pipe \in 1..npipes' /\ npipes' \in Nat /\ npipes <= npipes'
           /\ FreeOK(freelist', npipes')
           /\ \A k \in 1..Len(freelist') : freelist'[k] # Pipe
           /\ \A u \in 1..Len(stack) : stack[u].pipe # Pipe
           /\ \A u \in 1..Len(stack), k \in 1..Len(freelist') : stack[u].pipe # freelist'[k]
<1>1. /\ npipes \in Nat /\ freelist \in Seq(1..npipes) /\ stack \in Seq(PortFrames)
      /\ \A j, k \in 1..Len(freelist) : freelist[j] = freelist[k] => j = k
    BY Zenon DEF PipesInv, FreeOK, InFrames
<1>2. \A u \in 1..Len(stack) : /\ stack[u].pipe \in Nat /\ stack[u].pipe <= npipes
                               /\ \A k \in 1..Len(freelist) : stack[u].pipe # freelist[k]
    BY <1>1, PipesOfFrames, Zenon DEF PipesInv, InFrames, FrameOK
<1>3. CASE freelist = <<>>
    <2>1. Pipe = npipes + 1 /\ npipes' = npipes + 1 /\ freelist' = <<>>
        BY <1>3, <1>1, Zenon DEF Pipe, usb_alloc_pipe
    <2>2. FreeOK(freelist', npipes') /\ Len(freelist') = 0
        BY <2>1, <1>1 DEF FreeOK
    <2> QED
        BY <2>1, <2>2, <1>1, <1>2
<1>4. CASE freelist # <<>>
    <2>1. Pipe = freelist[1] /\ npipes' = npipes /\ freelist' = Tail(freelist)
        BY <1>4, <1>1 DEF Pipe, usb_alloc_pipe
    <2>2. /\ freelist' \in Seq(1..npipes) /\ Len(freelist') = Len(freelist) - 1
          /\ Len(freelist) \in Nat \ {0}
          /\ \A k \in 1..Len(freelist') : /\ freelist'[k] = freelist[k + 1]
                                          /\ k + 1 \in 2..Len(freelist)
        BY <2>1, <1>1, <1>4
    <2>3. FreeOK(freelist', npipes')
        BY <2>1, <2>2, <1>1 DEF FreeOK
    <2> QED
        BY <2>1, <2>2, <2>3, <1>1, <1>2
<1> QED
    BY <1>3, <1>4, Zenon

\* Going on to the next port: the frame has no pipe any more.
LEMMA NextPortFrame ==
    ASSUME NEW r \in PortFrames, NEW n \in Nat
    PROVE  LET t == [r EXCEPT !.i = @ + 1, !.step = "detect", !.pipe = 0, !.found = @ + n]
           IN  t \in PortFrames /\ t.pipe = 0
<1>1. r.i + 1 \in Nat /\ r.found + n \in Nat /\ 0 \in Nat /\ "detect" \in PortSteps
    BY FrameFields, Zenon DEF PortSteps
<1> DEFINE t == [r EXCEPT !.i = r.i + 1, !.step = "detect", !.pipe = 0, !.found = r.found + n]
<1>2. t \in PortFrames
    BY <1>1, FrameChanged, Zenon
<1>4. t.pipe = 0
    BY Zenon DEF PortFrames
<1>3. t = [r EXCEPT !.i = @ + 1, !.step = "detect", !.pipe = 0, !.found = @ + n]
    BY Zenon DEF PortFrames
<1> HIDE DEF t
<1> QED
    BY <1>2, <1>3, <1>4, Zenon

LEMMA StepFrame ==
    ASSUME NEW r \in PortFrames,
           NEW step \in PortSteps
    PROVE  [r EXCEPT !.step = step] \in PortFrames /\ [r EXCEPT !.step = step].pipe = r.pipe
    BY Zenon DEF PortFrames

LEMMA NewFrame ==
    ASSUME NEW h \in Hubs \cup {0}
    PROVE  usb_enumerate(h) \in PortFrames /\ usb_enumerate(h).pipe = 0
    BY Zenon DEF PortFrames, PortSteps, usb_enumerate

LEMMA PipesInitInv == BusInit => PipesInv
<1> SUFFICES ASSUME BusInit PROVE PipesInv
    BY Zenon
<1>1. usb_enumerate(0) \in PortFrames /\ usb_enumerate(0).pipe = 0
    BY NewFrame, Zenon
<1>2. freelist = <<>> /\ npipes = 0 /\ stack = <<usb_enumerate(0)>>
    BY Zenon DEF BusInit
<1>3. FreeOK(freelist, npipes) /\ Len(freelist) = 0
    BY <1>2 DEF FreeOK
<1>4. /\ stack \in Seq(PortFrames) /\ Len(stack) = 1 /\ stack[1].pipe = 0
    BY <1>1, <1>2
<1>5. InFrames(stack, freelist, npipes)
    BY <1>2, <1>3, <1>4 DEF InFrames, FrameOK, FramesApart
<1> QED
    BY <1>3, <1>5, Zenon DEF PipesInv

\* A port is given up, or done with, and the free list is as it was.
LEMMA PortPassed ==
    ASSUME PipesInv, stack # <<>>, NEW n \in Nat, NextPort(n), UNCHANGED npipes,
           UNCHANGED freelist \/ usb_free_pipe(top.pipe)
    PROVE  PipesInv'
<1>1. stack \in Seq(PortFrames) /\ top \in PortFrames /\ top = stack[1]
    BY DEF PipesInv, InFrames, top
<1> DEFINE r == [top EXCEPT !.i = @ + 1, !.step = "detect", !.pipe = 0, !.found = @ + n]
<1>2. r \in PortFrames /\ r.pipe = 0
    BY <1>1, NextPortFrame, Zenon
<1>3. stack' = <<r>> \o Tail(stack)
    BY Zenon DEF NextPort, Becomes
<1>4. \/ freelist' = freelist
      \/ freelist' = <<stack[1].pipe>> \o freelist /\ stack[1].pipe # 0
    BY <1>1, Zenon DEF usb_free_pipe
<1> HIDE DEF r
<1>5. InFrames(<<r>> \o Tail(stack), freelist', npipes) /\ FreeOK(freelist', npipes)
    BY <1>2, <1>4, TopWithout, Zenon DEF PipesInv
<1> QED
    BY <1>3, <1>5, Zenon DEF PipesInv

\* A frame that keeps its pipe.
LEMMA FrameKept ==
    ASSUME PipesInv, stack # <<>>, NEW r \in PortFrames, r.pipe = top.pipe
    PROVE  InFrames(<<r>> \o Tail(stack), freelist, npipes)
<1>1. /\ stack \in Seq(PortFrames) /\ top = stack[1] /\ npipes \in Nat
      /\ Len(stack) \in Nat \ {0}
    BY DEF PipesInv, InFrames, FreeOK, top
<1>2. \A u \in 1..Len(stack) :
          stack[u].pipe <= npipes /\ \A k \in 1..Len(freelist) : stack[u].pipe # freelist[k]
    BY Zenon DEF PipesInv, InFrames, FrameOK
<1>3. r.pipe # 0 => \A u \in 2..Len(stack) : stack[u].pipe # r.pipe
    BY <1>1 DEF PipesInv, InFrames, FramesApart
<1>4. r.pipe <= npipes /\ \A k \in 1..Len(freelist) : r.pipe # freelist[k]
    BY <1>1, <1>2
<1>5. \A u \in 2..Len(stack) : \A k \in 1..Len(freelist) : stack[u].pipe # freelist[k]
    BY <1>1, <1>2
<1>6. npipes <= npipes
    BY <1>1
<1>7. InFrames(stack, freelist, npipes) /\ FreeOK(freelist, npipes)
    BY Zenon DEF PipesInv
<1> QED
    BY <1>1, <1>3, <1>4, <1>5, <1>6, <1>7, TopKeeps, Zenon

\* usb_set_address, and the failed request, which has the pipe back on the
\* free list.
LEMMA AddressSet == ASSUME PipesInv, usb_set_address PROVE PipesInv'
<1>1. stack # <<>> /\ Pipe # 0 /\ usb_alloc_pipe
    BY Zenon DEF usb_set_address, At
<1>2. stack \in Seq(PortFrames) /\ top \in PortFrames /\ npipes \in Nat /\ Len(stack) \in Nat
    BY <1>1 DEF PipesInv, InFrames, FreeOK, top
<1> DEFINE r == [top EXCEPT !.step = "configure", !.pipe = Pipe]
<1>3. /\ Pipe \in 1..npipes' /\ npipes' \in Nat /\ npipes <= npipes'
      /\ FreeOK(freelist', npipes')
      /\ \A k \in 1..Len(freelist') : freelist'[k] # Pipe
      /\ \A u \in 1..Len(stack) : stack[u].pipe # Pipe
      /\ \A u \in 1..Len(stack), k \in 1..Len(freelist') : stack[u].pipe # freelist'[k]
    BY <1>1, PipeTaken, Zenon
<1>4. r \in PortFrames /\ r.pipe = Pipe
    <2>1. Pipe \in Nat /\ "configure" \in PortSteps
        BY <1>3 DEF PortSteps
    <2> QED
        BY <1>2, <2>1, Zenon DEF PortFrames
<1>5. stack' = <<r>> \o Tail(stack)
    BY Zenon DEF usb_set_address, Becomes
<1> HIDE DEF r
<1>6. r.pipe <= npipes' /\ \A k \in 1..Len(freelist') : r.pipe # freelist'[k]
    BY <1>3, <1>4
<1>7. /\ r.pipe # 0 => \A u \in 2..Len(stack) : stack[u].pipe # r.pipe
      /\ \A u \in 2..Len(stack) : \A k \in 1..Len(freelist') : stack[u].pipe # freelist'[k]
    BY <1>2, <1>3, <1>4
<1>8. InFrames(stack, freelist, npipes)
    BY Zenon DEF PipesInv
<1>9. InFrames(<<r>> \o Tail(stack), freelist', npipes')
    BY <1>1, <1>2, <1>3, <1>4, <1>6, <1>7, <1>8, TopKeeps, Zenon
<1> QED
    BY <1>3, <1>5, <1>9, Zenon DEF PipesInv

LEMMA AddressNotSet == ASSUME PipesInv, AddressFails PROVE PipesInv'
<1>1. stack # <<>> /\ Pipe # 0 /\ NextPort(0)
    BY Zenon DEF AddressFails, At
<1>2. CASE freelist # <<>>
    <2>1. UNCHANGED <<freelist, npipes>>
        BY <1>2, Zenon DEF AddressFails
    <2> QED
        BY <1>1, <2>1, PortPassed, Zenon
<1>3. CASE freelist = <<>>
    <2>1. /\ stack \in Seq(PortFrames) /\ top \in PortFrames /\ npipes \in Nat
          /\ Len(stack) \in Nat
          /\ \A u \in 1..Len(stack) : stack[u].pipe \in Nat /\ stack[u].pipe <= npipes
        BY <1>1, PipesOfFrames DEF PipesInv, InFrames, FrameOK, FreeOK, top
    <2>2. Pipe = npipes + 1 /\ freelist' = <<npipes + 1>> /\ npipes' = npipes + 1
        BY <1>1, <1>3, <2>1, Zenon DEF AddressFails, Pipe
    <2> DEFINE r == [top EXCEPT !.i = @ + 1, !.step = "detect", !.pipe = 0, !.found = @ + 0]
    <2>3. r \in PortFrames /\ r.pipe = 0
        BY <2>1, NextPortFrame, Zenon
    <2>4. stack' = <<r>> \o Tail(stack)
        BY <1>1, Zenon DEF NextPort, Becomes
    <2> HIDE DEF r
    <2>5. /\ npipes' \in Nat /\ npipes <= npipes' /\ Len(freelist') = 1
          /\ freelist'[1] = npipes + 1
        BY <2>1, <2>2
    <2>6. FreeOK(freelist', npipes')
        BY <2>1, <2>2, <2>5 DEF FreeOK
    <2>7. /\ r.pipe <= npipes' /\ \A k \in 1..Len(freelist') : r.pipe # freelist'[k]
          /\ \A u \in 2..Len(stack) : \A k \in 1..Len(freelist') : stack[u].pipe # freelist'[k]
        BY <2>1, <2>2, <2>3, <2>5
    <2>8. InFrames(stack, freelist, npipes)
        BY Zenon DEF PipesInv
    <2>9. InFrames(<<r>> \o Tail(stack), freelist', npipes')
        BY <1>1, <2>1, <2>3, <2>5, <2>6, <2>7, <2>8, TopKeeps, Zenon
    <2> QED
        BY <2>4, <2>6, <2>9, Zenon DEF PipesInv
<1> QED
    BY <1>2, <1>3, Zenon

\* Two frames are put on the others, one after the other.
LEMMA TwoPut ==
    ASSUME NEW e1 \in PortFrames, NEW e2 \in PortFrames, NEW s \in Seq(PortFrames)
    PROVE  <<e1>> \o (<<e2>> \o s) = <<e1, e2>> \o s
<1> DEFINE z == <<e2>> \o s
           x == <<e1>> \o z
           y == <<e1, e2>> \o s
<1>1. /\ z \in Seq(PortFrames) /\ Len(z) = Len(s) + 1 /\ z[1] = e2
      /\ \A k \in 2..Len(z) : z[k] = s[k - 1]
    OBVIOUS
<1>2. /\ y \in Seq(PortFrames) /\ Len(y) = Len(s) + 2 /\ y[1] = e1 /\ y[2] = e2
      /\ \A k \in 3..Len(y) : y[k] = s[k - 2]
    OBVIOUS
<1> HIDE DEF z, y
<1>3. /\ x \in Seq(PortFrames) /\ Len(x) = Len(z) + 1 /\ x[1] = e1
      /\ \A k \in 2..Len(x) : x[k] = z[k - 1]
    BY <1>1
<1> HIDE DEF x
<1>4. Len(s) \in Nat
    OBVIOUS
<1>5. ASSUME NEW k \in 1..Len(x) PROVE x[k] = y[k]
    <2>1. CASE k = 1
        BY <2>1, <1>2, <1>3, Zenon
    <2>2. CASE k = 2
        BY <2>2, <1>1, <1>2, <1>3, <1>4
    <2>3. CASE k > 2
        <3>1. k \in 2..Len(x) /\ k - 1 \in 2..Len(z) /\ k \in 3..Len(y) /\ (k - 1) - 1 = k - 2
            BY <2>3, <1>1, <1>2, <1>3, <1>4
        <3> QED
            BY <3>1, <1>1, <1>2, <1>3, Zenon
    <2> QED
        BY <2>1, <2>2, <2>3, <1>1, <1>3, <1>4
<1>6. DOMAIN x = 1..Len(x) /\ DOMAIN y = 1..Len(x)
    BY <1>1, <1>2, <1>3, <1>4
<1>7. x = [k \in 1..Len(x) |-> x[k]] /\ y = [k \in 1..Len(x) |-> y[k]]
    BY <1>2, <1>3, <1>6
<1>8. x = y
    BY <1>5, <1>7, Zenon
<1> QED
    BY <1>8, Zenon DEF x, y, z

\* A hub is entered and left.
LEMMA HubEntered == ASSUME PipesInv, usb_hub_setup PROVE PipesInv'
<1>1. stack # <<>> /\ d0 \in Hubs
    BY Zenon DEF usb_hub_setup, At
<1>2. stack \in Seq(PortFrames) /\ top \in PortFrames
    BY <1>1 DEF PipesInv, InFrames, top
<1> DEFINE r == [top EXCEPT !.step = "hub"]
           inner == usb_enumerate(d0)
<1>3. r \in PortFrames /\ r.pipe = top.pipe
    BY <1>2, StepFrame, Zenon DEF PortSteps
<1>4. inner \in PortFrames /\ inner.pipe = 0
    BY <1>1, NewFrame, Zenon
<1>5. stack' = <<inner, r>> \o Tail(stack) /\ freelist' = freelist /\ npipes' = npipes
    BY Zenon DEF usb_hub_setup
<1> HIDE DEF r, inner
<1>6. InFrames(<<r>> \o Tail(stack), freelist, npipes)
    BY <1>1, <1>3, FrameKept, Zenon
<1>7. InFrames(<<inner>> \o (<<r>> \o Tail(stack)), freelist, npipes)
    BY <1>4, <1>6, TopAdded, Zenon DEF PipesInv
<1>8. Tail(stack) \in Seq(PortFrames)
    BY <1>1, <1>2
<1>9. <<inner>> \o (<<r>> \o Tail(stack)) = <<inner, r>> \o Tail(stack)
    BY <1>3, <1>4, <1>8, TwoPut, Zenon
<1> QED
    BY <1>5, <1>7, <1>9, Zenon DEF PipesInv

LEMMA HubLeft == ASSUME PipesInv, HubReturns PROVE PipesInv'
<1> DEFINE up == stack[2]
           n  == IF top.found # 0 THEN 1 ELSE 0
           r  == [up EXCEPT !.i = @ + 1, !.step = "detect", !.pipe = 0, !.found = @ + n]
<1>1. /\ Len(stack) > 1 /\ stack' = <<r>> \o Tail(Tail(stack))
      /\ usb_free_pipe(up.pipe) /\ npipes' = npipes
    BY Zenon DEF HubReturns
<1>2. stack \in Seq(PortFrames) /\ up \in PortFrames /\ n \in Nat
    BY <1>1 DEF PipesInv, InFrames
<1>3. r \in PortFrames /\ r.pipe = 0
    BY <1>2, NextPortFrame, Zenon
<1> HIDE DEF r
<1>4. /\ InFrames(Tail(stack), freelist, npipes) /\ Tail(stack) # <<>>
      /\ Tail(stack)[1] = up
    BY <1>1, TopDropped, Zenon DEF PipesInv
<1>5. \/ freelist' = freelist
      \/ freelist' = <<Tail(stack)[1].pipe>> \o freelist /\ Tail(stack)[1].pipe # 0
    BY <1>1, <1>4, Zenon DEF usb_free_pipe
<1>6. FreeOK(freelist, npipes)
    BY Zenon DEF PipesInv
<1>7. InFrames(<<r>> \o Tail(Tail(stack)), freelist', npipes) /\ FreeOK(freelist', npipes)
    BY <1>3, <1>4, <1>5, <1>6, TopWithout, Zenon
<1> QED
    BY <1>1, <1>7, Zenon DEF PipesInv

LEMMA PipesStep == PipesInv /\ [BusNext]_busVars => PipesInv'
<1> SUFFICES ASSUME PipesInv, [BusNext]_busVars PROVE PipesInv'
    BY Zenon
<1>1. ASSUME NEW ok \in BOOLEAN, detect(ok) PROVE PipesInv'
    <2>1. stack # <<>> /\ UNCHANGED <<freelist, npipes>>
        BY <1>1, Zenon DEF detect, At
    <2>2. CASE ok
        <3>1. stack \in Seq(PortFrames) /\ top \in PortFrames
            BY <2>1 DEF PipesInv, InFrames, top
        <3> DEFINE r == [top EXCEPT !.step = "reset"]
        <3>2. r \in PortFrames /\ r.pipe = top.pipe
            BY <3>1, StepFrame, Zenon DEF PortSteps
        <3>3. stack' = <<r>> \o Tail(stack)
            BY <1>1, <2>2, Zenon DEF detect, StepTo, Becomes
        <3> HIDE DEF r
        <3>4. InFrames(<<r>> \o Tail(stack), freelist, npipes)
            BY <2>1, <3>2, FrameKept, Zenon
        <3> QED
            BY <2>1, <3>3, <3>4, Zenon DEF PipesInv
    <2>3. CASE ~ok
        <3>1. NextPort(0)
            BY <1>1, <2>3, Zenon DEF detect
        <3> QED
            BY <2>1, <3>1, PortPassed, Zenon
    <2> QED
        BY <2>2, <2>3, Zenon
<1>2. ASSUME NEW ok \in BOOLEAN, reset(ok) PROVE PipesInv'
    <2>1. stack # <<>> /\ UNCHANGED <<freelist, npipes>>
        BY <1>2, Zenon DEF reset, At
    <2>2. CASE ok
        <3>1. stack \in Seq(PortFrames) /\ top \in PortFrames
            BY <2>1 DEF PipesInv, InFrames, top
        <3> DEFINE r == [top EXCEPT !.step = "address"]
        <3>2. r \in PortFrames /\ r.pipe = top.pipe
            BY <3>1, StepFrame, Zenon DEF PortSteps
        <3>3. stack' = <<r>> \o Tail(stack)
            BY <1>2, <2>2, Zenon DEF reset, StepTo, Becomes
        <3> HIDE DEF r
        <3>4. InFrames(<<r>> \o Tail(stack), freelist, npipes)
            BY <2>1, <3>2, FrameKept, Zenon
        <3> QED
            BY <2>1, <3>3, <3>4, Zenon DEF PipesInv
    <2>3. CASE ~ok
        <3>1. NextPort(0)
            BY <1>2, <2>3, Zenon DEF reset
        <3> QED
            BY <2>1, <3>1, PortPassed, Zenon
    <2> QED
        BY <2>2, <2>3, Zenon
<1>3. CASE NoAddress
    <2>1. stack # <<>> /\ NextPort(0) /\ UNCHANGED <<freelist, npipes>>
        BY <1>3, Zenon DEF NoAddress, At
    <2> QED
        BY <2>1, PortPassed, Zenon
<1>4. CASE AddressFails
    BY <1>4, AddressNotSet, Zenon
<1>5. CASE usb_set_address
    BY <1>5, AddressSet, Zenon
<1>6. CASE Unusable
    <2>1. stack # <<>> /\ NextPort(0) /\ usb_free_pipe(top.pipe) /\ UNCHANGED npipes
        BY <1>6, Zenon DEF Unusable, At
    <2> QED
        BY <2>1, PortPassed, Zenon
<1>7. CASE Attached
    <2>1. stack # <<>> /\ NextPort(1) /\ usb_free_pipe(top.pipe) /\ UNCHANGED npipes
        BY <1>7, Zenon DEF Attached, At
    <2> QED
        BY <2>1, PortPassed, Zenon
<1>8. CASE usb_hub_setup
    BY <1>8, HubEntered, Zenon
<1>9. CASE HubReturns
    BY <1>9, HubLeft, Zenon
<1>10. CASE UNCHANGED busVars
    BY <1>10, Zenon DEF PipesInv, busVars
<1> QED
    BY <1>1, <1>2, <1>3, <1>4, <1>5, <1>6, <1>7, <1>8, <1>9, <1>10, Zenon DEF BusNext

\* The control pipe of a device or hub that is being set up (usb_set_address,
\* usb_free_pipe, usb_hub_setup) is in no other frame and not on the free
\* list, for every tree of hubs, every pool, and wherever requests fail.
THEOREM PipesStayExclusive == BusSpec => []PipesExclusive
<1>1. PipesInv => PipesExclusive
    <2> SUFFICES ASSUME PipesInv PROVE PipesExclusive
        BY Zenon
    <2>1. \A u, j \in 1..Len(stack) :
              (stack[u].pipe # 0 /\ stack[u].pipe = stack[j].pipe) => u = j
        BY Zenon DEF PipesInv, InFrames, FramesApart
    <2>2. \A u \in 1..Len(stack), k \in 1..Len(freelist) : stack[u].pipe # freelist[k]
        BY Zenon DEF PipesInv, InFrames, FrameOK
    <2>3. \A j, k \in 1..Len(freelist) : freelist[j] = freelist[k] => j = k
        BY Zenon DEF PipesInv, FreeOK
    <2> QED
        BY <2>1, <2>2, <2>3, Zenon DEF PipesExclusive
<1> QED
    BY <1>1, PipesInitInv, PipesStep, PTL DEF BusSpec
=============================================================================
