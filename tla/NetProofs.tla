----------------------------- MODULE NetProofs ------------------------------
(***************************************************************************)
(* Proofs about the network: the transmit ring sends every frame intact and *)
(* the receive ring is a bounded FIFO, for every number of descriptors; the *)
(* ARP cache and the next hop, for every set of hosts and MAC addresses and *)
(* every size of the cache; and the DHCP client, for every set of servers  *)
(* and addresses and any loss, repetition and delay of messages.           *)
(***************************************************************************)
EXTENDS E1000Tx, E1000Rx, Dhcp, IpStack, Lemmas

\* A leaf that names no prover is tried with SMT, then with Zenon, for at most 20 seconds each.
USE SMTT(20), ZenonT(20)

-----------------------------------------------------------------------------
(* The transmit ring, E1000Tx                                              *)

TxOut(i) == Used(TX_DESC_COUNT, i, TDH) < Used(TX_DESC_COUNT, TDT, TDH)

TxTypeOK ==
    /\ tx_page \in Nat /\ sends \in Nat /\ late \in BOOLEAN
    /\ tx_ring \in [TxSlots -> [dd : BOOLEAN, frame : Nat]]
    /\ TDH \in TxSlots /\ TDT \in TxSlots /\ tx_tail = TDT
    /\ tx_pc \in {"idle", "publish", "wait"}
    /\ wire \in Seq(Nat \X Nat)

\* Descriptors that are out have no DD and were made in the order of the ring,
\* after all that went out before them.
TxOrder ==
    /\ \A i \in TxSlots : TxOut(i) =>
          /\ ~tx_ring[i].dd
          /\ \A j \in TxSlots : TxOut(j) /\ Used(TX_DESC_COUNT, i, TDH) < Used(TX_DESC_COUNT, j, TDH) =>
                tx_ring[i].frame < tx_ring[j].frame
          /\ \A k \in DOMAIN wire : wire[k][1] < tx_ring[i].frame
    /\ \A j, k \in DOMAIN wire : j < k => wire[j][1] < wire[k][1]

\* The call that is about to publish has the highest number, and a slot.
TxNumbers ==
    /\ \A i \in TxSlots : tx_ring[i].frame =< sends
    /\ \A k \in DOMAIN wire : wire[k][1] =< sends
    /\ tx_pc = "publish" =>
          /\ tx_page = sends /\ TxSucc(tx_tail) # TDH
          /\ \A i \in TxSlots : tx_ring[i].frame < sends
          /\ \A k \in DOMAIN wire : wire[k][1] < sends

\* Without a late frame at most one descriptor is out, and its call waits for it.
TxOne ==
    ~late => /\ \A k \in DOMAIN wire : wire[k][1] = wire[k][2]
             /\ TDH # TDT => /\ tx_pc = "wait" /\ TxSucc(TDH) = TDT
                             /\ tx_ring[TDH].frame = tx_page

TxDone == \A i \in TxSlots : i # tx_tail /\ tx_ring[i].frame # 0 => tx_ring[i].dd \/ TxOut(i)

TxInv == TxTypeOK /\ TxOrder /\ TxNumbers /\ TxOne /\ TxDone

\* What is true of slot i and its distance from slot t.
Apart(n, t, i) ==
    /\ Used(n, i, t) \in 0..(n - 1)
    /\ \A j \in 0..(n - 1) : Used(n, i, t) = Used(n, j, t) => i = j
    /\ Used(n, t, t) = 0 /\ Used(n, t, Step(n, t)) = n - 1
    /\ Step(n, t) \in 0..(n - 1) /\ Step(n, i) \in 0..(n - 1)
    /\ i # t => Used(n, i, t) >= 1 /\ Used(n, i, Step(n, t)) = Used(n, i, t) - 1
    /\ Step(n, i) # t => Used(n, Step(n, i), t) = Used(n, i, t) + 1
    /\ Step(n, i) = Step(n, t) => i = t

LEMMA Distances ==
    ASSUME NEW n \in Nat \ {0}, NEW t \in 0..(n - 1), NEW i \in 0..(n - 1)
    PROVE  Apart(n, t, i)
<1> DEFINE s == Step(n, t)
           r == Step(n, i)
<1>1. s = (IF t = n - 1 THEN 0 ELSE t + 1) /\ s \in 0..(n - 1)
  BY StepIs, Zenon
<1>2. r = (IF i = n - 1 THEN 0 ELSE i + 1) /\ r \in 0..(n - 1)
  BY StepIs, Zenon
<1>3. Used(n, i, t) = (IF i >= t THEN i - t ELSE i + n - t) /\ Used(n, i, t) \in 0..(n - 1)
  BY UsedIs, Zenon
<1>4. Used(n, t, t) = (IF t >= t THEN t - t ELSE t + n - t)
  BY UsedIs, Zenon
<1>5. Used(n, i, s) = (IF i >= s THEN i - s ELSE i + n - s)
  BY <1>1, UsedIs, Zenon
<1>6. Used(n, t, s) = (IF t >= s THEN t - s ELSE t + n - s)
  BY <1>1, UsedIs, Zenon
<1>7. Used(n, r, t) = (IF r >= t THEN r - t ELSE r + n - t)
  BY <1>2, UsedIs, Zenon
<1>8. ASSUME NEW j \in 0..(n - 1), Used(n, i, t) = Used(n, j, t)
      PROVE  i = j
  <2>1. Used(n, j, t) = (IF j >= t THEN j - t ELSE j + n - t)
    BY UsedIs, Zenon
  <2> QED
    BY <1>3, <1>8, <2>1
<1> HIDE DEF s, r
<1>9. Used(n, t, t) = 0 /\ Used(n, t, s) = n - 1
  BY <1>1, <1>4, <1>6
<1>10. i # t => Used(n, i, t) >= 1 /\ Used(n, i, s) = Used(n, i, t) - 1
  BY <1>1, <1>3, <1>5
<1>11. r # t => Used(n, r, t) = Used(n, i, t) + 1
  BY <1>2, <1>3, <1>7
<1>12. r = s => i = t
  BY <1>1, <1>2
<1> QED
  BY <1>1, <1>2, <1>3, <1>8, <1>9, <1>10, <1>11, <1>12, Zenon DEF s, r, Apart

LEMMA TxApart == \A t, i \in TxSlots : Apart(TX_DESC_COUNT, t, i)
BY TxAssumption, Distances, Zenon DEF TxSlots

LEMMA TxInvGives == TxInv => FramesIntact
BY Zenon DEF TxInv, TxTypeOK, TxOrder, TxOne, TxDone, TxOut, FramesIntact, Used

LEMMA TxInitInv == TxInit => TxInv
<1> SUFFICES ASSUME TxInit PROVE TxInv
  BY Zenon
<1>0. 0 \in TxSlots /\ wire = <<>>
  BY TxAssumption DEF TxSlots, TxInit
<1>1. TxTypeOK
  BY <1>0 DEF TxInit, TxTypeOK
<1>2. \A i \in TxSlots : ~TxOut(i)
  <2>1. Used(TX_DESC_COUNT, 0, 0) = 0 /\ \A i \in TxSlots : Used(TX_DESC_COUNT, i, 0) \in 0..(TX_DESC_COUNT - 1)
    BY <1>0, TxApart, Zenon DEF Apart
  <2> QED
    BY <2>1, TxAssumption DEF TxOut, TxInit
<1> QED
  BY <1>1, <1>2 DEF TxInit, TxInv, TxOrder, TxNumbers, TxOne, TxDone

\* What is out after the device has taken the oldest descriptor, and after one
\* more is published.
LEMMA TxOutMoves ==
    ASSUME TxTypeOK
    PROVE  /\ TDH # TDT /\ TDH' = TxSucc(TDH) /\ TDT' = TDT =>
                /\ TDH' \in TxSlots /\ TxOut(TDH)
                /\ \A i \in TxSlots : TxOut(i)' <=> i # TDH /\ TxOut(i)
                /\ \A i \in TxSlots : i # TDH =>
                      Used(TX_DESC_COUNT, i, TDH) >= 1
                      /\ Used(TX_DESC_COUNT, i, TDH') = Used(TX_DESC_COUNT, i, TDH) - 1
           /\ TxSucc(TDT) # TDH /\ TDT' = TxSucc(TDT) /\ TDH' = TDH =>
                /\ TDT' \in TxSlots /\ TDT' # TDT
                /\ \A i \in TxSlots : TxOut(i)' <=> i = TDT \/ TxOut(i)
                /\ \A i \in TxSlots : TxOut(i) =>
                      Used(TX_DESC_COUNT, i, TDH) < Used(TX_DESC_COUNT, TDT, TDH)
           /\ \A i \in TxSlots : Used(TX_DESC_COUNT, i, TDH) \in Nat
           /\ Used(TX_DESC_COUNT, TDH, TDH) = 0
           /\ ~TxOut(TDT)
<1> DEFINE n == TX_DESC_COUNT
           d(i) == Used(n, i, TDH)
<1>1. n \in Nat \ {0} /\ TxSlots = 0..(n - 1) /\ TDH \in 0..(n - 1) /\ TDT \in 0..(n - 1)
  BY TxAssumption, Zenon DEF TxTypeOK, TxSlots
<1>2. \A i \in TxSlots : TxSucc(i) = Step(n, i)
  BY Zenon DEF TxSucc, Step
<1>3. \A i \in TxSlots :
        /\ d(i) \in 0..(n - 1)
        /\ \A j \in TxSlots : d(i) = d(j) => i = j
        /\ i # TDH => d(i) >= 1 /\ Used(n, i, Step(n, TDH)) = d(i) - 1
        /\ Step(n, i) # TDH => Used(n, Step(n, i), TDH) = d(i) + 1
        /\ Step(n, i) \in TxSlots
  <2> SUFFICES ASSUME NEW i \in TxSlots
               PROVE  /\ d(i) \in 0..(n - 1)
                      /\ \A j \in TxSlots : d(i) = d(j) => i = j
                      /\ i # TDH => d(i) >= 1 /\ Used(n, i, Step(n, TDH)) = d(i) - 1
                      /\ Step(n, i) # TDH => Used(n, Step(n, i), TDH) = d(i) + 1
                      /\ Step(n, i) \in TxSlots
    BY Zenon
  <2>1. i \in 0..(n - 1)
    BY <1>1, Zenon
  <2>2. /\ Used(n, i, TDH) \in 0..(n - 1)
        /\ \A j \in 0..(n - 1) : Used(n, i, TDH) = Used(n, j, TDH) => i = j
        /\ i # TDH => /\ Used(n, i, TDH) >= 1
                      /\ Used(n, i, Step(n, TDH)) = Used(n, i, TDH) - 1
        /\ Step(n, i) # TDH => Used(n, Step(n, i), TDH) = Used(n, i, TDH) + 1
        /\ Step(n, i) \in 0..(n - 1)
    <3>1. Apart(n, TDH, i)
      BY <1>1, TxApart, Zenon
    <3> QED
      BY <3>1, Zenon DEF Apart
  <2> QED
    BY <1>1, <2>2, Zenon
<1>4. d(TDH) = 0 /\ Used(n, TDH, Step(n, TDH)) = n - 1
  <2>1. Apart(n, TDH, TDH)
    BY <1>1, TxApart, Zenon
  <2> QED
    BY <2>1, Zenon DEF Apart
<1>5. ASSUME TDH # TDT, TDH' = TxSucc(TDH), TDT' = TDT
      PROVE  /\ TDH' \in TxSlots /\ TxOut(TDH)
             /\ \A i \in TxSlots : TxOut(i)' <=> i # TDH /\ TxOut(i)
             /\ \A i \in TxSlots : i # TDH =>
                      d(i) >= 1 /\ Used(TX_DESC_COUNT, i, TDH') = d(i) - 1
  <2>1. TDH' = Step(n, TDH) /\ TDH' \in TxSlots
    BY <1>1, <1>2, <1>3, <1>5, Zenon
  <2>2. d(TDT) >= 1 /\ Used(n, TDT, TDH') = d(TDT) - 1 /\ d(TDT) \in 0..(n - 1)
    BY <1>1, <1>3, <1>5, <2>1, Zenon
  <2>3. TxOut(TDH)
    BY <1>1, <1>4, <2>2 DEF TxOut
  <2>4. ASSUME NEW i \in TxSlots, i # TDH
        PROVE  /\ d(i) >= 1 /\ Used(n, i, TDH') = d(i) - 1
               /\ TxOut(i)' <=> TxOut(i)
    <3>1. d(i) >= 1 /\ Used(n, i, TDH') = d(i) - 1 /\ d(i) \in 0..(n - 1)
      BY <1>3, <2>1, <2>4, Zenon
    <3> QED
      BY <1>1, <1>5, <2>2, <3>1 DEF TxOut
  <2>5. ASSUME NEW i \in TxSlots, i = TDH
        PROVE  ~TxOut(i)'
    <3>1. Used(n, i, TDH') = n - 1
      BY <1>4, <2>1, <2>5, Zenon
    <3>2. Used(n, TDT', TDH') = d(TDT) - 1
      BY <1>5, <2>2, Zenon
    <3> QED
      BY <1>1, <2>2, <3>1, <3>2 DEF TxOut
  <2> QED
    BY <2>1, <2>3, <2>4, <2>5, Zenon
<1>6. ASSUME TxSucc(TDT) # TDH, TDT' = TxSucc(TDT), TDH' = TDH
      PROVE  /\ TDT' \in TxSlots /\ TDT' # TDT
             /\ \A i \in TxSlots : TxOut(i)' <=> i = TDT \/ TxOut(i)
  <2>1. TDT' = Step(n, TDT) /\ TDT' \in TxSlots
    BY <1>1, <1>2, <1>3, <1>6, Zenon
  <2>2. d(TDT') = d(TDT) + 1 /\ d(TDT) \in 0..(n - 1)
    BY <1>1, <1>3, <1>6, <2>1, Zenon
  <2>3. TDT' # TDT
    BY <1>1, <2>2
  <2>4. ASSUME NEW i \in TxSlots
        PROVE  TxOut(i)' <=> i = TDT \/ TxOut(i)
    <3>1. d(i) \in 0..(n - 1) /\ (d(i) = d(TDT) => i = TDT)
      BY <1>1, <1>3, Zenon
    <3> QED
      BY <1>1, <1>6, <2>2, <3>1 DEF TxOut
  <2> QED
    BY <2>1, <2>3, <2>4, Zenon
<1>7. \A i \in TxSlots : d(i) \in Nat
  <2> SUFFICES ASSUME NEW i \in TxSlots PROVE d(i) \in Nat
    BY Zenon
  <2>1. d(i) \in 0..(n - 1)
    BY <1>3, Zenon
  <2> QED
    BY <1>1, <2>1
<1>8. ~TxOut(TDT)
  BY <1>1, <1>7 DEF TxOut
<1>9. \A i \in TxSlots : TxOut(i) => d(i) < d(TDT)
  BY Zenon DEF TxOut
<1> QED
  BY <1>4, <1>5, <1>6, <1>7, <1>8, <1>9, Zenon

LEMMA TxTransmit ==
    ASSUME TxInv, transmit
    PROVE  TxInv'
<1> USE DEF TxInv
<1>1. /\ TDH # TDT /\ TDH' = TxSucc(TDH)
      /\ UNCHANGED <<tx_page, TDT, tx_tail, late, tx_pc, sends>>
      /\ wire' = Append(wire, <<tx_ring[TDH].frame, tx_page>>)
      /\ tx_ring' = [tx_ring EXCEPT ![TDH].dd = TRUE]
  BY Zenon DEF transmit
<1>2. /\ TDH' \in TxSlots /\ TxOut(TDH)
      /\ \A i \in TxSlots : TxOut(i)' <=> i # TDH /\ TxOut(i)
      /\ \A i \in TxSlots : i # TDH =>
              Used(TX_DESC_COUNT, i, TDH) >= 1
              /\ Used(TX_DESC_COUNT, i, TDH') = Used(TX_DESC_COUNT, i, TDH) - 1
      /\ Used(TX_DESC_COUNT, TDH, TDH) = 0
      /\ \A i \in TxSlots : Used(TX_DESC_COUNT, i, TDH) \in Nat
  BY <1>1, TxOutMoves, Zenon
<1>3. /\ tx_ring' \in [TxSlots -> [dd : BOOLEAN, frame : Nat]]
      /\ \A i \in TxSlots : tx_ring'[i].frame = tx_ring[i].frame
      /\ \A i \in TxSlots : i # TDH => tx_ring'[i] = tx_ring[i]
      /\ tx_ring'[TDH].dd
  BY <1>1, Zenon DEF TxTypeOK
<1>4. /\ wire' \in Seq(Nat \X Nat) /\ Len(wire) \in Nat /\ Len(wire') = Len(wire) + 1
      /\ DOMAIN wire = 1..Len(wire) /\ DOMAIN wire' = 1..(Len(wire) + 1)
      /\ \A k \in DOMAIN wire : wire'[k] = wire[k]
      /\ wire'[Len(wire) + 1] = <<tx_ring[TDH].frame, tx_page>>
  BY <1>1 DEF TxTypeOK
<1>5. TxTypeOK'
  BY <1>1, <1>2, <1>3, <1>4, Zenon DEF TxTypeOK
<1>6. \A k \in DOMAIN wire : wire[k][1] < tx_ring[TDH].frame
  BY <1>2, Zenon DEF TxOrder, TxTypeOK
<1>7. ASSUME NEW i \in TxSlots, TxOut(i)'
      PROVE  /\ ~tx_ring'[i].dd
             /\ \A j \in TxSlots : TxOut(j)' /\ Used(TX_DESC_COUNT, i, TDH)' < Used(TX_DESC_COUNT, j, TDH)' =>
                  tx_ring'[i].frame < tx_ring'[j].frame
             /\ \A k \in DOMAIN wire' : wire'[k][1] < tx_ring'[i].frame
  <2>1. i # TDH /\ TxOut(i) /\ tx_ring'[i] = tx_ring[i]
    BY <1>2, <1>3, <1>7, Zenon
  <2>2. ~tx_ring'[i].dd
    BY <2>1, Zenon DEF TxOrder
  <2>3. \A j \in TxSlots : TxOut(j)' /\ Used(TX_DESC_COUNT, i, TDH)' < Used(TX_DESC_COUNT, j, TDH)' =>
                  tx_ring'[i].frame < tx_ring'[j].frame
    BY <1>2, <1>3, <2>1 DEF TxOrder
  <2>4. tx_ring[TDH].frame < tx_ring[i].frame
    BY <1>2, <2>1 DEF TxOrder, TxTypeOK
  <2>5. \A k \in DOMAIN wire : wire'[k][1] < tx_ring'[i].frame
    BY <1>4, <2>1, Zenon DEF TxOrder
  <2>6. wire'[Len(wire) + 1][1] < tx_ring'[i].frame
    BY <1>4, <2>1, <2>4
  <2>7. \A k \in DOMAIN wire' : k = Len(wire) + 1 \/ k \in DOMAIN wire
    BY <1>4
  <2> QED
    BY <2>2, <2>3, <2>5, <2>6, <2>7, Zenon
<1>8. \A j, k \in DOMAIN wire' : j < k => wire'[j][1] < wire'[k][1]
  <2> SUFFICES ASSUME NEW j \in DOMAIN wire', NEW k \in DOMAIN wire', j < k
               PROVE  wire'[j][1] < wire'[k][1]
    BY Zenon
  <2>1. j \in DOMAIN wire /\ wire'[j] = wire[j]
    <3>1. j \in 1..(Len(wire) + 1) /\ k \in 1..(Len(wire) + 1) /\ Len(wire) \in Nat
      BY <1>4, Zenon
    <3>2. j \in 1..Len(wire)
      BY <3>1
    <3> QED
      BY <1>4, <3>2, Zenon
  <2>2. CASE k \in DOMAIN wire
    BY <1>4, <2>1, <2>2, Zenon DEF TxOrder
  <2>3. CASE k = Len(wire) + 1
    <3>1. wire'[k][1] = tx_ring[TDH].frame
      BY <1>4, <2>3
    <3> QED
      BY <1>6, <2>1, <3>1, Zenon
  <2> QED
    BY <1>4, <2>2, <2>3
<1>9. TxOrder'
  BY <1>7, <1>8, Zenon DEF TxOrder
<1>10. TxNumbers'
  <2>1. tx_pc = "publish" => TxSucc(tx_tail) # TDH'
    <3>1. \A i, j \in TxSlots : TxSucc(i) = TxSucc(j) => i = j
      BY TxApart, Zenon DEF Apart, TxSucc, Step
    <3> QED
      BY <1>1, <3>1, Zenon DEF TxTypeOK
  <2>2. \A k \in DOMAIN wire' : wire'[k][1] =< sends /\ (tx_pc = "publish" => wire'[k][1] < sends)
    <3>1. wire'[Len(wire) + 1][1] = tx_ring[TDH].frame /\ TDH \in TxSlots
      BY <1>4 DEF TxTypeOK
    <3>2. \A k \in DOMAIN wire' : k = Len(wire) + 1 \/ (k \in DOMAIN wire /\ wire'[k] = wire[k])
      BY <1>4
    <3> QED
      BY <3>1, <3>2, Zenon DEF TxNumbers
  <2> QED
    BY <1>1, <1>3, <2>1, <2>2 DEF TxNumbers
<1>11. TxOne'
  BY <1>1, <1>4 DEF TxOne, TxTypeOK
<1>12. TxDone'
  BY <1>1, <1>2, <1>3 DEF TxDone
<1> QED
  BY <1>5, <1>9, <1>10, <1>11, <1>12, Zenon

LEMMA TxPublish ==
    ASSUME TxInv, e1000_send_publish
    PROVE  TxInv'
<1> USE DEF TxInv
<1>1. /\ tx_pc = "publish" /\ tx_pc' = "wait"
      /\ tx_ring' = [tx_ring EXCEPT ![TDT] = [dd |-> FALSE, frame |-> sends]]
      /\ TDT' = TxSucc(TDT) /\ tx_tail' = TxSucc(TDT) /\ TxSucc(TDT) # TDH
      /\ UNCHANGED <<tx_page, TDH, late, sends, wire>>
      /\ tx_page = sends
  BY Zenon DEF e1000_send_publish, TxTypeOK, TxNumbers
<1>2. /\ TDT' \in TxSlots /\ TDT' # TDT
      /\ \A i \in TxSlots : TxOut(i)' <=> i = TDT \/ TxOut(i)
      /\ \A i \in TxSlots : TxOut(i) =>
            Used(TX_DESC_COUNT, i, TDH) < Used(TX_DESC_COUNT, TDT, TDH)
      /\ \A i \in TxSlots : Used(TX_DESC_COUNT, i, TDH) \in Nat
      /\ ~TxOut(TDT)
  BY <1>1, TxOutMoves, Zenon
<1>3. /\ tx_ring' \in [TxSlots -> [dd : BOOLEAN, frame : Nat]]
      /\ \A i \in TxSlots : i # TDT => tx_ring'[i] = tx_ring[i]
      /\ tx_ring'[TDT].dd = FALSE /\ tx_ring'[TDT].frame = sends
  BY <1>1, Zenon DEF TxTypeOK
<1>4. TxTypeOK'
  BY <1>1, <1>2, <1>3, Zenon DEF TxTypeOK
<1>5. \A i \in TxSlots : i # TDT => tx_ring'[i].frame < sends
  BY <1>1, <1>3, Zenon DEF TxNumbers
<1>6. ASSUME NEW i \in TxSlots, TxOut(i)'
      PROVE  /\ ~tx_ring'[i].dd
             /\ \A j \in TxSlots : TxOut(j)' /\ Used(TX_DESC_COUNT, i, TDH)' < Used(TX_DESC_COUNT, j, TDH)' =>
                  tx_ring'[i].frame < tx_ring'[j].frame
             /\ \A k \in DOMAIN wire' : wire'[k][1] < tx_ring'[i].frame
  <2>1. CASE i = TDT
    <3>1. \A j \in TxSlots : TxOut(j)' => ~(Used(TX_DESC_COUNT, i, TDH) < Used(TX_DESC_COUNT, j, TDH))
      <4> SUFFICES ASSUME NEW j \in TxSlots, TxOut(j)'
                   PROVE  ~(Used(TX_DESC_COUNT, TDT, TDH) < Used(TX_DESC_COUNT, j, TDH))
        BY <2>1, Zenon
      <4>1. TDT \in TxSlots /\ Used(TX_DESC_COUNT, TDT, TDH) \in Nat
        BY <1>2, Zenon DEF TxTypeOK
      <4>2. j = TDT \/ Used(TX_DESC_COUNT, j, TDH) < Used(TX_DESC_COUNT, TDT, TDH)
        BY <1>2, Zenon
      <4>3. Used(TX_DESC_COUNT, j, TDH) \in Nat
        BY <1>2, Zenon
      <4> QED
        BY <4>1, <4>2, <4>3
    <3> QED
      BY <1>1, <1>3, <2>1, <3>1, Zenon DEF TxNumbers
  <2>2. CASE i # TDT /\ TxOut(i)
    <3>1. ASSUME NEW j \in TxSlots, TxOut(j)',
                 Used(TX_DESC_COUNT, i, TDH)' < Used(TX_DESC_COUNT, j, TDH)'
          PROVE  tx_ring'[i].frame < tx_ring'[j].frame
      <4>1. CASE j = TDT
        BY <1>3, <1>5, <2>2, <4>1, Zenon
      <4>2. CASE j # TDT
        BY <1>1, <1>2, <1>3, <2>2, <3>1, <4>2, Zenon DEF TxOrder
      <4> QED
        BY <4>1, <4>2, Zenon
    <3> QED
      BY <1>1, <1>3, <2>2, <3>1, Zenon DEF TxOrder
  <2> QED
    BY <1>2, <1>6, <2>1, <2>2, Zenon
<1>7. TxOrder'
  BY <1>1, <1>6, Zenon DEF TxOrder
<1>8. TxNumbers'
  BY <1>1, <1>3, <1>5, <1>4 DEF TxNumbers, TxTypeOK
<1>9. TxOne'
  BY <1>1, <1>3, Zenon DEF TxOne, TxTypeOK
<1>10. TxDone'
  BY <1>1, <1>2, <1>3, Zenon DEF TxDone, TxTypeOK
<1> QED
  BY <1>4, <1>7, <1>8, <1>9, <1>10, Zenon

\* A wait that ends without the device being done is late.
LEMMA TxDoneStep ==
    ASSUME TxInv, e1000_send_done
    PROVE  TxInv'
<1> USE DEF TxInv
<1>1. /\ tx_pc' = "idle"
      /\ UNCHANGED <<tx_page, tx_ring, TDH, TDT, tx_tail, sends, wire>>
  BY Zenon DEF e1000_send_done
<1>2. late' \in BOOLEAN
  BY Zenon DEF e1000_send_done
<1>3. ~late' => ~late /\ \A i \in TxSlots : TxSucc(i) = tx_tail => tx_ring[i].dd
  BY Zenon DEF e1000_send_done
<1>4. TxOne'
  <2> SUFFICES ASSUME ~late'
               PROVE  /\ \A k \in DOMAIN wire : wire[k][1] = wire[k][2]
                      /\ TDH = TDT
    BY <1>1, Zenon DEF TxOne
  <2>1. ASSUME TDH # TDT PROVE FALSE
    <3>1. TDH \in TxSlots /\ TxSucc(TDH) = tx_tail
      BY <1>3, <2>1, Zenon DEF TxOne, TxTypeOK
    <3>2. tx_ring[TDH].dd
      BY <1>3, <3>1, Zenon
    <3>3. TxOut(TDH)
      <4>1. Used(TX_DESC_COUNT, TDH, TDH) = 0 /\ Used(TX_DESC_COUNT, TDT, TDH) >= 1
        <5>1. Apart(TX_DESC_COUNT, TDH, TDT)
          BY TxApart, Zenon DEF TxTypeOK
        <5> QED
          BY <2>1, <5>1, Zenon DEF Apart
      <4>2. Used(TX_DESC_COUNT, TDT, TDH) \in Nat
        BY TxOutMoves, Zenon DEF TxTypeOK
      <4> QED
        BY <4>1, <4>2 DEF TxOut
    <3> QED
      BY <3>1, <3>2, <3>3, Zenon DEF TxOrder
  <2> QED
    BY <1>3, <2>1, Zenon DEF TxOne
<1>5. TxTypeOK'
  BY <1>1, <1>2, Zenon DEF TxTypeOK
<1> QED
  BY <1>1, <1>4, <1>5, Zenon DEF TxOrder, TxNumbers, TxDone, TxOut

LEMMA TxStep == TxInv /\ [TxNext]_txVars => TxInv'
<1> SUFFICES ASSUME TxInv, [TxNext]_txVars
             PROVE  TxInv'
  BY Zenon
<1>1. CASE e1000_send_refused
  <2>1. /\ tx_pc = "idle" /\ sends' = sends + 1
        /\ UNCHANGED <<tx_page, tx_ring, TDH, TDT, tx_tail, late, tx_pc, wire>>
    BY <1>1, Zenon DEF e1000_send_refused
  <2>2. TxTypeOK'
    BY <2>1 DEF TxInv, TxTypeOK
  <2>3. TxNumbers'
    BY <2>1 DEF TxInv, TxTypeOK, TxNumbers
  <2>4. TxOrder' /\ TxDone' /\ TxOne'
    BY <2>1, Zenon DEF TxInv, TxOrder, TxDone, TxOne, TxOut
  <2> QED
    BY <2>2, <2>3, <2>4, Zenon DEF TxInv
<1>2. CASE e1000_send_copy
  <2>1. /\ tx_pc = "idle" /\ tx_pc' = "publish" /\ sends' = sends + 1 /\ tx_page' = sends'
        /\ TxSucc(tx_tail) # TDH
        /\ UNCHANGED <<tx_ring, TDH, TDT, tx_tail, late, wire>>
    BY <1>2, Zenon DEF e1000_send_copy, RingFull
  <2>2. TxTypeOK'
    BY <2>1 DEF TxInv, TxTypeOK
  <2>3. TxNumbers'
    BY <2>1 DEF TxInv, TxTypeOK, TxNumbers
  <2>4. TxOrder' /\ TxDone' /\ TxOne'
    BY <2>1, Zenon DEF TxInv, TxOrder, TxDone, TxOne, TxOut
  <2> QED
    BY <2>2, <2>3, <2>4, Zenon DEF TxInv
<1>3. CASE UNCHANGED txVars
  BY <1>3, Zenon DEF txVars, TxInv, TxTypeOK, TxOrder, TxNumbers, TxOne, TxDone, TxOut
<1> QED
  BY <1>1, <1>2, <1>3, TxPublish, TxDoneStep, TxTransmit, Zenon DEF TxNext

\* Frames go out in the order of the calls and once each, no published
\* descriptor is overwritten, and as long as no wait has timed out what goes out
\* is the frame the descriptor was made for (e1000.c, e1000_send).
THEOREM FramesGoOutIntact == TxSpec => []FramesIntact
  BY TxInvGives, TxInitInv, TxStep, PTL DEF TxSpec

-----------------------------------------------------------------------------
(* The receive ring, E1000Rx                                               *)

RxSizes == RX_DESC_COUNT \in Nat /\ RX_DESC_COUNT > 1

RxTypeOK ==
    /\ rx_ring \in [RxDescs -> [dd : BOOLEAN, frame : Nat]]
    /\ RDH \in RxDescs /\ RDT \in RxDescs /\ rx_tail \in RxDescs
    /\ rx_pc \in {"poll", "clear", "return"}
    /\ arrived \in Nat /\ handed_up \in Seq(Nat)

\* The tail register is one behind the driver's index.
Register == RxSucc(RDT) = rx_tail

\* Only descriptors that wait for the driver have DD set: the distance of a
\* slot from the driver's index is less than that of the device's head.
OnlyWaiting ==
    \A i \in RxDescs :
        rx_ring[i].dd => Used(RX_DESC_COUNT, i, rx_tail) < Used(RX_DESC_COUNT, RDH, rx_tail)

\* A frame that was handed up and not yet given back is the oldest waiting.
Taken ==
    rx_pc # "poll" => /\ RDH # rx_tail
                   /\ Len(handed_up) > 0
                   /\ handed_up[Len(handed_up)] = rx_ring[rx_tail].frame

\* The descriptor given back has no DD.
Cleared == rx_pc = "return" => ~rx_ring[rx_tail].dd

RxInv == RxSizes /\ RxTypeOK /\ Register /\ OnlyWaiting /\ Taken /\ Cleared

\* What is in the buffers, by slot.
Stored == [i \in RxDescs |-> rx_ring[i].frame]

-----------------------------------------------------------------------------
\* Taking the last element off undoes an Append, and appending it the reverse.
LEMMA FrontOfAppend ==
  ASSUME NEW s \in Seq(Nat), NEW e \in Nat
  PROVE  /\ BeforeLast(Append(s, e)) = s
         /\ Len(Append(s, e)) > 0 /\ Append(s, e)[Len(Append(s, e))] = e
  BY DEF BeforeLast

LEMMA AppendToFront ==
  ASSUME NEW s \in Seq(Nat), Len(s) > 0
  PROVE  s = Append(BeforeLast(s), s[Len(s)])
  BY DEF BeforeLast

\* The indices are those of a ring, the slots' contents its values, and the
\* queue of the refinement is the one the lemmas on rings speak of.
LEMMA IndicesOfRing ==
  RxSizes /\ RxTypeOK => IsRing(RX_DESC_COUNT, RDH, rx_tail) /\ ValuesIn(RX_DESC_COUNT, Stored, Nat)
  BY DEF RxSizes, RxTypeOK, IsRing, ValuesIn, Stored, RxDescs

LEMMA RxContentsIs ==
  RxSizes /\ RxTypeOK => RxContents = Queue(RX_DESC_COUNT, Stored, RDH, rx_tail)
  <1> SUFFICES ASSUME RxSizes, RxTypeOK PROVE RxContents = Queue(RX_DESC_COUNT, Stored, RDH, rx_tail)
    BY Zenon
  <1> DEFINE n == RX_DESC_COUNT
  <1>1. n \in Nat \ {0} /\ RDH \in 0..(n - 1) /\ rx_tail \in 0..(n - 1)
    BY DEF RxSizes, RxTypeOK, RxDescs
  <1>2. RxWaiting = Used(n, RDH, rx_tail)
    BY Zenon DEF RxWaiting, Used
  <1>3. RxWaiting \in 0..(n - 1)
    BY <1>1, <1>2, UsedIs, Zenon
  <1>4. ASSUME NEW k \in 1..RxWaiting
        PROVE  rx_ring[(rx_tail + k - 1) % n].frame = Stored[SlotAt(n, rx_tail, k)]
    <2>1. k \in 1..n
      BY <1>1, <1>3
    <2>2. SlotAt(n, rx_tail, k) \in RxDescs
      BY <1>1, <2>1, AtIs, Zenon DEF RxDescs
    <2> QED
      BY <2>2, Zenon DEF Stored, SlotAt
  <1> QED
    BY <1>2, <1>4, Zenon DEF RxContents, Queue

\* The slot after a slot is a slot.
LEMMA RxSuccIs == RxSizes => \A i \in RxDescs : RxSucc(i) = Step(RX_DESC_COUNT, i) /\ RxSucc(i) \in RxDescs
  BY StepIs DEF RxSizes, RxDescs, RxSucc, Step

\* The device owns a descriptor when the slot after its head is not the
\* driver's next one.
LEMMA OwnsWhenNotFull == RxSizes /\ RxTypeOK /\ Register => (RDH # RDT <=> RxSucc(RDH) # rx_tail)
  <1> SUFFICES ASSUME RxSizes, RxTypeOK, Register PROVE RDH # RDT <=> RxSucc(RDH) # rx_tail
    BY Zenon
  <1> DEFINE n == RX_DESC_COUNT
  <1>1. n \in Nat \ {0} /\ RDH \in 0..(n - 1) /\ RDT \in 0..(n - 1)
    BY DEF RxSizes, RxTypeOK, RxDescs
  <1>2. /\ Step(n, RDH) = IF RDH = n - 1 THEN 0 ELSE RDH + 1
        /\ Step(n, RDT) = IF RDT = n - 1 THEN 0 ELSE RDT + 1
    BY <1>1, StepIs, Zenon
  <1> QED
    BY <1>1, <1>2 DEF Register, RxSucc, Step
-----------------------------------------------------------------------------
\* All descriptors but the last are the device's, and nothing waits.
LEMMA RxStart == RxSizes /\ RxInit => RxInv
  <1> SUFFICES ASSUME RxSizes, RxInit PROVE RxInv
    BY Zenon
  <1>1. RxTypeOK
    BY DEF RxSizes, RxInit, RxTypeOK, RxDescs
  <1>2. Register
    BY DEF RxSizes, RxInit, Register, RxSucc
  <1>3. OnlyWaiting /\ Taken /\ Cleared
    BY Zenon DEF RxInit, OnlyWaiting, Taken, Cleared
  <1> QED
    BY <1>1, <1>2, <1>3, Zenon DEF RxInv

\* A frame the device stores: the invariant, and what the ring then holds.
LEMMA ReceiveStores ==
  ASSUME RxInv, receive, RDH # RDT
  PROVE  /\ RxInv'
         /\ Stores(RX_DESC_COUNT, Stored, Stored', RDH) /\ Stored'[RDH] = arrived'
  <1> DEFINE n == RX_DESC_COUNT
  <1>0. RxSizes /\ RxTypeOK /\ Register /\ OnlyWaiting /\ Taken /\ Cleared
    BY Zenon DEF RxInv
  <1>1. /\ rx_ring' = [rx_ring EXCEPT ![RDH] = [dd |-> TRUE, frame |-> arrived']]
        /\ RDH' = RxSucc(RDH) /\ arrived' = arrived + 1
        /\ UNCHANGED <<RDT, rx_tail, rx_pc, handed_up>>
    BY Zenon DEF receive
  <1>2. RxSucc(RDH) # rx_tail
    BY <1>0, OwnsWhenNotFull, Zenon
  <1>3. RxSucc(RDH) \in RxDescs /\ RxSucc(RDH) = Step(n, RDH)
    BY <1>0, RxSuccIs, Zenon DEF RxTypeOK
  <1>4. RxTypeOK'
    BY <1>0, <1>1, <1>3 DEF RxTypeOK
  <1>5. Register'
    BY <1>0, <1>1, Zenon DEF Register, RxSucc
  <1>6. IsRing(n, RDH, rx_tail)
    BY <1>0, IndicesOfRing, Zenon
  <1>7. Used(n, RDH', rx_tail') = Used(n, RDH, rx_tail) + 1
    <2>1. Step(n, RDH) # rx_tail
      BY <1>2, <1>3, Zenon
    <2>2. Used(n, Step(n, RDH), rx_tail) = Used(n, RDH, rx_tail) + 1
      BY <1>6, <2>1, UsedUp, Zenon
    <2> QED
      BY <1>1, <1>3, <2>2, Zenon
  <1>8. Used(n, RDH, rx_tail) \in Nat
    <2>1. Used(n, RDH, rx_tail) \in 0..(n - 1)
      BY <1>6, UsedIs, Zenon DEF IsRing
    <2> QED
      BY <2>1
  <1>9. OnlyWaiting'
    <2> SUFFICES ASSUME NEW i \in RxDescs, rx_ring'[i].dd
                 PROVE  Used(n, i, rx_tail') < Used(n, RDH', rx_tail')
      BY Zenon DEF OnlyWaiting
    <2>1. CASE i = RDH
      BY <1>1, <1>7, <1>8, <2>1
    <2>2. CASE i # RDH
      <3>1. rx_ring'[i] = rx_ring[i]
        BY <1>0, <1>1, <2>2, Zenon DEF RxTypeOK
      <3>2. Used(n, i, rx_tail) < Used(n, RDH, rx_tail)
        BY <1>0, <3>1, Zenon DEF OnlyWaiting
      <3>3. i \in 0..(n - 1) /\ n \in Nat \ {0} /\ rx_tail \in 0..(n - 1)
        BY <1>6, Zenon DEF RxDescs, IsRing
      <3>4. Used(n, i, rx_tail) \in 0..(n - 1)
        BY <3>3, UsedIs, Zenon
      <3> QED
        BY <1>1, <1>7, <1>8, <3>2, <3>4
    <2> QED
      BY <2>1, <2>2, Zenon
  <1>10. Taken' /\ Cleared'
    <2>1. ASSUME rx_pc # "poll" PROVE rx_ring'[rx_tail] = rx_ring[rx_tail]
      BY <1>0, <1>1, <2>1, Zenon DEF Taken, RxTypeOK
    <2> QED
      BY <1>0, <1>1, <1>2, <2>1, Zenon DEF Taken, Cleared
  <1>11. Stores(n, Stored, Stored', RDH) /\ Stored'[RDH] = arrived'
    BY <1>0, <1>1, Zenon DEF Stored, Stores, RxTypeOK, RxDescs
  <1> QED
    BY <1>0, <1>4, <1>5, <1>9, <1>10, <1>11, Zenon DEF RxInv, RxSizes

\* The device's step is a Put, of a frame that is dropped if it owns nothing.
LEMMA ReceiveIsPut == RxInv /\ receive => RxInv' /\ RxFifo!Put
  <1> SUFFICES ASSUME RxInv, receive PROVE RxInv' /\ RxFifo!Put
    BY Zenon
  <1> DEFINE n == RX_DESC_COUNT
  <1>0. RxSizes /\ RxTypeOK /\ Register
    BY Zenon DEF RxInv
  <1>1. IsRing(n, RDH, rx_tail) /\ ValuesIn(n, Stored, Nat)
    BY <1>0, IndicesOfRing, Zenon
  <1>2. RxContents = Queue(n, Stored, RDH, rx_tail)
    BY <1>0, RxContentsIs, Zenon
  <1>3. Len(RxContents) = Used(n, RDH, rx_tail)
    BY <1>1, <1>2, QueueIs, Zenon
  <1>4. RxSucc(RDH) = Step(n, RDH) /\ (RDH # RDT <=> RxSucc(RDH) # rx_tail)
    BY <1>0, RxSuccIs, OwnsWhenNotFull, Zenon DEF RxTypeOK
  <1>5. RDH # RDT <=> Len(RxContents) < n - 1
    BY <1>1, <1>3, <1>4, HeadUp
  <1>6. CASE RDH # RDT
    <2>1. RxInv' /\ Stores(n, Stored, Stored', RDH) /\ Stored'[RDH] = arrived'
      BY <1>6, ReceiveStores, Zenon
    <2>2. RDH' = Step(n, RDH) /\ rx_tail' = rx_tail
      BY <1>4, <1>6, Zenon DEF receive
    <2>3. ValuesIn(n, Stored', Nat) /\ RxContents' = Queue(n, Stored', RDH', rx_tail')
      <3>1. RxSizes' /\ RxTypeOK'
        BY <2>1, Zenon DEF RxInv
      <3>2. (RxSizes /\ RxTypeOK)' => ValuesIn(n, Stored', Nat)
        BY Zenon DEF RxSizes, RxTypeOK, ValuesIn, Stored, RxDescs
      <3>3. (RxSizes /\ RxTypeOK => RxContents = Queue(n, Stored, RDH, rx_tail))'
        BY RxContentsIs, PTL
      <3> QED
        BY <3>1, <3>2, <3>3, Zenon
    <2>4. RxContents' = Append(RxContents, arrived')
      BY <1>1, <1>2, <1>4, <1>6, <2>1, <2>2, <2>3, RingPushed
    <2> QED
      BY <1>5, <1>6, <2>1, <2>4, Zenon DEF RxFifo!Put, receive
  <1>7. CASE RDH = RDT
    <2>1. UNCHANGED <<rx_ring, RDH, RDT, rx_tail, rx_pc, handed_up>> /\ arrived' = arrived + 1
      BY <1>7, Zenon DEF receive
    <2>2. RxContents' = RxContents
      BY <2>1, Zenon DEF RxContents, RxWaiting
    <2>3. RxInv'
      BY <2>1 DEF RxInv, RxSizes, RxTypeOK, Register, OnlyWaiting, Taken, Cleared, Used
    <2> QED
      BY <1>5, <1>7, <2>1, <2>2, <2>3, Zenon DEF RxFifo!Put, receive
  <1> QED
    BY <1>6, <1>7, Zenon
\* Handing a frame up, and clearing DD, are not visible: the frame leaves the
\* queue when its descriptor is given back.
LEMMA TakeStutters ==
  RxInv /\ e1000_poll_take
    => RxInv' /\ RxContents' = RxContents /\ arrived' = arrived /\ BeforeLast(handed_up') = handed_up
             /\ rx_pc = "poll" /\ rx_pc' # "poll"
  <1> SUFFICES ASSUME RxInv, e1000_poll_take
               PROVE  /\ RxInv' /\ RxContents' = RxContents /\ arrived' = arrived
                      /\ BeforeLast(handed_up') = handed_up /\ rx_pc = "poll" /\ rx_pc' # "poll"
    BY Zenon
  <1> DEFINE n == RX_DESC_COUNT
             f == rx_ring[rx_tail].frame
  <1>0. RxSizes /\ RxTypeOK /\ Register /\ OnlyWaiting /\ Taken /\ Cleared
    BY Zenon DEF RxInv
  <1>1. /\ rx_pc = "poll" /\ rx_pc' = "clear" /\ rx_ring[rx_tail].dd /\ handed_up' = Append(handed_up, f)
        /\ UNCHANGED <<rx_ring, RDH, RDT, rx_tail, arrived>>
    BY Zenon DEF e1000_poll_take
  <1>2. f \in Nat /\ handed_up \in Seq(Nat)
    BY <1>0, Zenon DEF RxTypeOK
  <1> HIDE DEF f
  <1>3. /\ BeforeLast(handed_up') = handed_up /\ handed_up' \in Seq(Nat)
        /\ Len(handed_up') > 0 /\ handed_up'[Len(handed_up')] = f
    BY <1>1, <1>2, FrontOfAppend
  <1>4. RDH # rx_tail
    <2>1. Used(n, rx_tail, rx_tail) < Used(n, RDH, rx_tail)
      BY <1>0, <1>1, Zenon DEF OnlyWaiting, RxTypeOK
    <2>2. n \in Nat \ {0} /\ RDH \in 0..(n - 1)
      BY <1>0 DEF RxSizes, RxTypeOK, RxDescs
    <2>3. ASSUME RDH = rx_tail PROVE FALSE
      <3>1. Used(n, RDH, RDH) < Used(n, RDH, RDH)
        BY <2>1, <2>3, Zenon
      <3>2. Used(n, RDH, RDH) \in 0..(n - 1)
        BY <2>2, UsedIs, Zenon
      <3> QED
        BY <3>1, <3>2
    <2> QED
      BY <2>3, Zenon
  <1>5. RxTypeOK' /\ Register' /\ OnlyWaiting'
    BY <1>0, <1>1, <1>3, Zenon DEF RxTypeOK, Register, OnlyWaiting, Used, RxSucc
  <1>6. Taken' /\ Cleared'
    BY <1>1, <1>3, <1>4, Zenon DEF Taken, Cleared, f
  <1>7. RxContents' = RxContents
    BY <1>1, Zenon DEF RxContents, RxWaiting
  <1> QED
    BY <1>0, <1>1, <1>3, <1>5, <1>6, <1>7, Zenon DEF RxInv, RxSizes

LEMMA ClearStutters ==
  RxInv /\ e1000_poll_clear
    => RxInv' /\ RxContents' = RxContents /\ UNCHANGED <<arrived, handed_up>>
             /\ rx_pc # "poll" /\ rx_pc' # "poll"
  <1> SUFFICES ASSUME RxInv, e1000_poll_clear
               PROVE  /\ RxInv' /\ RxContents' = RxContents /\ UNCHANGED <<arrived, handed_up>>
                      /\ rx_pc # "poll" /\ rx_pc' # "poll"
    BY Zenon
  <1> DEFINE n == RX_DESC_COUNT
  <1>0. RxSizes /\ RxTypeOK /\ Register /\ OnlyWaiting /\ Taken /\ Cleared
    BY Zenon DEF RxInv
  <1>1. /\ rx_pc = "clear" /\ rx_pc' = "return" /\ rx_ring' = [rx_ring EXCEPT ![rx_tail].dd = FALSE]
        /\ UNCHANGED <<RDH, RDT, rx_tail, arrived, handed_up>>
    BY Zenon DEF e1000_poll_clear
  <1>2. RxTypeOK'
    BY <1>0, <1>1, Zenon DEF RxTypeOK
  <1>3. \A i \in RxDescs : rx_ring'[i].frame = rx_ring[i].frame /\ (rx_ring'[i].dd => rx_ring[i].dd)
    BY <1>0, <1>1, Zenon DEF RxTypeOK
  <1>4. ~rx_ring'[rx_tail].dd
    BY <1>0, <1>1, Zenon DEF RxTypeOK
  <1>5. Register' /\ OnlyWaiting' /\ Taken' /\ Cleared'
    <2>1. rx_tail \in RxDescs
      BY <1>0, Zenon DEF RxTypeOK
    <2>2. Register'
      BY <1>0, <1>1, Zenon DEF Register, RxSucc
    <2>3. OnlyWaiting'
      BY <1>0, <1>1, <1>3, Zenon DEF OnlyWaiting, Used
    <2>4. Taken' /\ Cleared'
      BY <1>0, <1>1, <1>3, <1>4, <2>1, Zenon DEF Taken, Cleared
    <2> QED
      BY <2>2, <2>3, <2>4, Zenon
  <1>6. RxContents' = RxContents
    <2>1. Stored' = Stored
      BY <1>3, Zenon DEF Stored
    <2>2. RxSizes' /\ (RxSizes' /\ RxTypeOK' => RxContents' = Queue(n, Stored', RDH', rx_tail'))
      <3>1. (RxSizes /\ RxTypeOK => RxContents = Queue(n, Stored, RDH, rx_tail))'
        BY RxContentsIs, PTL
      <3> QED
        BY <1>0, <3>1, Zenon DEF RxSizes
    <2> QED
      BY <1>0, <1>1, <1>2, <2>1, <2>2, RxContentsIs, Zenon
  <1> QED
    BY <1>0, <1>1, <1>2, <1>5, <1>6, Zenon DEF RxInv, RxSizes

\* Giving the descriptor back is a Get.
LEMMA ReturnIsGet == RxInv /\ e1000_poll_return => RxInv' /\ RxFifo!Get
  <1> SUFFICES ASSUME RxInv, e1000_poll_return PROVE RxInv' /\ RxFifo!Get
    BY Zenon
  <1> DEFINE n == RX_DESC_COUNT
  <1>0. RxSizes /\ RxTypeOK /\ Register /\ OnlyWaiting /\ Taken /\ Cleared
    BY Zenon DEF RxInv
  <1>1. /\ rx_pc = "return" /\ rx_pc' = "poll" /\ RDT' = rx_tail /\ rx_tail' = RxSucc(rx_tail)
        /\ UNCHANGED <<rx_ring, RDH, arrived, handed_up>>
    BY Zenon DEF e1000_poll_return
  <1>2. RxSucc(rx_tail) \in RxDescs /\ RxSucc(rx_tail) = Step(n, rx_tail)
    BY <1>0, RxSuccIs, Zenon DEF RxTypeOK
  <1>3. /\ RDH # rx_tail /\ Len(handed_up) > 0 /\ ~rx_ring[rx_tail].dd
        /\ handed_up[Len(handed_up)] = rx_ring[rx_tail].frame
    BY <1>0, <1>1, Zenon DEF Taken, Cleared
  <1>4. RxTypeOK' /\ Register' /\ Taken' /\ Cleared'
    BY <1>0, <1>1, <1>2, Zenon DEF RxTypeOK, Register, Taken, Cleared, RxSucc
  <1>5. IsRing(n, RDH, rx_tail) /\ ValuesIn(n, Stored, Nat)
    BY <1>0, IndicesOfRing, Zenon
  <1>6. OnlyWaiting'
    <2> SUFFICES ASSUME NEW i \in RxDescs, rx_ring[i].dd
                 PROVE  Used(n, i, Step(n, rx_tail)) < Used(n, RDH, Step(n, rx_tail))
      BY <1>1, <1>2, Zenon DEF OnlyWaiting
    <2>1. i # rx_tail
      BY <1>3, Zenon
    <2>2. IsRing(n, i, rx_tail)
      BY <1>5, Zenon DEF IsRing, RxDescs
    <2>3. Used(n, i, Step(n, rx_tail)) = Used(n, i, rx_tail) - 1
      BY <2>1, <2>2, UsedDown, Zenon
    <2>4. Used(n, RDH, Step(n, rx_tail)) = Used(n, RDH, rx_tail) - 1
      BY <1>3, <1>5, UsedDown, Zenon
    <2>5. Used(n, i, rx_tail) < Used(n, RDH, rx_tail)
      BY <1>0, Zenon DEF OnlyWaiting
    <2>6. n \in Nat \ {0} /\ i \in 0..(n - 1) /\ RDH \in 0..(n - 1) /\ rx_tail \in 0..(n - 1)
      BY <1>5, <2>2, Zenon DEF IsRing
    <2>7. Used(n, i, rx_tail) \in 0..(n - 1) /\ Used(n, RDH, rx_tail) \in 0..(n - 1)
      BY <2>6, UsedIs, Zenon
    <2> QED
      BY <2>3, <2>4, <2>5, <2>7
  <1>7. RxContents = Queue(n, Stored, RDH, rx_tail)
    BY <1>0, RxContentsIs, Zenon
  <1>8. RxContents' = Queue(n, Stored, RDH, Step(n, rx_tail))
    <2>1. (RxSizes /\ RxTypeOK => RxContents = Queue(n, Stored, RDH, rx_tail))'
      BY RxContentsIs, PTL
    <2>2. RxSizes' /\ Stored' = Stored
      BY <1>0, <1>1, Zenon DEF RxSizes, Stored
    <2> QED
      BY <1>1, <1>2, <1>4, <2>1, <2>2, Zenon
  <1>9. RxContents # <<>> /\ Head(RxContents) = Stored[rx_tail] /\ RxContents' = Tail(RxContents)
    <2>1. /\ Queue(n, Stored, RDH, rx_tail) # <<>>
          /\ Head(Queue(n, Stored, RDH, rx_tail)) = Stored[rx_tail]
          /\ Tail(Queue(n, Stored, RDH, rx_tail)) = Queue(n, Stored, RDH, Step(n, rx_tail))
      BY <1>3, <1>5, TakenOut
    <2> QED
      BY <1>7, <1>8, <2>1, Zenon
  <1>10. Stored[rx_tail] = handed_up[Len(handed_up)]
    BY <1>0, <1>3, Zenon DEF Stored, RxTypeOK
  <1>11. handed_up = Append(BeforeLast(handed_up), handed_up[Len(handed_up)])
    BY <1>0, <1>3, AppendToFront, Zenon DEF RxTypeOK
  <1>12. RxFifo!Get
    BY <1>1, <1>9, <1>10, <1>11, Zenon DEF RxFifo!Get
  <1> QED
    BY <1>0, <1>4, <1>6, <1>12, Zenon DEF RxInv, RxSizes

-----------------------------------------------------------------------------
\* Every step keeps the invariant and is a step of the abstract queue, or none.
LEMMA StepRefines ==
  RxInv /\ [RxNext]_rxVars
    => /\ RxInv'
       /\ [RxFifo!Next]_<<arrived, RxContents, IF rx_pc = "poll" THEN handed_up ELSE BeforeLast(handed_up)>>
  <1> SUFFICES ASSUME RxInv, [RxNext]_rxVars
               PROVE  /\ RxInv'
                      /\ \/ RxFifo!Next
                         \/ UNCHANGED <<arrived, RxContents,
                                        IF rx_pc = "poll" THEN handed_up ELSE BeforeLast(handed_up)>>
    BY Zenon
  <1>1. CASE receive
    BY <1>1, ReceiveIsPut, Zenon DEF RxFifo!Next
  <1>2. CASE e1000_poll_take
    BY <1>2, TakeStutters, Zenon
  <1>3. CASE e1000_poll_clear
    BY <1>3, ClearStutters, Zenon
  <1>4. CASE e1000_poll_return
    BY <1>4, ReturnIsGet, Zenon DEF RxFifo!Next
  <1>5. CASE UNCHANGED rxVars
    BY <1>5, Zenon
      DEF rxVars, RxInv, RxSizes, RxTypeOK, Register, OnlyWaiting, Taken, Cleared, Used,
                RxContents, RxWaiting
  <1> QED
    BY <1>1, <1>2, <1>3, <1>4, <1>5, Zenon DEF RxNext, Driver

\* For every number of descriptors: frames reach ether_rx in the order they
\* came and once each, and one is dropped only when all descriptors but one
\* wait for e1000_poll.
THEOREM RxRingIsFifo == RxSizes /\ RxSpec => RxImplementsFifo
  <1>1. RxSizes /\ RxInit => RxFifo!Init
    <2> SUFFICES ASSUME RxSizes, RxInit PROVE RxFifo!Init
      BY Zenon
    <2>1. RxWaiting = 0
      BY DEF RxSizes, RxInit, RxWaiting
    <2>2. RxContents = <<>>
      BY <2>1 DEF RxContents
    <2> QED
      BY <2>2, Zenon DEF RxInit, RxFifo!Init
  <1> QED
    BY <1>1, RxStart, StepRefines, PTL DEF RxSpec, RxImplementsFifo, RxFifo!Spec

-----------------------------------------------------------------------------
(* The ARP cache, IpStack                                                  *)

Entries == [used : {TRUE}, ip : Local, mac : Macs]
IpTypeOK == cache \in [Slots -> Entries \cup {Free}] /\ DOMAIN heard = Local

IpInv == IpTypeOK /\ CacheCurrent /\ RightNextHop

\* Every entry in use is about a host of the subnet.
LEMMA CachedIsLocal ==
    ASSUME IpTypeOK
    PROVE  \A j \in Slots : cache[j].used => cache[j].ip \in Local
<1> SUFFICES ASSUME NEW j \in Slots, cache[j].used
             PROVE  cache[j].ip \in Local
  BY Zenon
<1>1. cache[j] \in Entries \/ cache[j] = Free
  BY Zenon DEF IpTypeOK
<1>2. Free.used = FALSE
  BY Zenon DEF Free
<1>3. cache[j] # Free
  BY <1>2, Zenon
<1> QED
  BY <1>1, <1>3, Zenon DEF Entries

\* A search of the cache that finds something returns a slot it looked for.
LEMMA SearchFinds ==
    /\ \A ip : Known(ip) => Min(Holding(ip)) \in Slots /\ Holds(Min(Holding(ip)), ip)
    /\ Unused # {} => Min(Unused) \in Slots /\ ~cache[Min(Unused)].used
<1>1. \A ip : Holding(ip) \subseteq Nat
  BY IpAssumption DEF Holding, Slots
<1>2. Unused \subseteq Nat
  BY IpAssumption DEF Unused, Slots
<1>3. ASSUME NEW ip, Known(ip)
      PROVE  Min(Holding(ip)) \in Slots /\ Holds(Min(Holding(ip)), ip)
  <2>1. Min(Holding(ip)) \in Holding(ip)
    BY <1>1, <1>3, MinIsLeast, Zenon DEF Known
  <2> QED
    BY <2>1, Zenon DEF Holding
<1>4. ASSUME Unused # {}
      PROVE  Min(Unused) \in Slots /\ ~cache[Min(Unused)].used
  <2>1. Min(Unused) \in Unused
    BY <1>2, <1>4, MinIsLeast, Zenon
  <2> QED
    BY <2>1, Zenon DEF Unused
<1> QED
  BY <1>3, <1>4, Zenon

\* ipv4_send: what goes out as the packet goes to the MAC its next hop has.
LEMMA SentToNextHop ==
    ASSUME IpTypeOK, CacheCurrent, NEW dst, NEW body, Known(NextHop(dst))
    PROVE  ipv4_send(dst, body) = [mac |-> heard[NextHop(dst)], body |-> body]
<1> DEFINE i == Min(Holding(NextHop(dst)))
<1>1. i \in Slots /\ Holds(i, NextHop(dst))
  BY SearchFinds, Zenon
<1> HIDE DEF i
<1>2. cache[i].mac = heard[NextHop(dst)]
  BY <1>1, Zenon DEF CacheCurrent, Holds
<1> QED
  BY <1>2, Zenon DEF ipv4_send, arp_lookup, ether_send, i

\* A packet of either kind that ipv4_send is given satisfies RightNextHop.
LEMMA SendIsRight ==
    ASSUME IpTypeOK, CacheCurrent, NEW dst, NEW t, UNCHANGED heard,
           tx' = ipv4_send(dst, [type |-> t, ip |-> dst])
    PROVE  RightNextHop'
<1>1. CASE Known(NextHop(dst))
  BY <1>1, SentToNextHop DEF RightNextHop, NextHop
<1>2. CASE ~Known(NextHop(dst))
  <2>1. tx'.body.type = "arp_request"
    BY <1>2, Zenon DEF ipv4_send, arp_request, ether_send
  <2> QED
    BY <2>1, Zenon DEF RightNextHop
<1> QED
  BY <1>1, <1>2, Zenon

LEMMA IpInitInv == IpInit => IpInv
BY DEF IpInit, IpInv, IpTypeOK, CacheCurrent, RightNextHop, Holds, Free, NoFrame

\* An ARP packet leaves one entry for its sender, with the MAC it announced.
LEMMA ArpKeeps ==
    ASSUME IpInv, NEW spa \in Local, NEW sha \in Macs, NEW op, NEW tpa,
           arp_rx(spa, sha, op, tpa)
    PROVE  IpInv'
<1> USE DEF IpInv
<1>1. heard' = [heard EXCEPT ![spa] = sha] /\ DOMAIN heard' = Local /\ heard'[spa] = sha
  BY Zenon DEF arp_rx, IpTypeOK
<1>2. RightNextHop'
  <2>1. tx'.body.type \in {"garbled", "none"}
    BY Zenon DEF arp_rx, ether_send, NoFrame
  <2> QED
    BY <2>1, Zenon DEF RightNextHop
<1>3. ASSUME NEW i \in Slots, cache' = [cache EXCEPT ![i] = Entry(spa, sha)],
             ~cache[i].used \/ cache[i].ip = spa,
             \A j \in Slots : Holds(j, spa) => j = i
      PROVE  IpTypeOK' /\ CacheCurrent'
  <2>1. IpTypeOK'
    BY <1>1, <1>3, Zenon DEF IpTypeOK, Entry, Entries
  <2>2. cache'[i] = Entry(spa, sha) /\ \A j \in Slots : j # i => cache'[j] = cache[j]
    BY <1>3, Zenon DEF IpTypeOK
  <2>3. \A j \in Slots : cache'[j].used /\ j # i => cache[j].ip # spa /\ cache[j].ip \in Local
    BY <1>3, <2>2, CachedIsLocal, Zenon DEF Holds
  <2>4. \A j \in Slots : cache'[j].used => cache'[j].mac = heard'[cache'[j].ip]
    <3> SUFFICES ASSUME NEW j \in Slots, cache'[j].used
                 PROVE  cache'[j].mac = heard'[cache'[j].ip]
      BY Zenon
    <3>1. CASE j = i
      BY <1>1, <2>2, <3>1 DEF Entry
    <3>2. CASE j # i
      <4>1. cache'[j] = cache[j] /\ cache[j].ip # spa /\ cache[j].ip \in Local /\ cache[j].used
        BY <2>2, <2>3, <3>2, Zenon
      <4>2. heard'[cache[j].ip] = heard[cache[j].ip]
        BY <1>1, <4>1, Zenon DEF IpTypeOK
      <4>3. cache[j].mac = heard[cache[j].ip]
        BY <4>1, Zenon DEF CacheCurrent
      <4> QED
        BY <4>1, <4>2, <4>3, Zenon
    <3> QED
      BY <3>1, <3>2, ZenonT(30)
  <2>5. \A j, k \in Slots : \A ip \in Local : Holds(j, ip)' /\ Holds(k, ip)' => j = k
    <3> SUFFICES ASSUME NEW j \in Slots, NEW k \in Slots, NEW ip \in Local,
                        cache'[j].used, cache'[j].ip = ip, cache'[k].used, cache'[k].ip = ip
                 PROVE  j = k
      BY Zenon DEF Holds
    <3>1. cache'[i].ip = spa
      BY <2>2 DEF Entry
    <3>2. CASE j # i /\ k # i
      BY <2>2, <3>2, Zenon DEF CacheCurrent, Holds
    <3>3. CASE (j = i /\ k # i) \/ (j # i /\ k = i)
      BY <2>2, <2>3, <3>1, <3>3, Zenon
    <3> QED
      BY <3>2, <3>3, Zenon
  <2> QED
    BY <2>1, <2>4, <2>5, Zenon DEF CacheCurrent
<1>4. CASE Known(spa)
  <2> DEFINE i == Min(Holding(spa))
  <2>1. i \in Slots /\ Holds(i, spa)
    BY <1>4, SearchFinds, Zenon
  <2>2. cache' = [cache EXCEPT ![i] = Entry(spa, sha)]
    BY <1>4, Zenon DEF arp_rx, arp_cache_add
  <2> HIDE DEF i
  <2>3. \A j \in Slots : Holds(j, spa) => j = i
    BY <2>1, Zenon DEF CacheCurrent
  <2> QED
    BY <1>2, <1>3, <2>1, <2>2, <2>3, Zenon DEF Holds
<1>5. CASE ~Known(spa) /\ Unused # {}
  <2> DEFINE i == Min(Unused)
  <2>1. i \in Slots /\ ~cache[i].used
    BY <1>5, SearchFinds, Zenon
  <2>2. cache' = [cache EXCEPT ![i] = Entry(spa, sha)]
    BY <1>5, Zenon DEF arp_rx, arp_cache_add
  <2> HIDE DEF i
  <2>3. \A j \in Slots : ~Holds(j, spa)
    BY <1>5, Zenon DEF Known, Holding
  <2> QED
    BY <1>2, <1>3, <2>1, <2>2, <2>3, Zenon
<1>6. CASE ~Known(spa) /\ Unused = {}
  <2>1. cache' = cache
    BY <1>6, Zenon DEF arp_rx, arp_cache_add
  <2>2. \A j \in Slots : cache[j].used => cache[j].ip # spa
    BY <1>6, Zenon DEF Known, Holding, Holds
  <2>3. \A j \in Slots : cache[j].used => cache[j].ip \in Local
    BY CachedIsLocal, Zenon
  <2> QED
    BY <1>1, <1>2, <2>1, <2>2, <2>3, Zenon DEF IpTypeOK, CacheCurrent, Holds
<1> QED
  BY <1>4, <1>5, <1>6, Zenon

LEMMA IpStep == IpInv /\ [IpNext]_ipVars => IpInv'
<1> SUFFICES ASSUME IpInv, [IpNext]_ipVars
             PROVE  IpInv'
  BY Zenon
<1>1. ASSUME NEW spa \in Local, NEW sha \in Macs, NEW op \in {"request", "reply"},
             NEW tpa \in {Me, Gw}, arp_rx(spa, sha, op, tpa)
      PROVE  IpInv'
  BY <1>1, ArpKeeps, Zenon
<1>2. UNCHANGED <<cache, heard>> /\ RightNextHop' => IpInv'
  BY Zenon DEF IpInv, IpTypeOK, CacheCurrent, Holds
<1>3. ASSUME NEW src \in Local \cup Remote, icmp_rx(src)
      PROVE  IpInv'
  BY <1>2, <1>3, SendIsRight, Zenon DEF icmp_rx, IpInv
<1>4. CASE ionet_poll
  <2>1. CASE tx' = NoFrame
    <3>1. RightNextHop'
      BY <2>1, Zenon DEF RightNextHop, NoFrame
    <3> QED
      BY <1>2, <1>4, <3>1, Zenon DEF ionet_poll
  <2>2. CASE tx' = ipv4_send(Gw, [type |-> "echo", ip |-> Gw])
    BY <1>2, <1>4, <2>2, SendIsRight, Zenon DEF ionet_poll, IpInv
  <2> QED
    BY <1>4, <2>1, <2>2, Zenon DEF ionet_poll
<1>5. CASE UNCHANGED ipVars
  BY <1>2, <1>5, Zenon DEF ipVars, IpInv, RightNextHop
<1> QED
  BY <1>1, <1>3, <1>4, <1>5, Zenon DEF IpNext

\* No address has two cache entries, and a cached host is cached with the MAC
\* it announced last (arp.c, arp_cache_add).
THEOREM CacheStaysCurrent == IpSpec => []CacheCurrent
<1>1. IpInv => CacheCurrent
  BY Zenon DEF IpInv
<1> QED
  BY <1>1, IpInitInv, IpStep, PTL DEF IpSpec

\* A packet goes to the MAC its next hop announced last (ipv4.c, ipv4_send).
THEOREM PacketsReachNextHop == IpSpec => []RightNextHop
<1>1. IpInv => RightNextHop
  BY Zenon DEF IpInv
<1> QED
  BY <1>1, IpInitInv, IpStep, PTL DEF IpSpec

-----------------------------------------------------------------------------
(* The DHCP client, Dhcp                                                   *)

\* What may be on the wire or in the receive ring.  The client asks for one
\* address only, the one it was offered first; a server that acknowledges has
\* leased that address.
Genuine(m) ==
    /\ m.type = "offer" => m.ip \in Addrs
    /\ m.type = "request" => m.ip = dh_offer_ip
    /\ m.type = "ack" /\ m.mine => dh_offer_ip \in leased /\ m.ip \in {0, dh_offer_ip}

LeaseTypeOK ==
    /\ dh_state \in {"OFF", "DISCOVERING", "REQUESTING", "BOUND"}
    /\ dh_offer_ip \in Addrs \cup {0} /\ dh_srv_id \in Servers \cup {0}
    /\ net \subseteq Message /\ rx \in Seq(Message) /\ leased \subseteq Addrs

LeaseInv ==
    /\ LeaseTypeOK
    /\ dh_state \in {"OFF", "DISCOVERING"} => dh_offer_ip = 0
    /\ dh_state \in {"REQUESTING", "BOUND"} => dh_offer_ip \in Addrs /\ dh_srv_id \in Servers
    /\ dh_state # "BOUND" => g_net_ip = 0
    /\ \A m \in net : Genuine(m)
    /\ \A k \in 1..Len(rx) : Genuine(rx[k])
    /\ AddressLeased

\* The messages by their type.
LEMMA MessageTypes ==
    /\ [type |-> "discover"] \in Message
    /\ \A ip \in Addrs, srv \in Servers : Request(ip, srv) \in Message
    /\ \A t \in {"offer", "ack", "nak"}, ip \in Addrs \cup {0}, srv \in Servers, b \in BOOLEAN :
          [type |-> t, ip |-> ip, srv |-> srv, mine |-> b] \in Message
    /\ \A m \in Message : m.type = "request" => m.ip \in Addrs
    /\ \A m \in Message : m.type \in {"offer", "ack", "nak"} => m.srv \in Servers
BY Zenon DEF Message, Request

LEMMA LeaseInitInv == LeaseInit => LeaseInv
BY DEF LeaseInit, LeaseInv, LeaseTypeOK, AddressLeased

\* The frame at the head of the ring is genuine, and so is what is behind it.
LEMMA HeadOfRing ==
    ASSUME LeaseInv, NEW m, Received(m), rx' = Tail(rx)
    PROVE  /\ m \in Message /\ Genuine(m)
           /\ rx' \in Seq(Message)
           /\ \A k \in 1..Len(rx') : k + 1 \in 1..Len(rx) /\ rx'[k] = rx[k + 1]
<1>1. rx \in Seq(Message) /\ rx # <<>> /\ m = Head(rx) /\ rx' = Tail(rx)
  BY Zenon DEF LeaseInv, LeaseTypeOK, Received
<1>2. Len(rx) \in Nat /\ Len(rx) > 0 /\ m = rx[1] /\ m \in Message
  BY <1>1
<1>3. /\ rx' \in Seq(Message)
      /\ \A k \in 1..Len(rx') : k + 1 \in 1..Len(rx) /\ rx'[k] = rx[k + 1]
  BY <1>1, <1>2
<1> QED
  BY <1>2, <1>3 DEF LeaseInv

\* A step that only takes frames out of the ring or messages off the wire, or
\* adds genuine messages to it, and leaves the lease alone.
LEMMA WireKeeps ==
    ASSUME LeaseInv,
           UNCHANGED <<dh_offer_ip, dh_srv_id, g_net_ip, dh_state>>,
           leased \subseteq leased', leased' \subseteq Addrs,
           \A m \in net' : m \in net \/ (m \in Message /\ Genuine(m)'),
           rx' \in Seq(Message),
           \A k \in 1..Len(rx') : (\E j \in 1..Len(rx) : rx'[k] = rx[j]) \/ rx'[k] \in net
    PROVE  LeaseInv'
<1>1. \A m : Genuine(m) => Genuine(m)'
  BY Zenon DEF Genuine
<1>2. \A m \in net' : m \in Message /\ Genuine(m)'
  BY <1>1, Zenon DEF LeaseInv, LeaseTypeOK
<1>3. ASSUME NEW k \in 1..Len(rx')
      PROVE  Genuine(rx[k])'
  <2>1. CASE \E j \in 1..Len(rx) : rx'[k] = rx[j]
    BY <1>1, <2>1, Zenon DEF LeaseInv, Genuine
  <2>2. CASE rx'[k] \in net
    BY <1>1, <2>2, Zenon DEF LeaseInv, Genuine
  <2> QED
    BY <1>3, <2>1, <2>2, Zenon
<1>4. LeaseTypeOK'
  BY <1>2, Zenon DEF LeaseInv, LeaseTypeOK
<1>5. AddressLeased'
  BY Zenon DEF LeaseInv, AddressLeased
<1> QED
  BY <1>2, <1>3, <1>4, <1>5, Zenon DEF LeaseInv

\* The first offer that is taken: no request, and so no acknowledgement, was
\* there before it.
LEMMA OfferKeeps ==
    ASSUME LeaseInv, NEW m \in Message, dhcp_rx_offer(m)
    PROVE  LeaseInv'
<1>1. m.type = "offer" /\ Received(m) /\ rx' = Tail(rx)
  BY Zenon DEF dhcp_rx_offer
<1>2. /\ Genuine(m) /\ rx' \in Seq(Message)
      /\ \A k \in 1..Len(rx') : k + 1 \in 1..Len(rx) /\ rx'[k] = rx[k + 1]
  BY <1>1, HeadOfRing, Zenon
<1>3. m.ip \in Addrs /\ m.srv \in Servers /\ dh_offer_ip = 0 /\ g_net_ip = 0 /\ 0 \notin leased
  BY <1>1, <1>2, MessageTypes, DhcpAssumption, Zenon
  DEF Genuine, dhcp_rx_offer, LeaseInv, LeaseTypeOK
<1>4. \A x \in Message : Genuine(x) => Genuine(x)'
  BY <1>3, MessageTypes, DhcpAssumption, Zenon DEF Genuine
<1>5. Request(m.ip, m.srv) \in Message /\ Genuine(Request(m.ip, m.srv))'
  BY <1>3, MessageTypes, Zenon DEF Genuine, Request, dhcp_rx_offer
<1>6. \A x \in net' : x \in Message /\ Genuine(x)'
  BY <1>4, <1>5, Zenon DEF LeaseInv, LeaseTypeOK, dhcp_rx_offer
<1>7. \A k \in 1..Len(rx') : Genuine(rx[k])'
  <2> SUFFICES ASSUME NEW k \in 1..Len(rx')
               PROVE  Genuine(rx[k])'
    BY Zenon
  <2>1. rx'[k] \in Message /\ Genuine(rx[k + 1]) /\ rx'[k] = rx[k + 1]
    <3>1. rx'[k] \in Message
      BY <1>2
    <3>2. k + 1 \in 1..Len(rx) /\ rx'[k] = rx[k + 1]
      BY <1>2, Zenon
    <3> QED
      BY <3>1, <3>2, Zenon DEF LeaseInv
  <2> QED
    BY <1>4, <2>1, Zenon DEF Genuine
<1> QED
  BY <1>2, <1>3, <1>6, <1>7, Zenon DEF LeaseInv, LeaseTypeOK, dhcp_rx_offer, AddressLeased

\* The address taken from an acknowledgement is the one the client asked for.
LEMMA AckKeeps ==
    ASSUME LeaseInv, NEW m \in Message, dhcp_rx_ack(m)
    PROVE  LeaseInv'
<1>1. m.type = "ack" /\ m.mine /\ Received(m) /\ rx' = Tail(rx)
  BY Zenon DEF dhcp_rx_ack
<1>2. /\ Genuine(m) /\ rx' \in Seq(Message)
      /\ \A k \in 1..Len(rx') : k + 1 \in 1..Len(rx) /\ rx'[k] = rx[k + 1]
  BY <1>1, HeadOfRing, Zenon
<1>3. g_net_ip' = dh_offer_ip /\ dh_offer_ip \in leased
  BY <1>1, <1>2, Zenon DEF Genuine, dhcp_rx_ack
<1>4. \A x : Genuine(x) <=> Genuine(x)'
  BY Zenon DEF Genuine, dhcp_rx_ack
<1>5. \A k \in 1..Len(rx') : Genuine(rx[k])'
  <2> SUFFICES ASSUME NEW k \in 1..Len(rx')
               PROVE  Genuine(rx[k])'
    BY Zenon
  <2>1. k + 1 \in 1..Len(rx) /\ rx'[k] = rx[k + 1]
    BY <1>2, Zenon
  <2>2. Genuine(rx[k + 1])
    BY <2>1, Zenon DEF LeaseInv
  <2> QED
    BY <1>4, <2>1, <2>2, Zenon DEF Genuine
<1> QED
  BY <1>2, <1>3, <1>4, <1>5, Zenon DEF LeaseInv, LeaseTypeOK, dhcp_rx_ack, AddressLeased

\* What the client sends again is what it sent.
LEMMA PollKeeps ==
    ASSUME LeaseInv, dhcp_poll
    PROVE  LeaseInv'
<1>1. UNCHANGED <<dh_offer_ip, dh_srv_id, g_net_ip, dh_state, rx, leased>>
  BY Zenon DEF dhcp_poll
<1>2. [type |-> "discover"] \in Message /\ Genuine([type |-> "discover"])'
  BY MessageTypes, Zenon DEF Genuine
<1>3. dh_state = "REQUESTING" =>
        /\ Request(dh_offer_ip, dh_srv_id) \in Message
        /\ Genuine(Request(dh_offer_ip, dh_srv_id))'
  BY <1>1, MessageTypes, Zenon DEF Genuine, Request, LeaseInv
<1>4. \A m \in net' : m \in net \/ (m \in Message /\ Genuine(m)')
  BY <1>2, <1>3, Zenon DEF dhcp_poll
<1> QED
  BY <1>1, <1>4, WireKeeps, Zenon DEF LeaseInv, LeaseTypeOK

\* The answers of the servers.
LEMMA AnswersKeep ==
    ASSUME LeaseInv, NEW ip \in Addrs,
           offer(ip) \/ ack(ip) \/ nak(ip) \/ other_client(ip)
    PROVE  LeaseInv'
<1> DEFINE Says(t, y, b) == [type |-> t, ip |-> y, srv |-> Owner[ip], mine |-> b]
<1>1. /\ UNCHANGED <<dh_offer_ip, dh_srv_id, g_net_ip, dh_state, rx>>
      /\ leased \subseteq leased' /\ leased' \subseteq Addrs
  BY Zenon DEF offer, ack, nak, other_client, client, LeaseInv, LeaseTypeOK
<1>2. \A t \in {"offer", "ack", "nak"}, y \in {0, ip}, b \in BOOLEAN : Says(t, y, b) \in Message
  BY MessageTypes, DhcpAssumption, Zenon
<1>3. ASSUME NEW t \in {"offer", "ack", "nak"}, NEW y \in {0, ip}, NEW b \in BOOLEAN,
             net' = net \cup {Says(t, y, b)}, t = "offer" => y = ip,
             t = "ack" /\ b => dh_offer_ip = ip /\ ip \in leased'
      PROVE  LeaseInv'
  <2>1. Genuine(Says(t, y, b))'
    BY <1>1, <1>3, Zenon DEF Genuine
  <2> QED
    BY <1>1, <1>2, <1>3, <2>1, WireKeeps, Zenon DEF LeaseInv, LeaseTypeOK
<1>4. CASE offer(ip)
  BY <1>3, <1>4, Zenon DEF offer
<1>5. CASE ack(ip)
  <2>1. dh_offer_ip = ip
    BY <1>5, Zenon DEF ack, LeaseInv, Genuine, Request
  <2> QED
    BY <1>3, <1>5, <2>1, Zenon DEF ack
<1>6. CASE nak(ip)
  BY <1>3, <1>6, Zenon DEF nak
<1>7. CASE other_client(ip)
  BY <1>3, <1>7, Zenon DEF other_client
<1> QED
  BY <1>4, <1>5, <1>6, <1>7, Zenon

\* The wire, the ring, and the service that is stopped and started.
LEMMA OthersKeep ==
    ASSUME LeaseInv,
           \/ ionet_init \/ pit_tick \/ ionet_exit
           \/ \E m \in Message : dhcp_rx_ignore(m)
           \/ \E m \in net : lose(m) \/ deliver(m)
           \/ UNCHANGED leaseVars
    PROVE  LeaseInv'
<1>1. CASE ionet_init
  <2>1. /\ UNCHANGED <<dh_offer_ip, dh_srv_id, g_net_ip, net, leased>> /\ rx' = <<>>
        /\ dh_state' = IF dh_state = "OFF" THEN "DISCOVERING" ELSE dh_state
    BY <1>1, Zenon DEF ionet_init
  <2>2. LeaseTypeOK'
    BY <2>1 DEF LeaseInv, LeaseTypeOK
  <2>3. (\A m \in net : Genuine(m))'
    BY <2>1, Zenon DEF LeaseInv, Genuine
  <2>4. (\A k \in 1..Len(rx) : Genuine(rx[k]))'
    BY <2>1
  <2>5. AddressLeased'
    BY <2>1, Zenon DEF LeaseInv, LeaseTypeOK, AddressLeased
  <2>6. /\ dh_state' \in {"OFF", "DISCOVERING"} => dh_offer_ip' = 0
        /\ dh_state' \in {"REQUESTING", "BOUND"} => dh_offer_ip' \in Addrs /\ dh_srv_id' \in Servers
        /\ dh_state' # "BOUND" => g_net_ip' = 0
    BY <2>1, Zenon DEF LeaseInv, LeaseTypeOK
  <2> QED
    BY <2>2, <2>3, <2>4, <2>5, <2>6, Zenon DEF LeaseInv
<1>2. CASE pit_tick \/ UNCHANGED leaseVars
  BY <1>2, WireKeeps, Zenon DEF pit_tick, leaseVars, client, LeaseInv, LeaseTypeOK
<1>3. CASE ionet_exit
  <2>1. /\ UNCHANGED <<dh_offer_ip, dh_srv_id, g_net_ip, dh_state>>
        /\ leased' = leased /\ net' = net /\ rx' = <<>>
    BY <1>3, Zenon DEF ionet_exit, client
  <2>2. leased \subseteq leased' /\ leased' \subseteq Addrs
    BY <2>1, Zenon DEF LeaseInv, LeaseTypeOK
  <2>3. rx' \in Seq(Message) /\ Len(rx') = 0
    BY <2>1
  <2> QED
    BY <2>1, <2>2, <2>3, WireKeeps
<1>4. ASSUME NEW m \in Message, dhcp_rx_ignore(m)
      PROVE  LeaseInv'
  <2>1. /\ UNCHANGED <<dh_offer_ip, dh_srv_id, g_net_ip, dh_state, net, leased>>
        /\ Received(m) /\ rx' = Tail(rx)
    BY <1>4, Zenon DEF dhcp_rx_ignore, client
  <2> QED
    BY <2>1, HeadOfRing, WireKeeps, Zenon DEF LeaseInv, LeaseTypeOK
<1>5. ASSUME NEW m \in net, lose(m)
      PROVE  LeaseInv'
  BY <1>5, WireKeeps, Zenon DEF lose, client, LeaseInv, LeaseTypeOK
<1>6. ASSUME NEW m \in net, deliver(m)
      PROVE  LeaseInv'
  <2>1. /\ UNCHANGED <<dh_offer_ip, dh_srv_id, g_net_ip, dh_state, leased>>
        /\ rx' = Append(rx, m) /\ net' \subseteq net
    BY <1>6, Zenon DEF deliver, client
  <2>2. rx \in Seq(Message) /\ m \in Message /\ leased \subseteq Addrs
    BY Zenon DEF LeaseInv, LeaseTypeOK
  <2>3. /\ rx' \in Seq(Message)
        /\ \A k \in 1..Len(rx') : (\E j \in 1..Len(rx) : rx'[k] = rx[j]) \/ rx'[k] \in net
    <3>1. /\ Len(rx) \in Nat /\ rx' \in Seq(Message) /\ Len(rx') = Len(rx) + 1
          /\ rx'[Len(rx) + 1] = m
      BY <2>1, <2>2
    <3>2. ASSUME NEW k \in 1..Len(rx'), k # Len(rx) + 1
          PROVE  k \in 1..Len(rx) /\ rx'[k] = rx[k]
      <4>1. k \in 1..Len(rx)
        BY <3>1, <3>2
      <4> QED
        BY <2>1, <2>2, <4>1
    <3> QED
      BY <3>1, <3>2, Zenon
  <2> QED
    BY <2>1, <2>2, <2>3, WireKeeps, Zenon
<1> QED
  BY <1>1, <1>2, <1>3, <1>4, <1>5, <1>6, Zenon

LEMMA LeaseStep == LeaseInv /\ [LeaseNext]_leaseVars => LeaseInv'
BY OfferKeeps, AckKeeps, PollKeeps, AnswersKeep, OthersKeep, Zenon DEF LeaseNext, Poll, Network

\* The interface has no address but one that a server has leased to this
\* client (dhcp.c, dhcp_rx), whatever is lost, repeated, late or another's.
THEOREM OnlyLeasedAddress == LeaseSpec => []AddressLeased
<1>1. LeaseInv => AddressLeased
  BY Zenon DEF LeaseInv
<1> QED
  BY <1>1, LeaseInitInv, LeaseStep, PTL DEF LeaseSpec

\* Once configured the address stays (dhcp.c, dhcp_start and dhcp_rx).
THEOREM AddressKept == LeaseSpec => AddressStable
<1>1. LeaseInv /\ [LeaseNext]_leaseVars => [g_net_ip # 0 => g_net_ip' = g_net_ip]_leaseVars
  <2> SUFFICES ASSUME LeaseInv, LeaseNext, g_net_ip # 0
               PROVE  g_net_ip' = g_net_ip
    BY Zenon
  <2>1. dh_state = "BOUND"
    BY Zenon DEF LeaseInv
  <2> QED
    BY <2>1, Zenon DEF LeaseNext, Poll, Network, ionet_init, pit_tick, ionet_exit, dhcp_poll,
                dhcp_rx_offer, dhcp_rx_ack, dhcp_rx_ignore, offer, ack, nak, other_client,
                lose, deliver, client
<1> QED
  BY <1>1, LeaseInitInv, LeaseStep, PTL DEF LeaseSpec, AddressStable
=============================================================================
