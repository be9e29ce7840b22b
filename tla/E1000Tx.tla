------------------------------ MODULE E1000Tx ------------------------------
(***************************************************************************)
(* The transmit path of iokit/IONetFamily/e1000.c: every frame is copied   *)
(* into the one bounce page, a descriptor that points at it is published,  *)
(* and e1000_send waits for the device (external) to set DD, but not for   *)
(* ever.  The device reads the page when it gets to the descriptor.        *)
(***************************************************************************)
EXTENDS Integers, Sequences

CONSTANTS
    TX_DESC_COUNT,
    MaxSends       \* bound on the frames sent

ASSUME TxAssumption == TX_DESC_COUNT \in Nat \ {0}

VARIABLES
    tx_page,     \* the frame in the bounce page
    tx_ring,     \* slot -> DD bit, and (history) the frame it was made for
    TDH, TDT,    \* device registers
    tx_tail,
    late,        \* history: has a wait ended before the device was done
    tx_pc,       \* where e1000_send is
    sends,       \* history: calls of e1000_send, which number the frames
    wire         \* history: <<descriptor's frame, contents read>>

txVars == <<tx_page, tx_ring, TDH, TDT, tx_tail, late, tx_pc, sends, wire>>

TxSlots == 0..(TX_DESC_COUNT - 1)
TxSucc(i) == (i + 1) % TX_DESC_COUNT

TxInit ==
    /\ tx_page = 0
    /\ tx_ring = [i \in TxSlots |-> [dd |-> FALSE, frame |-> 0]]
    /\ TDH = 0 /\ TDT = 0 /\ tx_tail = 0
    /\ late = FALSE /\ tx_pc = "idle" /\ sends = 0 /\ wire = <<>>

RingFull == TxSucc(tx_tail) = TDH

\* -1: the ring is full, or the first call got no frame for the bounce page.
e1000_send_refused ==
    /\ tx_pc = "idle" /\ sends < MaxSends
    /\ RingFull \/ tx_page = 0
    /\ sends' = sends + 1
    /\ UNCHANGED <<tx_page, tx_ring, TDH, TDT, tx_tail, late, tx_pc, wire>>

e1000_send_copy ==
    /\ tx_pc = "idle" /\ sends < MaxSends
    /\ ~RingFull
    /\ sends' = sends + 1
    /\ tx_page' = sends'
    /\ tx_pc' = "publish"
    /\ UNCHANGED <<tx_ring, TDH, TDT, tx_tail, late, wire>>

\* Fault: the old DD bit is left in the descriptor.
e1000_send_publish_StaleDd ==
    /\ tx_pc = "publish"
    /\ tx_ring' = [tx_ring EXCEPT ![tx_tail].frame = sends]
    /\ TDT' = TxSucc(tx_tail) /\ tx_tail' = TxSucc(tx_tail)
    /\ tx_pc' = "wait"
    /\ UNCHANGED <<tx_page, TDH, late, sends, wire>>

\* Descriptor, fence, tail register.
e1000_send_publish ==
    /\ tx_pc = "publish"
    /\ tx_ring' = [tx_ring EXCEPT ![tx_tail] = [dd |-> FALSE, frame |-> sends]]
    /\ TDT' = TxSucc(tx_tail) /\ tx_tail' = TxSucc(tx_tail)
    /\ tx_pc' = "wait"
    /\ UNCHANGED <<tx_page, TDH, late, sends, wire>>

\* The wait ends with the DD bit of the descriptor just published, or after
\* its 200000 rounds.
e1000_send_done ==
    /\ tx_pc = "wait"
    /\ late' = (late \/ \E i \in TxSlots : TxSucc(i) = tx_tail /\ ~tx_ring[i].dd)
    /\ tx_pc' = "idle"
    /\ UNCHANGED <<tx_page, tx_ring, TDH, TDT, tx_tail, sends, wire>>

transmit ==
    /\ TDH # TDT
    /\ wire' = Append(wire, <<tx_ring[TDH].frame, tx_page>>)
    /\ tx_ring' = [tx_ring EXCEPT ![TDH].dd = TRUE]
    /\ TDH' = TxSucc(TDH)
    /\ UNCHANGED <<tx_page, TDT, tx_tail, late, tx_pc, sends>>

TxNext ==
    e1000_send_refused \/ e1000_send_copy \/ e1000_send_publish \/ e1000_send_done \/ transmit

TxSpec == TxInit /\ [][TxNext]_txVars

-----------------------------------------------------------------------------
\* Descriptors go out in the order of the calls and once each, also when waits
\* time out and the ring fills up: no published descriptor is overwritten.  And
\* as long as no wait has timed out, what goes out under a descriptor is the
\* frame the descriptor was made for, although all of them share one page.
FramesIntact ==
    /\ \A j, k \in DOMAIN wire : j < k => wire[j][1] < wire[k][1]
    /\ \A i \in TxSlots : i # tx_tail /\ tx_ring[i].frame # 0 =>
           tx_ring[i].dd \/ (i + TX_DESC_COUNT - TDH) % TX_DESC_COUNT
                              < (TDT + TX_DESC_COUNT - TDH) % TX_DESC_COUNT
    /\ late \/ \A k \in DOMAIN wire : wire[k][1] = wire[k][2]
=============================================================================
