------------------------------ MODULE E1000Rx ------------------------------
(***************************************************************************)
(* The receive ring of iokit/IONetFamily/e1000.c.  The device (external)   *)
(* fills descriptors from its head up to the tail register and sets their  *)
(* DD bit, while e1000_poll takes them at rx_tail, clears DD and moves the *)
(* tail register up.  Frames are numbered as they arrive.                  *)
(***************************************************************************)
EXTENDS Integers, Sequences

CONSTANTS
    RX_DESC_COUNT,   \* more than one
    MaxFrames        \* bound: frames arriving

VARIABLES
    rx_ring,    \* slot -> DD bit and frame in its buffer
    RDH, RDT,   \* device registers
    rx_tail,
    rx_pc,      \* where e1000_poll is
    arrived,    \* history: frames that came in
    handed_up   \* history: frames passed to ether_rx

rxVars == <<rx_ring, RDH, RDT, rx_tail, rx_pc, arrived, handed_up>>

RxDescs == 0..(RX_DESC_COUNT - 1)
RxSucc(i) == (i + 1) % RX_DESC_COUNT

\* Fault: all descriptors are given to the device, which then cannot tell a
\* full ring from an empty one.
Init_AllGiven ==
    /\ rx_ring = [i \in RxDescs |-> [dd |-> FALSE, frame |-> 0]]
    /\ RDH = 0 /\ RDT = 0 /\ rx_tail = 0
    /\ rx_pc = "poll" /\ arrived = 0 /\ handed_up = <<>>

RxInit ==
    /\ rx_ring = [i \in RxDescs |-> [dd |-> FALSE, frame |-> 0]]
    /\ RDH = 0 /\ RDT = RX_DESC_COUNT - 1 /\ rx_tail = 0
    /\ rx_pc = "poll" /\ arrived = 0 /\ handed_up = <<>>

\* The device stores a frame if it owns a descriptor, else drops it.
receive ==
    /\ arrived < MaxFrames
    /\ arrived' = arrived + 1
    /\ IF RDH # RDT
         THEN /\ rx_ring' = [rx_ring EXCEPT ![RDH] = [dd |-> TRUE, frame |-> arrived']]
              /\ RDH' = RxSucc(RDH)
         ELSE UNCHANGED <<rx_ring, RDH>>
    /\ UNCHANGED <<RDT, rx_tail, rx_pc, handed_up>>

\* The frame is copied and handed up.
e1000_poll_take ==
    /\ rx_pc = "poll" /\ rx_ring[rx_tail].dd
    /\ handed_up' = Append(handed_up, rx_ring[rx_tail].frame)
    /\ rx_pc' = "clear"
    /\ UNCHANGED <<rx_ring, RDH, RDT, rx_tail, arrived>>

e1000_poll_clear ==
    /\ rx_pc = "clear"
    /\ rx_ring' = [rx_ring EXCEPT ![rx_tail].dd = FALSE]
    /\ rx_pc' = "return"
    /\ UNCHANGED <<RDH, RDT, rx_tail, arrived, handed_up>>

\* Fault: the driver steps over the next descriptor.
e1000_poll_return_Skip ==
    /\ rx_pc = "return"
    /\ RDT' = rx_tail
    /\ rx_tail' = RxSucc(RxSucc(rx_tail))
    /\ rx_pc' = "poll"
    /\ UNCHANGED <<rx_ring, RDH, arrived, handed_up>>

\* Give the buffer back and step on.
e1000_poll_return ==
    /\ rx_pc = "return"
    /\ RDT' = rx_tail
    /\ rx_tail' = RxSucc(rx_tail)
    /\ rx_pc' = "poll"
    /\ UNCHANGED <<rx_ring, RDH, arrived, handed_up>>

Driver == e1000_poll_take \/ e1000_poll_clear \/ e1000_poll_return

RxNext == receive \/ Driver

\* The tick calls e1000_poll again and again.
RxSpec == RxInit /\ [][RxNext]_rxVars /\ WF_rxVars(Driver)

-----------------------------------------------------------------------------
RxWaiting == (RDH + RX_DESC_COUNT - rx_tail) % RX_DESC_COUNT
RxContents == [k \in 1..RxWaiting |-> rx_ring[(rx_tail + k - 1) % RX_DESC_COUNT].frame]

BeforeLast(s) == SubSeq(s, 1, Len(s) - 1)

\* A frame leaves the abstract queue when its descriptor is given back.
RxFifo == INSTANCE BoundedFifo WITH
            Capacity <- RX_DESC_COUNT - 1,
            typed <- arrived,
            queue <- RxContents,
            delivered <- IF rx_pc = "poll" THEN handed_up ELSE BeforeLast(handed_up)

\* Frames reach ether_rx in order and once each, and one is dropped only when
\* every descriptor but one is waiting for the driver.
RxImplementsFifo == RxFifo!Spec

\* Every frame the ring holds is handed up.
FramesDelivered ==
    \A n \in 1..MaxFrames :
        (\E k \in 1..RxWaiting : RxContents[k] = n)
            ~> (\E k \in DOMAIN handed_up : handed_up[k] = n)
=============================================================================
