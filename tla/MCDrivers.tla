----------------------------- MODULE MCDrivers ------------------------------
(***************************************************************************)
(* The drivers and their memory for TLC.  A behaviour is one of a single   *)
(* part; the others rest in one state.                                     *)
(*                                                                         *)
(* pool: UsbDmaPool.  Pages of four units, a unit being the smallest       *)
(* alignment the drivers use; requests of a unit, a pair, three units      *)
(* aligned to two (rounded to a page), a page, and more than a page; more  *)
(* frames than the pool may take.                                          *)
(* heap: LibcppHeap.  A frame stack as pmm_init leaves it, with a hole;    *)
(* blocks of less than, exactly and more than a page, and one that takes   *)
(* every frame or, after any other block, finds too few.                   *)
(* ahci: AhciHeap.  Pages of eight units, and requests of which some leave *)
(* the carve position unaligned for the next one.                          *)
(* users: FrameUsers.  Two runs of frames with a hole between them, so     *)
(* that a back buffer of two or three pages sometimes meets the hole.  DMA *)
(* buffers are one page, the size for which one frame is enough; so is the *)
(* game's buffer (its z-buffer and row scratch are; README, section 3, has *)
(* its render buffer).                                                     *)
(* receive, transmit: E1000Rx, E1000Tx.  Rings of three descriptors: two   *)
(* frames fill one, and seven go round it more than twice.                 *)
(* services: IoService.  Three names and four descriptors of services, two *)
(* of which have the same name, in a registry of three slots.              *)
(* rings: Xhci.  Rings of four items; requests of one or two TRBs, two of  *)
(* which may be unanswered.  One of the thread and the tick uses the       *)
(* controller, and both in the run about their race.                       *)
(* disk: UsbMsc.  Blocks of two units and windows of eight; requests that  *)
(* cross a window, end at one, and fit; two transfers fail.                *)
(* sata: AhciPort.  A disk of two sectors; a read of both, a read and a    *)
(* write of one; any command may be late or fail.                          *)
(* bus: UsbEnum.  A root hub with three ports, a hub behind it and another *)
(* behind that; one device more than there are addresses, and fewer pipes  *)
(* and registry entries than devices.                                      *)
(***************************************************************************)
EXTENDS UsbDmaPool, LibcppHeap, AhciHeap, FrameUsers, E1000Rx, E1000Tx, IoService,
        Xhci, UsbMsc, AhciPort, UsbEnum, TLC

VARIABLE part

MCRequests == {<<1, 1>>, <<2, 2>>, <<3, 2>>, <<3, 1>>, <<4, 4>>, <<5, 1>>}
MCHeapStack == <<2, 3, 4, 6, 7>>
MCAhciRequests == {<<4, 4>>, <<3, 4>>, <<2, 2>>}
MCBootStack == <<1, 2, 3, 5, 6, 7, 8>>
MCName == [s \in Services |-> IF s = 4 THEN 3 ELSE s]
MCDiskReads == {[lba |-> 10, count |-> 3, buf |-> 4],
                [lba |-> 20, count |-> 3, buf |-> 4],
                [lba |-> 12, count |-> 2, buf |-> 2]}
MCCalls == {[op |-> "read",  lba |-> 1, count |-> 2, buf |-> 1],
            [op |-> "read",  lba |-> 2, count |-> 1, buf |-> 1],
            [op |-> "write", lba |-> 1, count |-> 1, buf |-> 2]}
MCPorts == 0 :> <<1, 2, 3>> @@ 1 :> <<4, 5>> @@ 4 :> <<6>>

-----------------------------------------------------------------------------
memVars == <<heapVars, carveVars, userVars, portVars>>
nicVars == <<rxVars, txVars, serviceVars>>
usbVars == <<hcVars, mscVars, busVars>>

MCInit ==
    /\ part \in {"pool", "heap", "ahci", "users", "receive", "transmit", "services",
                 "rings", "disk", "sata", "bus"}
    /\ PoolInit /\ HeapInit /\ CarveInit /\ UsersInit
    /\ RxInit /\ TxInit /\ ServicesInit
    /\ HcInit /\ MscInit /\ PortInit /\ BusInit
    /\ part # "rings" => "thread" \in users

MCNext ==
    \/ part = "pool" /\ PoolNext /\ UNCHANGED <<part, memVars, nicVars, usbVars>>
    \/ part = "heap" /\ HeapNext /\ UNCHANGED <<part, poolVars, carveVars, userVars, portVars, nicVars, usbVars>>
    \/ part = "ahci" /\ CarveNext /\ UNCHANGED <<part, poolVars, heapVars, userVars, portVars, nicVars, usbVars>>
    \/ part = "users" /\ UsersNext /\ UNCHANGED <<part, poolVars, heapVars, carveVars, portVars, nicVars, usbVars>>
    \/ part = "receive" /\ RxNext /\ UNCHANGED <<part, poolVars, memVars, txVars, serviceVars, usbVars>>
    \/ part = "transmit" /\ TxNext /\ UNCHANGED <<part, poolVars, memVars, rxVars, serviceVars, usbVars>>
    \/ part = "services" /\ ServicesNext /\ UNCHANGED <<part, poolVars, memVars, rxVars, txVars, usbVars>>
    \/ part = "rings" /\ HcNext /\ UNCHANGED <<part, poolVars, memVars, nicVars, mscVars, busVars>>
    \/ part = "disk" /\ MscNext /\ UNCHANGED <<part, poolVars, memVars, nicVars, hcVars, busVars>>
    \/ part = "sata" /\ PortNext /\ UNCHANGED <<part, poolVars, heapVars, carveVars, userVars, nicVars, usbVars>>
    \/ part = "bus" /\ BusNext /\ UNCHANGED <<part, poolVars, memVars, nicVars, hcVars, mscVars>>

MCSpec ==
    /\ MCInit /\ [][MCNext]_<<part, poolVars, memVars, nicVars, usbVars>>
    /\ WF_rxVars(part = "receive" /\ Driver)
    /\ WF_hcVars(part = "rings" /\ (Look \/ Use \/ MoveOn \/ Answered))
    /\ WF_hcVars(part = "rings" /\ NotYet)
    /\ WF_hcVars(part = "rings" /\ xhci_poll_intr)
    /\ \A r \in {"cmd", "int"} :
          WF_hcVars(part = "rings" /\ (FollowLink(r) \/ Execute(r)))
    /\ WF_mscVars(part = "disk" /\ (scsi_rw10 \/ SendCbw \/ ReceiveData
                                     \/ ReceiveCsw(TRUE)))
    /\ WF_mscVars(part = "disk" /\ TimesOut /\ inq = <<>>)

\* The liveness of a part, in the behaviours that are about it; and the two
\* disk drivers together.
EventsTaken == part = "rings" => EventsProcessed
ReadDelivers == DiskReadDelivers /\ BlocksMoved
=============================================================================
