------------------------------ MODULE AhciPort ------------------------------
(***************************************************************************)
(* A port of the AHCI driver, iokit/IOStorageFamily/ahci/ahci.cpp: probe   *)
(* and identify, and reads and writes issued as one command per block in   *)
(* slot 0, over a controller whose commands may be late or fail.           *)
(*                                                                         *)
(* issue waits until bit 15 of PxTFD is clear.  The status byte with BSY   *)
(* is the low one; bit 15 lies in the error byte, where a device sets it   *)
(* after a CRC error and clears it with the next command.  A command that  *)
(* timed out therefore does not hold the next one back.                    *)
(***************************************************************************)
EXTENDS Naturals

CONSTANTS
    Size,       \* sectors of the disk
    Calls       \* inputs: [op, lba, count, buf], buf and lba from 1

VARIABLES
    m_attached, m_lba_count,
    port_pc,    \* "new", "gate", "build", "doorbell", "poll", "check", "out"
    call,       \* the read_blocks, write_blocks or identify in progress
    i,          \* its block
    result,     \* what the last call returned: "none", "ok" or "failed"
    table,      \* the command table: [op, lba, buf]
    prdbc,      \* the byte count in the command header
    PxCI,       \* bit 0 of PxCI
    bit15,      \* of PxTFD
    running,    \* the command the controller executes: table and moved
    disk, mem,  \* sectors and the blocks of memory; m_id is block 0
    clean       \* history: no command was running when the call began

driver == <<m_attached, m_lba_count, port_pc, call, i, result, clean>>
device == <<PxCI, bit15, running, disk>>
portVars == <<driver, table, prdbc, device, mem>>

Whole    == 512    \* every buffer is one sector
Initial  == 1      \* what issue leaves in both halves of prdtl_prdbc
Filler   == 90     \* a block of 0xCD
Identity == 91     \* the identify data of this disk
NoCommand     == [op |-> "none", lba |-> 0, buf |-> 0, moved |-> TRUE]
Identify == [op |-> "identify", lba |-> 0, count |-> 1, buf |-> 0]

LastBlock(c) == c.count - 1
Blocks == 0..Size

PortInit ==
    /\ m_attached = FALSE /\ m_lba_count = 0
    /\ port_pc = "new" /\ call = Identify /\ i = 0 /\ result = "none" /\ clean = TRUE
    /\ table = [op |-> "none", lba |-> 0, buf |-> 0] /\ prdbc = 0
    /\ PxCI = FALSE /\ bit15 = FALSE /\ running = NoCommand
    /\ disk = [s \in 1..Size |-> s]
    /\ mem = [b \in Blocks |-> 10 + b]

-----------------------------------------------------------------------------
(* Calls                                                                   *)

Begin(c) ==
    /\ call' = c /\ i' = 0 /\ port_pc' = "gate" /\ result' = "none"
    /\ clean' = (running = NoCommand)

\* Memory, engine, device or signature may be missing: there is no disk then.
probe(there) ==
    /\ port_pc = "new"
    /\ IF there THEN Begin(Identify) /\ mem' = [mem EXCEPT ![0] = Filler]
                ELSE port_pc' = "out" /\ UNCHANGED <<call, i, result, clean, mem>>
    /\ UNCHANGED <<m_attached, m_lba_count, table, prdbc, device>>

\* read_blocks and write_blocks.
transfer(c) ==
    /\ port_pc = "out" /\ m_attached
    /\ Begin(c)
    /\ UNCHANGED <<m_attached, m_lba_count, table, prdbc, device, mem>>

Fails == port_pc' = "out" /\ result' = "failed" /\ UNCHANGED <<m_attached, m_lba_count, i>>

\* The block is done: the next one, or the return, which after an identify
\* takes the size from its data.
Succeeds ==
    /\ IF i < LastBlock(call) THEN i' = i + 1 /\ port_pc' = "gate" /\ UNCHANGED result
                         ELSE port_pc' = "out" /\ result' = "ok" /\ UNCHANGED i
    /\ IF call.op = "identify"
         THEN /\ m_attached' = TRUE
              /\ m_lba_count' = IF mem[0] = Identity THEN Size ELSE Size + 1
         ELSE UNCHANGED <<m_attached, m_lba_count>>

-----------------------------------------------------------------------------
(* issue                                                                   *)

issue_gate ==
    /\ port_pc = "gate"
    /\ IF bit15 THEN Fails
       ELSE port_pc' = "build" /\ UNCHANGED <<m_attached, m_lba_count, i, result>>
    /\ UNCHANGED <<call, clean, table, prdbc, device, mem>>

\* Fault: the byte count of the last command stays in the header.
issue_build_KeepCount ==
    /\ port_pc = "build" /\ port_pc' = "doorbell"
    /\ table' = [op |-> call.op, lba |-> call.lba + i, buf |-> call.buf + i]
    /\ UNCHANGED <<prdbc, m_attached, m_lba_count, call, i, result, clean, device, mem>>

issue_build ==
    /\ port_pc = "build" /\ port_pc' = "doorbell"
    /\ prdbc' = Initial
    /\ table' = [op |-> call.op, lba |-> call.lba + i, buf |-> call.buf + i]
    /\ UNCHANGED <<m_attached, m_lba_count, call, i, result, clean, device, mem>>

\* An idle controller fetches the command long before the driver gives up;
\* one that is still executing the slot sees no change.
issue_doorbell ==
    /\ port_pc = "doorbell" /\ port_pc' = "poll"
    /\ PxCI' = TRUE
    /\ IF PxCI THEN UNCHANGED <<running, bit15>>
       ELSE /\ running' = [op |-> table.op, lba |-> table.lba, buf |-> table.buf,
                           moved |-> FALSE]
            /\ bit15' = FALSE
    /\ UNCHANGED <<m_attached, m_lba_count, call, i, result, clean, table, prdbc, disk, mem>>

issue_poll ==
    /\ port_pc = "poll" /\ ~PxCI
    /\ port_pc' = "check"
    /\ UNCHANGED <<m_attached, m_lba_count, call, i, result, clean, table, prdbc, device, mem>>

\* The command stays issued.
issue_timeout ==
    /\ port_pc = "poll" /\ PxCI
    /\ Fails
    /\ UNCHANGED <<call, clean, table, prdbc, device, mem>>

issue_check ==
    /\ port_pc = "check"
    /\ IF prdbc = Whole THEN Succeeds ELSE Fails
    /\ UNCHANGED <<call, clean, table, prdbc, device, mem>>

-----------------------------------------------------------------------------
(* The controller and its disk                                             *)

Move ==
    /\ running # NoCommand /\ ~running.moved
    /\ running' = [running EXCEPT !.moved = TRUE]
    /\ prdbc' = Whole
    /\ disk' = IF running.op = "write" THEN [disk EXCEPT ![running.lba] = mem[running.buf]]
                                       ELSE disk
    /\ mem' = CASE running.op = "write"    -> mem
                [] running.op = "read"     -> [mem EXCEPT ![running.buf] = disk[running.lba]]
                [] running.op = "identify" -> [mem EXCEPT ![running.buf] = Identity]
    /\ UNCHANGED <<driver, table, PxCI, bit15>>

Complete ==
    /\ running # NoCommand /\ running.moved
    /\ running' = NoCommand /\ PxCI' = FALSE
    /\ UNCHANGED <<driver, table, prdbc, bit15, disk, mem>>

\* A device error transfers nothing; crc is one of the errors.
Error(crc) ==
    /\ running # NoCommand /\ ~running.moved
    /\ running' = NoCommand /\ PxCI' = FALSE /\ bit15' = crc
    /\ UNCHANGED <<driver, table, prdbc, disk, mem>>

PortNext ==
    \/ \E there \in BOOLEAN : probe(there)
    \/ \E c \in Calls : transfer(c)
    \/ issue_gate \/ issue_build \/ issue_doorbell
    \/ issue_poll \/ issue_timeout \/ issue_check
    \/ Move \/ Complete \/ \E crc \in BOOLEAN : Error(crc)

PortSpec == PortInit /\ [][PortNext]_portVars

-----------------------------------------------------------------------------
\* A call that began with no command left running and reports success has
\* moved every one of its sectors between the disk and its own buffer, and a
\* disk is attached only with the size it reported: neither an error nor the
\* byte count of an earlier command, nor one that timed out and ended since,
\* passes for the command's own success.
BlocksMoved ==
    /\ (port_pc = "out" /\ result = "ok" /\ clean /\ call.op # "identify") =>
           \A k \in 0..LastBlock(call) : disk[call.lba + k] = mem[call.buf + k]
    /\ m_attached => m_lba_count = Size

\* ahci.cpp:189: "wait until the port is not busy with a previous command": a
\* command is built and issued while no other is executed.
PortNotBusy == port_pc \in {"build", "doorbell"} => running = NoCommand
=============================================================================
