------------------------------- MODULE UsbMsc -------------------------------
(***************************************************************************)
(* Reading a USB disk: usbdisk_read and scsi_rw10 split a request into     *)
(* chunks, msc_command carries each out as a command, a data and a status  *)
(* transfer, and msc_request_sense follows a failed chunk.  Each transfer  *)
(* may fail; the answer of one that timed out stays with the device and is *)
(* the first thing a later transfer receives.  No failure resets the       *)
(* device.                                                                 *)
(***************************************************************************)
EXTENDS Integers, Sequences, FiniteSets

CONSTANTS
    BlockLen,      \* addresses are in units small enough to be misaligned
    Window,        \* what a transfer must not cross: 64 KiB
    MSC_MAX_CHUNK,
    DiskReads,     \* inputs: [lba, count, buf]
    MaxFails       \* bound: transfers that fail

VARIABLES
    msc_pc,    \* "idle", "chunk", "cbw", "data", "csw", "done" or "failed"
    req,       \* the request
    at,        \* how far it is: [lba, p, remaining]
    chunk,     \* blocks in the current command
    sense,     \* the command in progress is REQUEST SENSE
    g_tag,     \* counts modulo 8: more than the answers that can be late
    inq,       \* what the device has to send: [kind, tag, lba, n]
    moved,     \* the blocks received so far: <<address, block>>
    fails

mscVars == <<msc_pc, req, at, chunk, sense, g_tag, inq, moved, fails>>

None == [lba |-> 0, count |-> 0, buf |-> 0]

MscInit ==
    /\ msc_pc = "idle" /\ req = None /\ at = [lba |-> 0, p |-> 0, remaining |-> 0]
    /\ chunk = 0 /\ sense = FALSE /\ g_tag = 0 /\ inq = <<>> /\ moved = {} /\ fails = 0

usbdisk_read(r) ==
    /\ msc_pc \in {"idle", "done", "failed"} /\ msc_pc' = "chunk"
    /\ req' = r
    /\ at' = [lba |-> r.lba, p |-> r.buf, remaining |-> r.count]
    /\ moved' = {} /\ sense' = FALSE
    /\ UNCHANGED <<chunk, g_tag, inq, fails>>

Least(a, b) == IF a < b THEN a ELSE b
Most(a, b)  == IF a > b THEN a ELSE b

\* Fault: the last byte of the window is not used.
Chunk_Short(a) == Least(Least(a.remaining, Most(MSC_MAX_CHUNK \div BlockLen, 1)),
                        (Window - (a.p % Window) - 1) \div BlockLen)

\* 0 when less than a block is left in the window.
Chunk(a) == Least(Least(a.remaining, Most(MSC_MAX_CHUNK \div BlockLen, 1)),
                  (Window - (a.p % Window)) \div BlockLen)

scsi_rw10 ==
    /\ msc_pc = "chunk"
    /\ IF at.remaining = 0 THEN msc_pc' = "done" /\ UNCHANGED chunk
       ELSE msc_pc' = "cbw" /\ chunk' = Chunk(at)
    /\ UNCHANGED <<req, at, sense, g_tag, inq, moved, fails>>

\* A failed command: read the sense data, and whatever comes of it, give up.
Fail ==
    IF sense THEN msc_pc' = "failed" /\ sense' = FALSE ELSE msc_pc' = "cbw" /\ sense' = TRUE

-----------------------------------------------------------------------------
(* msc_command                                                             *)

HasData == sense \/ chunk > 0

Answer == (IF HasData
             THEN <<[kind |-> IF sense THEN "sense" ELSE "data", tag |-> g_tag',
                     lba |-> at.lba, n |-> IF sense THEN 0 ELSE chunk]>> ELSE <<>>)
          \o <<[kind |-> "csw", tag |-> g_tag', lba |-> 0, n |-> 0]>>

SendCbw ==
    /\ msc_pc = "cbw"
    /\ g_tag' = (g_tag + 1) % 8
    /\ inq' = inq \o Answer
    /\ msc_pc' = IF HasData THEN "data" ELSE "csw"
    /\ UNCHANGED <<req, at, chunk, sense, moved, fails>>

SendFails ==
    /\ msc_pc = "cbw" /\ fails < MaxFails /\ fails' = fails + 1
    /\ g_tag' = (g_tag + 1) % 8
    /\ Fail
    /\ UNCHANGED <<req, at, chunk, inq, moved>>

\* The controller reports a transfer of another length than asked for.
FitsChunk(item) == item.kind = (IF sense THEN "sense" ELSE "data") /\ (sense \/ item.n = chunk)

ReceiveData ==
    /\ msc_pc = "data" /\ inq # <<>>
    /\ inq' = Tail(inq)
    /\ IF FitsChunk(Head(inq))
         THEN /\ msc_pc' = "csw"
              /\ moved' = IF sense THEN moved
                          ELSE moved \cup {<<at.p + i * BlockLen, Head(inq).lba + i>> :
                                              i \in 0..(chunk - 1)}
              /\ UNCHANGED sense
         ELSE Fail /\ UNCHANGED moved
    /\ UNCHANGED <<req, at, chunk, g_tag, fails>>

\* Fault: any status is taken for the command's own.
Own_Any(csw) == csw.kind = "csw"

Own(csw) == csw.kind = "csw" /\ csw.tag = g_tag

\* After its own good status the chunk is done.
ReceiveCsw(good) ==
    /\ msc_pc = "csw" /\ inq # <<>>
    /\ inq' = Tail(inq)
    /\ IF good THEN UNCHANGED fails ELSE fails < MaxFails /\ fails' = fails + 1
    /\ IF ~Own(Head(inq)) \/ ~good \/ sense
         THEN Fail /\ UNCHANGED at
         ELSE /\ msc_pc' = "chunk"
              /\ at' = [lba |-> at.lba + chunk, p |-> at.p + chunk * BlockLen,
                        remaining |-> at.remaining - chunk]
              /\ UNCHANGED sense
    /\ UNCHANGED <<req, chunk, g_tag, moved>>

\* A transfer times out before the device answers.
TimesOut ==
    /\ msc_pc \in {"data", "csw"} /\ (fails < MaxFails \/ inq = <<>>)
    /\ fails' = IF inq = <<>> THEN fails ELSE fails + 1
    /\ Fail
    /\ UNCHANGED <<req, at, chunk, g_tag, inq, moved>>

MscNext ==
    \/ \E r \in DiskReads : usbdisk_read(r)
    \/ scsi_rw10 \/ SendCbw \/ SendFails \/ ReceiveData \/ TimesOut
    \/ \E good \in BOOLEAN : ReceiveCsw(good)

\* A call that has begun goes on until it returns.
MscFairness == WF_mscVars(scsi_rw10 \/ SendCbw \/ ReceiveData \/ ReceiveCsw(TRUE))
            /\ WF_mscVars(TimesOut /\ inq = <<>>)

MscSpec == MscInit /\ [][MscNext]_mscVars /\ MscFairness

-----------------------------------------------------------------------------
\* A read that reports success has put the blocks it was asked for, and only
\* those, where it was asked to, also when the answers of earlier commands
\* arrive in its place; and no chunk crosses a window.
DiskReadDelivers ==
    /\ msc_pc = "done" =>
           moved = {<<req.buf + i * BlockLen, req.lba + i>> : i \in 0..(req.count - 1)}
    /\ (msc_pc = "data" /\ ~sense) => (at.p % Window) + chunk * BlockLen <= Window

\* "Split a big R/W into 64KB-safe chunks": a read returns.  It holds for
\* buffers at a multiple of the block length.
ReadReturns == msc_pc = "chunk" ~> msc_pc \in {"done", "failed"}
=============================================================================
