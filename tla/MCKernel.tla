----------------------------- MODULE MCKernel ------------------------------
(***************************************************************************)
(* The core of the kernel for TLC.  A behaviour is one of a single part;   *)
(* the others rest in one state.                                           *)
(*                                                                         *)
(* frames: Pmm.  Four frames of two bytes on a full stack, two clients,    *)
(* and reservations that start inside a page, cover two pages, hit no      *)
(* frame, and are empty.                                                   *)
(*                                                                         *)
(* boot: PmmInit.  Pages of 4 bytes in a 128-byte address space, frames    *)
(* collected below 48, a guard of 8 bytes, the kernel in 12..17.  The maps *)
(* are all pairs of entries that do not overlap, in either order, as       *)
(* firmware reports them; the second may be of another type.  As in the    *)
(* code the stack holds less than the memory below PMM_MAX_ADDR and more   *)
(* than the guard.                                                         *)
(*                                                                         *)
(* tables: Paging.  Frames for three top tables or for two and one tree,   *)
(* so that every allocation fails somewhere; one address mapped by drivers *)
(* and one image in either half.                                           *)
(*                                                                         *)
(* cpus: Smp with one to three application processors.                     *)
(*                                                                         *)
(* tasks: Proc.  Idle, init and two tasks that init makes; every task may  *)
(* exec, exit, and wait for either of the two.  registers: Trampolines;    *)
(* two values are enough to tell any two registers apart in some state.    *)
(***************************************************************************)
EXTENDS Pmm, PmmInit, Paging, Smp, Proc, Trampolines

VARIABLE part

MCBootStack == <<2, 4, 6, 8>>
MCReservations == {<<3, 1>>, <<6, 3>>, <<10, 2>>, <<4, 0>>}

Entry(b, l, a) == [base |-> b, length |-> l, available |-> a]
Disjoint(e, f) == e.base + e.length <= f.base \/ f.base + f.length <= e.base

Starts  == {0, 3, 5, 8, 21, 32, 50}
Lengths == {1, 4, 9, 20, 29, 40}

AllMaps ==
    {<<e, f>> \in {Entry(b, l, TRUE) : b \in Starts, l \in Lengths}
                  \X {Entry(b, l, a) : b \in Starts, l \in Lengths, a \in BOOLEAN} :
        Disjoint(e, f)}

\* An available entry above the guard, or one with at least one whole page.
HasPage(e) ==
    LET up == ((e.base + 3) \div 4) * 4
        down == ((e.base + e.length) \div 4) * 4
    IN  e.available => up <= down \/ down >= 8

PagedMaps == {m \in AllMaps : HasPage(m[1]) /\ HasPage(m[2])}

MCIdentity == {<<0, 0, 0, 0>>}
MCImages == {<<0, 0, 0, 1>>, <<1, 0, 0, 0>>}

-----------------------------------------------------------------------------
AMap == CHOOSE m \in Maps : TRUE

MCInit ==
    /\ part \in {"frames", "boot", "tables", "cpus", "tasks", "registers"}
    /\ FramesInit /\ TablesInit /\ TasksInit
    /\ BootInit /\ (part # "boot" => map = AMap)
    /\ CpusInit /\ (part # "cpus" => n = 1)
    /\ RegistersInit
    /\ part # "registers" =>
           /\ at = "program"
           /\ regs = [r \in Regs |-> IF r \in Handed THEN "a" ELSE Zero]

MCNext ==
    \/ /\ part = "frames" /\ FramesNext
       /\ UNCHANGED <<part, bootVars, tableVars, cpuVars, taskVars, registerVars>>
    \/ /\ part = "boot" /\ BootNext
       /\ UNCHANGED <<part, framesVars, tableVars, cpuVars, taskVars, registerVars>>
    \/ /\ part = "tables" /\ TablesNext
       /\ UNCHANGED <<part, framesVars, bootVars, cpuVars, taskVars, registerVars>>
    \/ /\ part = "cpus" /\ CpusNext
       /\ UNCHANGED <<part, framesVars, bootVars, tableVars, taskVars, registerVars>>
    \/ /\ part = "tasks" /\ TasksNext
       /\ UNCHANGED <<part, framesVars, bootVars, tableVars, cpuVars, registerVars>>
    \/ /\ part = "registers" /\ RegistersNext
       /\ UNCHANGED <<part, framesVars, bootVars, tableVars, cpuVars, taskVars>>
    \* pmm_init and smp_init return once; what follows a return to address 0
    \* is not modelled
    \/ /\ \/ part = "boot" /\ Done
          \/ part = "cpus" /\ bsp = "fill" /\ c = n + 1
          \/ part = "registers" /\ at = "0"
       /\ UNCHANGED <<part, framesVars, bootVars, tableVars, cpuVars, taskVars, registerVars>>

MCSpec ==
    /\ MCInit
    /\ [][MCNext]_<<part, framesVars, bootVars, tableVars, cpuVars, taskVars, registerVars>>
    /\ WF_cpuVars(part = "cpus" /\ smp_init)
    /\ \A a \in 1..MaxAPs : WF_cpuVars(part = "cpus" /\ a <= n /\ (Trampoline(a) \/ ap_entry(a)))
    /\ WF_taskVars(part = "tasks" /\ tick)

\* The liveness of a part, in the behaviours that are about it.
CpusStart == part = "cpus" => StartUpEnds
TasksRun == part = "tasks" => Scheduled
=============================================================================
