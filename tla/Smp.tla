-------------------------------- MODULE Smp ---------------------------------
(***************************************************************************)
(* Starting the application processors: smp_init and start_ap in           *)
(* osfmk/x86_64/smp.c on the boot processor, trampoline.S and ap_entry on  *)
(* every other one.  All share one record at 0x8200, tramp, and the        *)
(* start-up interrupts go to all processors but the sender.                *)
(*                                                                         *)
(* CPU 0 is the boot processor; the stack of a CPU is its number in        *)
(* ap_stacks.  How far a processor gets between two steps of the boot      *)
(* processor is open: the delays are counted loops.                        *)
(***************************************************************************)
EXTENDS Integers, FiniteSets

CONSTANT MaxAPs     \* application processors at most

VARIABLES
    n,          \* how many there are: cpu_count - 1
    bsp, c,     \* the boot processor's place in start_ap, and the CPU it starts
    tramp,      \* the shared record; cr3 and entry are the same for all
    ap,         \* each processor: its place, and the stack and number it took
    online      \* the CPUs whose record says online

cpuVars == <<n, bsp, c, tramp, ap, online>>

APs == 1..n

\* An application processor ignores everything but INIT until it gets one.
CpusInit ==
    /\ n \in 1..MaxAPs
    /\ bsp = "fill" /\ c = 1
    /\ tramp = [stack |-> 0, cpu_id |-> 0, ready |-> FALSE]
    /\ ap = [a \in APs |-> [pc |-> "off", stack |-> 0, id |-> 0]]
    /\ online = {0}

-----------------------------------------------------------------------------
(* The boot processor                                                      *)

Fill ==
    /\ bsp = "fill" /\ c \in APs
    /\ tramp' = [stack |-> c, cpu_id |-> c, ready |-> FALSE]
    /\ bsp' = "init"
    /\ UNCHANGED <<n, c, ap, online>>

\* INIT, to all: whatever they were doing, they wait for a start-up interrupt.
SendInit ==
    /\ bsp = "init"
    /\ ap' = [a \in APs |-> [pc |-> "wait", stack |-> 0, id |-> 0]]
    /\ bsp' = "sipi"
    /\ UNCHANGED <<n, c, tramp, online>>

\* Two start-up interrupts, to all; only a processor that waits takes one, and
\* a broken one does not ("AP did not come up").
SendSipi ==
    /\ bsp \in {"sipi", "sipi2"}
    /\ \E taken \in SUBSET {a \in APs : ap[a].pc = "wait"} :
          ap' = [a \in APs |-> IF a \in taken THEN [ap[a] EXCEPT !.pc = "tramp"] ELSE ap[a]]
    /\ bsp' = IF bsp = "sipi" THEN "sipi2" ELSE "poll"
    /\ UNCHANGED <<n, c, tramp, online>>

\* Fault: the number of polls is not bounded.
Poll_Forever ==
    /\ bsp = "poll"
    /\ IF tramp.ready THEN online' = online \cup {c} /\ bsp' = "fill" /\ c' = c + 1
       ELSE UNCHANGED <<online, bsp, c>>
    /\ UNCHANGED <<n, tramp, ap>>

\* The flag is seen, or the polls are used up.
Poll ==
    /\ bsp = "poll"
    /\ \/ tramp.ready /\ online' = online \cup {c}
       \/ UNCHANGED online
    /\ bsp' = "fill" /\ c' = c + 1
    /\ UNCHANGED <<n, tramp, ap>>

smp_init == Fill \/ SendInit \/ SendSipi \/ Poll

-----------------------------------------------------------------------------
(* An application processor                                                *)

\* trampoline.S, up to the load of rsp from 0x8200.
Trampoline(a) ==
    /\ ap[a].pc = "tramp"
    /\ ap' = [ap EXCEPT ![a].pc = "entry", ![a].stack = tramp.stack]
    /\ UNCHANGED <<n, bsp, c, tramp, online>>

\* Fault: the processor reports itself ready before it has its number.
ap_entry_Early(a) ==
    \/ /\ ap[a].pc = "entry"
       /\ tramp' = [tramp EXCEPT !.ready = TRUE]
       /\ ap' = [ap EXCEPT ![a].pc = "signal"]
       /\ UNCHANGED <<n, bsp, c, online>>
    \/ /\ ap[a].pc = "signal"
       /\ ap' = [ap EXCEPT ![a].pc = "hlt", ![a].id = tramp.cpu_id]
       /\ online' = online \cup {tramp.cpu_id}
       /\ UNCHANGED <<n, bsp, c, tramp>>

ap_entry(a) ==
    \/ /\ ap[a].pc = "entry"
       /\ ap' = [ap EXCEPT ![a].pc = "signal", ![a].id = tramp.cpu_id]
       /\ online' = online \cup {tramp.cpu_id}
       /\ UNCHANGED <<n, bsp, c, tramp>>
    \/ /\ ap[a].pc = "signal"
       /\ tramp' = [tramp EXCEPT !.ready = TRUE]
       /\ ap' = [ap EXCEPT ![a].pc = "hlt"]
       /\ UNCHANGED <<n, bsp, c, online>>

CpusNext == smp_init \/ \E a \in APs : Trampoline(a) \/ ap_entry(a)

\* Processors run: none of them stops between two instructions.
Fairness ==
    WF_cpuVars(smp_init) /\ \A a \in 1..MaxAPs : WF_cpuVars(a \in APs /\ (Trampoline(a) \/ ap_entry(a)))

CpusSpec == CpusInit /\ [][CpusNext]_cpuVars /\ Fairness

-----------------------------------------------------------------------------
\* A sole application processor runs under its own number on its own stack
\* however slow it is, and is online only once it does.  With several, the
\* interrupts restart all of them each time and they take what the record
\* holds: whoever runs C code has a stack of ap_stacks that has been handed
\* out, with its own number or that of the CPU started next.
StackBeforeNumber ==
    /\ \A a \in APs : ap[a].pc \in {"signal", "hlt"} =>
          1 <= ap[a].stack /\ ap[a].stack <= ap[a].id /\ ap[a].id <= ap[a].stack + 1
    /\ n = 1 => /\ ap[1].pc \in {"signal", "hlt"} => ap[1].stack = 1 /\ ap[1].id = 1
                /\ 1 \in online => ap[1].pc \in {"signal", "hlt"}

\* Start-up ends, whether or not anyone answers, and everyone comes to rest.
StartUpEnds == <>[](bsp = "fill" /\ c = n + 1 /\ \A a \in APs : ap[a].pc \in {"hlt", "wait"})
=============================================================================
