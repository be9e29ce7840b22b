---------------------------- MODULE Trampolines ----------------------------
(***************************************************************************)
(* The register and stack traffic of osfmk/x86_64/isr.asm: the interrupt   *)
(* frame, sched_switch.resume, the system call gate, and the frame that    *)
(* task_set_entry (proc.c) builds for a task that has never run.  A stack  *)
(* is a sequence of words with its top last; a word and a register hold a  *)
(* value or a code label, all of them strings.                             *)
(***************************************************************************)
EXTENDS Integers, Sequences, Functions

CONSTANTS
    Values           \* what a program may hold in its registers

\* PUSHALL, in the order of the pushes, and the words iretq consumes.
Pushed == <<"rax", "rcx", "rdx", "rbx", "rbp", "rsi", "rdi", "r8", "r9",
            "r10", "r11", "r12", "r13", "r14", "r15">>
CpuFrame == <<"ss", "rsp", "rflags", "cs", "rip">>
CalleeSaved == <<"rbx", "rbp", "r12", "r13", "r14", "r15">>
Regs == Range(Pushed)
Handed == {"rax", "rdi", "rsi", "rdx"}

VARIABLES
    regs, stack,
    at,              \* the code that runs
    before,          \* history: the registers at the interrupt or the call
    call             \* what syscall_dispatch was called with, or None

registerVars == <<regs, stack, at, before, call>>
Zero == "0"
NoCall == [num |-> Zero, a |-> <<>>]

\* A program runs with something in the registers the gate hands over; the
\* others are zero.  Or the scheduler is about to start a task.
RegistersInit ==
    /\ \E v \in [Handed -> Values] :
           regs = [r \in Regs |-> IF r \in Handed THEN v[r] ELSE Zero]
    /\ stack = <<>> /\ at \in {"program", "sched_boot"}
    /\ before = regs /\ call = NoCall

\* A frame of the CPU: where to continue, under the caller's flags.
PushCpu(rip) == stack \o <<Zero, Zero, Zero, Zero, rip>>
Top(n) == SubSeq(stack, Len(stack) - n + 1, Len(stack))
Dropped(n) == SubSeq(stack, 1, Len(stack) - n)

\* Fault: two registers are pushed in the wrong order.
PUSHALL_Swapped(s) ==
    s \o [k \in DOMAIN Pushed |->
              regs[Pushed[CASE k = 6 -> 7 [] k = 7 -> 6 [] OTHER -> k]]]

PUSHALL(s) == s \o [k \in DOMAIN Pushed |-> regs[Pushed[k]]]

\* POPALL and iretq on the saved words w.
POPALL_iretq(w) ==
    LET n == Len(Pushed)
    IN  /\ regs' = [r \in Regs |-> w[CHOOSE k \in 1..n : Pushed[k] = r]]
        /\ at' = stack[Len(stack) - n]
        /\ stack' = Dropped(n + Len(CpuFrame))

-----------------------------------------------------------------------------
\* A timer interrupt with no task to schedule: the handler is C code that
\* may leave anything in the registers the caller does not expect back.
irq0_handler ==
    /\ at = "program" /\ call = NoCall
    /\ before' = regs
    /\ stack' = PUSHALL(PushCpu("program"))
    /\ \E v \in Values : regs' = [r \in Regs |->
           IF r \in Range(CalleeSaved) THEN regs[r] ELSE v]
    /\ at' = "irq0_resume"
    /\ UNCHANGED call

irq0_resume ==
    /\ at = "irq0_resume"
    /\ POPALL_iretq(Top(Len(Pushed)))
    /\ UNCHANGED <<before, call>>

\* syscall_handler loads a1, a2, a3 and the number into the first four
\* argument registers, where syscall_dispatch expects the number first.
syscall_handler ==
    /\ at = "program" /\ call = NoCall
    /\ before' = regs
    /\ stack' = PUSHALL(PushCpu("program"))
    /\ regs' = [regs EXCEPT !["rcx"] = regs["rax"]]
    /\ call' = [num |-> regs'["rdi"],
                a |-> <<regs'["rsi"], regs'["rdx"], regs'["rcx"]>>]
    /\ at' = "syscall_ret"

\* The result goes into the saved rax.
syscall_ret ==
    /\ at = "syscall_ret"
    /\ \E v \in Values : POPALL_iretq([Top(Len(Pushed)) EXCEPT ![1] = v])
    /\ call' = NoCall
    /\ UNCHANGED before

-----------------------------------------------------------------------------
\* sched_boot, with the frame of task_set_entry on the stack of the task.
task_set_entry ==
    /\ at = "sched_boot" /\ stack = <<>>
    /\ stack' = <<Zero, Zero, Zero, Zero, "entry">>
                \o [k \in DOMAIN Pushed |-> Zero] \o <<"irq0_resume">>
    /\ at' = "resume"
    /\ UNCHANGED <<regs, before, call>>

\* sched_switch.resume: six pops and a return.
resume ==
    /\ at = "resume"
    /\ LET w == Top(Len(CalleeSaved))
       IN  regs' = [r \in Regs |->
               IF r \in Range(CalleeSaved)
               THEN w[CHOOSE k \in DOMAIN CalleeSaved : CalleeSaved[k] = r]
               ELSE regs[r]]
    /\ at' = stack[Len(stack) - Len(CalleeSaved)]
    /\ stack' = Dropped(Len(CalleeSaved) + 1)
    /\ UNCHANGED <<before, call>>

RegistersNext ==
    \/ irq0_handler \/ irq0_resume
    \/ syscall_handler \/ syscall_ret
    \/ task_set_entry \/ resume

RegistersSpec == RegistersInit /\ [][RegistersNext]_registerVars

\* An interrupted program goes on with the registers it had, and a system
\* call changes rax alone: the frame of PUSHALL is undone by POPALL.
RegistersKept ==
    [][at # "program" /\ at' = "program" =>
           /\ stack' = <<>>
           /\ \A r \in Regs \ (IF at = "syscall_ret" THEN {"rax"} ELSE {}) :
                  regs'[r] = before[r]]_registerVars

\* proc.c:81, a new task's frame is built "so that sched_start ->
\* irq0_resume lands inside the task".
EntryReached ==
    [][at = "resume" => at' = "irq0_resume"]_registerVars
=============================================================================
