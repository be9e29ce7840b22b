-------------------------------- MODULE Proc --------------------------------
(***************************************************************************)
(* Tasks and the round-robin scheduler of bsd/kern/init_ram_getty/proc.c,  *)
(* with spawn_task of script.c.  System calls enter through a trap gate    *)
(* (syscall.c: 0xEF), so interrupts stay on and the timer may preempt a    *)
(* task between any two steps of proc.c.  What the trampolines of isr.asm  *)
(* do with registers is in Trampolines; here a context switch is taken to  *)
(* work as its comment says.  The module covers the path behind            *)
(* initram_getty_init, which main.c:177 leaves out at present.             *)
(***************************************************************************)
EXTENDS Integers, FiniteSetsExt

CONSTANTS
    PROC_MAX_TASKS,  \* at least 2: idle and init are made at boot
    Creators,        \* the tasks that spawn and vfork
    Waited           \* the tasks that are waited for

Slots == 0..(PROC_MAX_TASKS - 1)

VARIABLES
    g_task_count, g_cur_task,
    state, vfork_parent,
    frame,           \* what sp points to: an entry frame, or where it was
                     \* stored (the point only matters during an exec)
    space,           \* the task whose address space is used
    pc,              \* where the task is in proc.c
    arg,             \* its local: the task made or waited for, while live
    framed           \* history: the slots given a stack frame

table == <<g_task_count, vfork_parent, space, framed>>
taskVars == <<g_task_count, g_cur_task, state, vfork_parent, frame, space, pc,
          arg, framed>>

\* sched_boot, with idle and init made.  TASK_RUNNING is 0, so a slot that
\* was never filled reads as running.
TasksInit ==
    /\ g_task_count = 2 /\ g_cur_task = 0
    /\ state = [s \in Slots |-> "RUNNING"]
    /\ vfork_parent = [s \in Slots |-> 0]
    /\ frame = [s \in Slots |-> "entry"]
    /\ space = [s \in Slots |-> s]
    /\ pc = [s \in Slots |-> "user"]
    /\ arg = [s \in Slots |-> 0]
    /\ framed = {0, 1}

-----------------------------------------------------------------------------
\* Fault: the search begins at slot 0.
NextTask_FromZero(slot) ==
    LET found == {s \in 0..(g_task_count - 1) :
                      s # slot /\ state[s] = "RUNNING"}
    IN  IF found = {} THEN slot ELSE Min(found)

\* The first other running task after slot, or slot itself.
NextTask(slot) ==
    LET found == {i \in 1..(g_task_count - 1) :
                      state[(slot + i) % g_task_count] = "RUNNING"}
    IN  IF found = {} THEN slot ELSE (slot + Min(found)) % g_task_count

\* sched_switch stores sp whether or not another task is chosen.
sched_switch ==
    /\ LET at == pc'[g_cur_task]
       IN  frame' = [frame EXCEPT ![g_cur_task] =
                         IF at \in {"execd", "exec_enter"} THEN at ELSE "left"]
    /\ g_cur_task' = NextTask(g_cur_task)

tick ==
    /\ UNCHANGED pc
    /\ sched_switch
    /\ UNCHANGED <<table, state, arg>>

\* The current task goes from one point to another.
Goes(from, to) ==
    /\ pc[g_cur_task] = from
    /\ pc' = [pc EXCEPT ![g_cur_task] = to]
    /\ UNCHANGED g_cur_task

\* Idle makes no calls.
Calls(to) == g_cur_task # 0 /\ Goes("user", to)

\* Fault: a parent is set running whatever its state.
Woken_Any(st, p) == IF p # 0 /\ p < g_task_count
                    THEN [st EXCEPT ![p] = "RUNNING"] ELSE st

\* The waking of a vfork parent by task_exit and task_exec.
Woken(st, p) == IF p # 0 /\ p < g_task_count /\ st[p] = "WAITING"
                THEN [st EXCEPT ![p] = "RUNNING"] ELSE st

-----------------------------------------------------------------------------
\* task_alloc and task_vfork choose the slot, and fill and count it later.
pick_slot(to) ==
    /\ g_cur_task \in Creators
    /\ g_task_count < PROC_MAX_TASKS
    /\ Calls(to)
    /\ arg' = [arg EXCEPT ![g_cur_task] = g_task_count]
    /\ UNCHANGED <<table, state, frame>>

\* Fault: the slot is counted but not marked NEW.
task_alloc_NotNew ==
    /\ Goes("spawn", "spawned")
    /\ space' = [space EXCEPT ![arg[g_cur_task]] = arg[g_cur_task]]
    /\ g_task_count' = g_task_count + 1
    /\ UNCHANGED <<vfork_parent, framed, state, frame, arg>>

task_alloc ==
    /\ Goes("spawn", "spawned")
    /\ state' = [state EXCEPT ![arg[g_cur_task]] = "NEW"]
    /\ space' = [space EXCEPT ![arg[g_cur_task]] = arg[g_cur_task]]
    /\ g_task_count' = g_task_count + 1
    /\ UNCHANGED <<vfork_parent, framed, frame, arg>>

\* The image is loaded and entered, or the task is dead before it ran.
spawn_task(loaded) ==
    /\ Goes("spawned", "user")
    /\ LET t == arg[g_cur_task]
       IN  /\ state' = [state EXCEPT ![t] = IF loaded THEN "RUNNING"
                                                      ELSE "ZOMBIE"]
           /\ framed' = IF loaded THEN framed \cup {t} ELSE framed
           /\ frame' = IF loaded THEN [frame EXCEPT ![t] = "entry"] ELSE frame
    /\ arg' = [arg EXCEPT ![g_cur_task] = 0]
    /\ UNCHANGED <<g_task_count, vfork_parent, space>>

task_vfork_fill ==
    /\ Goes("vfork", "vforked")
    /\ LET t == arg[g_cur_task]
       IN  /\ state' = [state EXCEPT ![t] = "NEW"]
           /\ space' = [space EXCEPT ![t] = space[g_cur_task]]
           /\ vfork_parent' = [vfork_parent EXCEPT ![t] = g_cur_task]
    /\ g_task_count' = g_task_count + 1
    /\ UNCHANGED <<framed, frame, arg>>

task_vfork_run ==
    /\ Goes("vforked", "vfork_wait")
    /\ LET t == arg[g_cur_task]
       IN  /\ state' = [state EXCEPT ![t] = "RUNNING"]
           /\ framed' = framed \cup {t}
           /\ frame' = [frame EXCEPT ![t] = "entry"]
    /\ arg' = [arg EXCEPT ![g_cur_task] = 0]
    /\ UNCHANGED <<g_task_count, vfork_parent, space>>

\* The parent is marked and returns to its program: there is no switch here.
task_vfork_wait ==
    /\ Goes("vfork_wait", "user")
    /\ state' = [state EXCEPT ![g_cur_task] = "WAITING"]
    /\ UNCHANGED <<table, frame, arg>>

-----------------------------------------------------------------------------
\* A new address space and entry frame (task_set_entry sets it running).
task_exec_entry ==
    /\ Calls("execd")
    /\ space' = [space EXCEPT ![g_cur_task] = g_cur_task]
    /\ frame' = [frame EXCEPT ![g_cur_task] = "entry"]
    /\ state' = [state EXCEPT ![g_cur_task] = "RUNNING"]
    /\ UNCHANGED <<g_task_count, vfork_parent, framed, arg>>

task_exec_wake ==
    /\ Goes("execd", "exec_enter")
    /\ state' = Woken(state, vfork_parent[g_cur_task])
    /\ UNCHANGED <<table, frame, arg>>

\* The epilogue of the system call loads sp: the program is entered, unless
\* a tick has stored another sp since; then the task is back where it was.
exec_enter ==
    /\ LET f == frame[g_cur_task]
       IN  Goes("exec_enter", IF f = "entry" THEN "user" ELSE f)
    /\ UNCHANGED <<table, state, frame, arg>>

task_exit ==
    /\ Calls("exiting")
    /\ state' = [state EXCEPT ![g_cur_task] = "ZOMBIE"]
    /\ UNCHANGED <<table, frame, arg>>

task_exit_wake ==
    /\ Goes("exiting", "halted")
    /\ state' = Woken(state, vfork_parent[g_cur_task])
    /\ UNCHANGED <<table, frame, arg>>

-----------------------------------------------------------------------------
task_wait(pid) ==
    /\ pid < g_task_count
    /\ Calls("wait_check")
    /\ arg' = [arg EXCEPT ![g_cur_task] = pid]
    /\ UNCHANGED <<table, state, frame>>

task_wait_check ==
    /\ Goes("wait_check", IF state[arg[g_cur_task]] = "ZOMBIE"
                          THEN "user" ELSE "wait_set")
    /\ arg' = IF pc'[g_cur_task] = "user" THEN [arg EXCEPT ![g_cur_task] = 0]
                                          ELSE arg
    /\ UNCHANGED <<table, state, frame>>

task_wait_set ==
    /\ Goes("wait_set", "wait_switch")
    /\ state' = [state EXCEPT ![g_cur_task] = "WAITING"]
    /\ UNCHANGED <<table, frame, arg>>

task_wait_switch ==
    /\ pc[g_cur_task] = "wait_switch"
    /\ pc' = [pc EXCEPT ![g_cur_task] = "wait_woken"]
    /\ sched_switch
    /\ UNCHANGED <<table, state, arg>>

task_wait_woken ==
    /\ Goes("wait_woken", "wait_check")
    /\ state' = [state EXCEPT ![g_cur_task] = "RUNNING"]
    /\ UNCHANGED <<table, frame, arg>>

-----------------------------------------------------------------------------
TasksNext ==
    \/ tick
    \/ pick_slot("spawn") \/ pick_slot("vfork")
    \/ task_alloc
    \/ \E loaded \in BOOLEAN : spawn_task(loaded)
    \/ task_vfork_fill \/ task_vfork_run \/ task_vfork_wait
    \/ task_exec_entry \/ task_exec_wake \/ exec_enter
    \/ task_exit \/ task_exit_wake
    \/ \E pid \in Waited : task_wait(pid)
    \/ task_wait_check \/ task_wait_set \/ task_wait_switch \/ task_wait_woken

TasksSpec == TasksInit /\ [][TasksNext]_taskVars

\* The timer keeps ticking; it ends whatever the current task does.
FairSpec == TasksSpec /\ WF_taskVars(tick)

Tasks == 0..(g_task_count - 1)

\* Whatever sched_tick may choose has a stack frame to be resumed from: a
\* counted slot is never taken for running before task_set_entry, although a
\* slot nobody filled has the state TASK_RUNNING.
RunnableIsFramed ==
    \A s \in Tasks : state[s] = "RUNNING" => s \in framed

\* A task that left through task_exit stays a zombie and runs no more of its
\* program: no waking by a child's exit or exec brings it back.
ZombieStays ==
    [][\A s \in Slots : pc[s] \in {"exiting", "halted"} =>
            state'[s] = "ZOMBIE" /\ pc'[s] \in {"exiting", "halted"}]_taskVars

\* sched_tick starves nobody: a task that stays runnable is run again.
Scheduled ==
    \A s \in Slots :
        []<>(g_cur_task = s \/ s >= g_task_count \/ state[s] # "RUNNING")
=============================================================================
