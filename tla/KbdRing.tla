------------------------------ MODULE KbdRing ------------------------------
(***************************************************************************)
(* The keyboard ring of iokit/IOHIDFamily/atkbd.c.  Interrupt handlers     *)
(* (IRQ1, and the USB keyboard polled from the timer tick) push with       *)
(* interrupts off, so a push is one step for them.  The kernel thread runs *)
(* with interrupts on: it takes characters out with atkbd_pollchar, and,   *)
(* if MainPolls, also pushes by calling atkbd_poll; every access it makes  *)
(* to the shared indices is a step of its own.                             *)
(***************************************************************************)
EXTENDS Naturals, Sequences

CONSTANTS
    KBD_BUF_SIZE,
    MainPolls,    \* does the kernel thread also call atkbd_poll
    MaxTyped      \* bound on the number of keys

ASSUME KbdAssumption ==
    KBD_BUF_SIZE \in Nat /\ KBD_BUF_SIZE > 1 /\ MainPolls \in BOOLEAN /\ MaxTyped \in Nat

VARIABLES
    g_kbd_buf, g_kbd_head, g_kbd_tail,
    pc,          \* where the kernel thread is
    next, key,   \* its locals in kbd_push
    c,           \* its local in atkbd_getchar
    typed,       \* history: keys are numbered as they are pushed
    delivered    \* history: what atkbd_pollchar returned

ring == <<g_kbd_buf, g_kbd_head, g_kbd_tail>>
keyVars == <<ring, pc, next, key, c, typed, delivered>>

Slots == 0..(KBD_BUF_SIZE - 1)
Succ(i) == (i + 1) % KBD_BUF_SIZE

KeysInit ==
    /\ g_kbd_buf = [i \in Slots |-> 0]
    /\ g_kbd_head = 0 /\ g_kbd_tail = 0
    /\ pc = "test"
    /\ next = 0 /\ key = 0 /\ c = 0
    /\ typed = 0 /\ delivered = <<>>

\* An interrupt ends the hlt of atkbd_pollchar.
Wake == pc' = IF pc = "halted" THEN "test" ELSE pc

-----------------------------------------------------------------------------
\* kbd_push from an interrupt handler.
kbd_push_irq ==
    /\ typed < MaxTyped
    /\ typed' = typed + 1
    /\ IF Succ(g_kbd_head) # g_kbd_tail
         THEN /\ g_kbd_buf' = [g_kbd_buf EXCEPT ![g_kbd_head] = typed']
              /\ g_kbd_head' = Succ(g_kbd_head)
         ELSE UNCHANGED <<g_kbd_buf, g_kbd_head>>
    /\ Wake
    /\ UNCHANGED <<g_kbd_tail, next, key, c, delivered>>

\* Fault: the timer interrupt does not resume the thread.
pit_tick_NoWake == pc = "halted" /\ UNCHANGED keyVars

\* A timer tick that brings no key: only the end of a hlt is visible here.
pit_tick ==
    /\ pc = "halted"
    /\ Wake
    /\ UNCHANGED <<ring, next, key, c, typed, delivered>>

-----------------------------------------------------------------------------
\* atkbd_getchar: is there a character?  If not, atkbd_pollchar goes to halt.
atkbd_getchar_test ==
    /\ pc = "test"
    /\ pc' = IF g_kbd_tail = g_kbd_head THEN "pause" ELSE "read"
    /\ UNCHANGED <<ring, next, key, c, typed, delivered>>

\* pause; hlt: an interrupt that came since the test does not end this hlt.
atkbd_pollchar_hlt ==
    /\ pc = "pause"
    /\ pc' = "halted"
    /\ UNCHANGED <<ring, next, key, c, typed, delivered>>

\* Fault: the tail is advanced at the read, and again at the release.
atkbd_getchar_read_Early ==
    /\ pc = "read"
    /\ c' = g_kbd_buf[g_kbd_tail]
    /\ g_kbd_tail' = Succ(g_kbd_tail)
    /\ pc' = "advance"
    /\ UNCHANGED <<g_kbd_buf, g_kbd_head, next, key, typed, delivered>>

atkbd_getchar_read ==
    /\ pc = "read"
    /\ c' = g_kbd_buf[g_kbd_tail]
    /\ pc' = "advance"
    /\ UNCHANGED <<ring, next, key, typed, delivered>>

atkbd_getchar_advance ==
    /\ pc = "advance"
    /\ g_kbd_tail' = Succ(g_kbd_tail)
    /\ delivered' = Append(delivered, c)
    /\ pc' = "test"
    /\ UNCHANGED <<g_kbd_buf, g_kbd_head, next, key, c, typed>>

-----------------------------------------------------------------------------
\* kbd_push from the kernel thread, with interrupts on.
kbd_push_next ==
    /\ MainPolls /\ pc = "test" /\ typed < MaxTyped
    /\ typed' = typed + 1
    /\ key' = typed'
    /\ next' = Succ(g_kbd_head)
    /\ pc' = "full"
    /\ UNCHANGED <<ring, c, delivered>>

kbd_push_full ==
    /\ pc = "full"
    /\ pc' = IF next # g_kbd_tail THEN "store" ELSE "test"
    /\ UNCHANGED <<ring, next, key, c, typed, delivered>>

kbd_push_store ==
    /\ pc = "store"
    /\ g_kbd_buf' = [g_kbd_buf EXCEPT ![g_kbd_head] = key]
    /\ pc' = "publish"
    /\ UNCHANGED <<g_kbd_head, g_kbd_tail, next, key, c, typed, delivered>>

\* Fault: the head is advanced from its current value, past slots that the
\* thread did not write.
kbd_push_publish_Again ==
    /\ pc = "publish"
    /\ g_kbd_head' = Succ(g_kbd_head)
    /\ pc' = "test"
    /\ UNCHANGED <<g_kbd_buf, g_kbd_tail, next, key, c, typed, delivered>>

kbd_push_publish ==
    /\ pc = "publish"
    /\ g_kbd_head' = next
    /\ pc' = "test"
    /\ UNCHANGED <<g_kbd_buf, g_kbd_tail, next, key, c, typed, delivered>>

-----------------------------------------------------------------------------
Main ==
    \/ atkbd_getchar_test \/ atkbd_pollchar_hlt
    \/ atkbd_getchar_read \/ atkbd_getchar_advance
    \/ kbd_push_full \/ kbd_push_store \/ kbd_push_publish

KeysNext == kbd_push_irq \/ pit_tick \/ kbd_push_next \/ Main

KeysSpec == KeysInit /\ [][KeysNext]_keyVars

\* The thread is scheduled and the timer keeps ticking; keys need not come.
KeysFairSpec == KeysSpec /\ WF_keyVars(Main) /\ WF_keyVars(pit_tick)

-----------------------------------------------------------------------------
KeysTypeOK ==
    /\ g_kbd_buf \in [Slots -> Nat]
    /\ g_kbd_head \in Slots /\ g_kbd_tail \in Slots /\ next \in Slots
    /\ pc \in {"test", "pause", "halted", "read", "advance", "full", "store", "publish"}
    /\ key \in Nat /\ c \in Nat /\ typed \in Nat
    /\ delivered \in Seq(Nat)

\* Between the test in atkbd_getchar and the advance of the tail any number of
\* keys may be pushed: the ring cannot become empty, and the slot that was
\* read is not overwritten before it is released.
ReadStable ==
    /\ pc \in {"read", "advance"} => g_kbd_head # g_kbd_tail
    /\ pc = "advance" => c = g_kbd_buf[g_kbd_tail]

\* Even when the thread's own push races with the interrupt's, where keys may
\* be lost, no key is delivered twice and none overtakes an earlier one.
InOrder ==
    \A i, j \in 1..Len(delivered) : i < j => delivered[i] < delivered[j]

\* The ring's contents, oldest first.
Waiting == (g_kbd_head + KBD_BUF_SIZE - g_kbd_tail) % KBD_BUF_SIZE
Contents == [k \in 1..Waiting |-> g_kbd_buf[(g_kbd_tail + k - 1) % KBD_BUF_SIZE]]

Fifo == INSTANCE BoundedFifo WITH Capacity <- KBD_BUF_SIZE - 1, queue <- Contents

\* With the interrupt handlers as the only producers the ring is a bounded
\* FIFO: a key is dropped only when KBD_BUF_SIZE - 1 keys are waiting.
ImplementsFifo == Fifo!Spec

\* The key n is in the ring; atkbd_getchar has returned it.
InRing(n) == \E k \in 1..Waiting : Contents[k] = n
Delivered(n) == \E k \in 1..Len(delivered) : delivered[k] = n
=============================================================================
