----------------------------- MODULE LvConsole ------------------------------
(***************************************************************************)
(* The LVGL console: gpukit/lv_console.c with its two callers, the         *)
(* printing thread (print_char in printf.c) and the timer interrupt        *)
(* (pit_handler_irq0 in pit.c).  The interrupt comes between any two steps *)
(* of the thread and runs to its end; the drivers it polls may print too.  *)
(*                                                                         *)
(* A character is its number in the output, negative for a newline.  The   *)
(* height of a text is its number of newlines, so that is also where the   *)
(* screen is scrolled to.  Of the clock only the two comparisons the code  *)
(* makes are kept: whether a pump is due, and whether output is idle.      *)
(***************************************************************************)
EXTENDS Integers, Sequences, FiniteSetsExt

CONSTANTS
    CON_KEEP,   \* capacity of the history
    MaxChars,   \* bound: characters printed
    IrqChars    \* bound: the interrupt prints only among so many first characters

ASSUME LogAssumption == CON_KEEP \in Nat /\ CON_KEEP >= 4

VARIABLES
    buf,        \* con_buf[0 .. con_len - 1]
    total_chars, rendered_total,
    label,      \* the text of con_label; Deleted once it is
    cached_target, scroll, anim_pending,
    con_pumping, con_active,
    pumpDue,    \* CON_PUMP_MS have passed since last_pump_ms
    idle,       \* CON_IDLE_MS have passed since last_char_ms
    con_pc, i,  \* the thread's place, and its local in evict_old_lines
    late        \* characters the interrupt printed since the text was copied, during a pump

shown == <<label, cached_target, scroll, anim_pending, rendered_total>>
logVars == <<buf, total_chars, con_pumping, con_active, pumpDue, idle, con_pc, i, late, shown>>

Deleted == <<0>>
Target(text) == Cardinality({k \in DOMAIN text : text[k] < 0})

LogInit ==
    /\ buf = <<>> /\ label = <<>>
    /\ total_chars = 0 /\ rendered_total = 0 /\ cached_target = 0 /\ scroll = 0
    /\ anim_pending = FALSE /\ con_pumping = FALSE /\ con_active = TRUE
    /\ pumpDue = TRUE /\ idle = TRUE
    /\ con_pc = "out" /\ i = 0 /\ late = {}

\* 30 ms after the last pump; 200 ms after the last character.
Elapse ==
    /\ pumpDue' = TRUE /\ idle' \in {idle, TRUE}
    /\ UNCHANGED <<buf, total_chars, con_pumping, con_active, con_pc, i, late, shown>>

-----------------------------------------------------------------------------
(* lv_console_putc in steps                                                *)

\* evict_old_lines: how much to drop, up to the first newline past the middle.
Evicted(b) ==
    LET ends == {k \in (CON_KEEP \div 2 + 1)..Len(b) : b[k] < 0}
    IN  IF Len(b) + 2 <= CON_KEEP THEN 0
        ELSE IF ends # {} THEN Min(ends)
        ELSE 1

\* The bytes are moved down; the length is corrected in the next step.
Shifted(b, n) == SubSeq(b, n + 1, Len(b)) \o SubSeq(b, Len(b) - n + 1, Len(b))

putc_room ==
    /\ con_pc = "out" /\ con_active /\ total_chars < MaxChars
    /\ i' = Evicted(buf)
    /\ buf' = Shifted(buf, i')
    /\ con_pc' = "append"
    /\ UNCHANGED <<total_chars, con_pumping, con_active, pumpDue, idle, late, shown>>

Char == {total_chars + 1, -(total_chars + 1)}

\* When the interrupt has evicted lines in between, con_len -= i may wrap and
\* the character is stored outside con_buf: nothing is said of what follows.
putc_append ==
    /\ con_pc = "append"
    /\ \/ /\ i <= Len(buf) /\ i' = 0 /\ con_pc' = "count"
          /\ \E c \in Char : buf' = Append(SubSeq(buf, 1, Len(buf) - i), c)
       \/ i > Len(buf) /\ con_pc' = "stray" /\ UNCHANGED <<buf, i>>
    /\ UNCHANGED <<total_chars, con_pumping, con_active, pumpDue, idle, late, shown>>

putc_count ==
    /\ con_pc = "count"
    /\ total_chars' = total_chars + 1
    /\ idle' = FALSE
    /\ con_pc' = IF pumpDue THEN "pump" ELSE "out"
    /\ UNCHANGED <<buf, con_pumping, con_active, pumpDue, i, late, shown>>

-----------------------------------------------------------------------------
(* lv_console_pump; its parts are shared by the thread and the interrupt   *)

\* Where the glide may be when pump_settle gives up or is done.
Glide(from, to) == {s \in 0..MaxChars : (from <= s /\ s <= to) \/ (to <= s /\ s <= from)}

\* Fault: the animation is believed to have reached the target.
Scroll_Hasty(target, still) ==
    /\ scroll' \in (IF still \/ scroll = target THEN {target} ELSE Glide(scroll, target))
    /\ anim_pending' = FALSE

Scroll(target, still) ==
    /\ scroll' \in (IF still \/ scroll = target THEN {target} ELSE Glide(scroll, target))
    /\ anim_pending' = (scroll # target)

\* The thread finds the guard taken only if it interrupted itself, which it
\* does not; a pump with nothing to do leaves at once.
pump_render ==
    /\ con_pc = "pump"
    /\ IF con_pumping \/ (total_chars = rendered_total /\ ~anim_pending)
         THEN con_pc' = "out" /\ UNCHANGED <<con_pumping, label, cached_target, late>>
         ELSE /\ con_pumping' = TRUE /\ con_pc' = "scroll"
              /\ IF total_chars # rendered_total
                   THEN label' = buf /\ cached_target' = Target(buf) /\ late' = {}
                   ELSE UNCHANGED <<label, cached_target, late>>
    /\ UNCHANGED <<buf, total_chars, rendered_total, scroll, anim_pending,
                   con_active, pumpDue, idle, i>>

pump_scroll ==
    /\ con_pc = "scroll"
    /\ Scroll(cached_target, idle)
    /\ con_pc' = "finish"
    /\ UNCHANGED <<buf, total_chars, rendered_total, label, cached_target, con_pumping,
                   con_active, pumpDue, idle, i, late>>

pump_finish ==
    /\ con_pc = "finish"
    /\ rendered_total' = total_chars /\ pumpDue' = FALSE
    /\ con_pumping' = FALSE /\ con_pc' = "out"
    /\ UNCHANGED <<buf, total_chars, label, cached_target, scroll, anim_pending,
                   con_active, idle, i, late>>

-----------------------------------------------------------------------------
(* lv_console_settle and lv_console_stop, called by the thread             *)

settle_render ==
    /\ con_pc = "out" /\ con_active /\ buf # <<>> /\ ~con_pumping
    /\ con_pumping' = TRUE /\ con_pc' = "settle"
    /\ label' = buf /\ cached_target' = Target(buf) /\ scroll' = Target(buf) /\ late' = {}
    /\ UNCHANGED <<buf, total_chars, rendered_total, anim_pending, con_active,
                   pumpDue, idle, i>>

settle_finish ==
    /\ con_pc = "settle"
    /\ rendered_total' = total_chars /\ anim_pending' = FALSE
    /\ con_pumping' = FALSE /\ con_pc' = "out"
    /\ UNCHANGED <<buf, total_chars, label, cached_target, scroll, con_active,
                   pumpDue, idle, i, late>>

\* The label is deleted before the console is marked inactive.
stop ==
    \/ /\ con_pc = "out" /\ con_active
       /\ label' = Deleted /\ con_pc' = "stop"
       /\ UNCHANGED <<buf, total_chars, rendered_total, cached_target, scroll,
                      anim_pending, con_pumping, con_active, pumpDue, idle, i, late>>
    \/ /\ con_pc = "stop"
       /\ con_active' = FALSE /\ con_pc' = "out"
       /\ UNCHANGED <<buf, total_chars, con_pumping, pumpDue, idle, i, late, shown>>

-----------------------------------------------------------------------------
(* pit_handler_irq0: the drivers may print, then the console is pumped     *)

\* A character printed by the interrupt, numbered apart; the pump of
\* its lv_console_putc is the one that follows.
IrqChar == {100 + total_chars, -100 - total_chars}

IrqPut ==
    \/ /\ late' = IF con_pumping \/ total_chars = rendered_total THEN late ELSE {}
       /\ UNCHANGED <<buf, total_chars, idle>>
    \/ /\ con_active /\ total_chars < IrqChars
       /\ LET n == Evicted(buf)
          IN  \E c \in IrqChar :
                 /\ buf' = Append(SubSeq(buf, n + 1, Len(buf)), c)
                 /\ late' = IF con_pumping THEN late \cup {c} ELSE {}
       /\ total_chars' = total_chars + 1 /\ idle' = FALSE

\* Fault: the tick leaves the label alone unless output is idle.
IrqPump_Lazy(b, total, still) ==
    IF ~con_active \/ b = <<>> \/ con_pumping \/ total = rendered_total
      THEN UNCHANGED <<shown, pumpDue>>
      ELSE /\ label' = b /\ cached_target' = Target(b)
           /\ Scroll(Target(b), still)
           /\ rendered_total' = total /\ pumpDue' = FALSE

IrqPump(b, total, still) ==
    IF ~con_active \/ b = <<>> \/ con_pumping \/ (total = rendered_total /\ ~anim_pending)
      THEN UNCHANGED <<shown, pumpDue>>
      ELSE /\ IF total # rendered_total
                THEN label' = b /\ cached_target' = Target(b)
                ELSE UNCHANGED <<label, cached_target>>
           /\ Scroll(cached_target', still)
           /\ rendered_total' = total /\ pumpDue' = FALSE

pit_handler_irq0 ==
    /\ con_pc # "stray"
    /\ IrqPut
    /\ IrqPump(buf', total_chars', idle')
    /\ UNCHANGED <<con_pumping, con_active, con_pc, i>>

-----------------------------------------------------------------------------
Output == putc_room \/ putc_append \/ putc_count
Pump   == pump_render \/ pump_scroll \/ pump_finish
SettleLog == settle_render \/ settle_finish

LogNext == Elapse \/ Output \/ Pump \/ SettleLog \/ stop \/ pit_handler_irq0

\* What the code has started goes on, the clock runs, and the timer ticks.
Fairness ==
    /\ WF_logVars(Elapse /\ idle') /\ WF_logVars(pit_handler_irq0)
    /\ WF_logVars(con_pc # "out" /\ (Output \/ Pump \/ SettleLog \/ stop))

LogSpec == LogInit /\ [][LogNext]_logVars /\ Fairness

-----------------------------------------------------------------------------
\* The text shown, but for its first n characters, is the start of the history,
\* and the rest of the history was printed while the text was being rendered.
ShownFrom(n) ==
    LET kept == Len(label) - n
    IN  /\ kept <= Len(buf)
        /\ \A k \in 1..kept : buf[k] = label[k + n]
        /\ \A k \in (kept + 1)..Len(buf) : buf[k] \in late

\* Between two calls of the thread, a console with nothing left to render
\* shows the history up to its end, scrolled there.  All that may be missing
\* are characters the interrupt printed while a pump was rendering, which may
\* also have evicted lines that are still shown: rendered_total is taken from
\* total_chars after the text was copied.
NothingHidden ==
    (con_active /\ con_pc = "out" /\ total_chars = rendered_total /\ ~anim_pending)
        => (\E n \in 0..Len(label) : ShownFrom(n)) /\ scroll = Target(label)

\* Once output stops, the end of the log gets onto the screen and stays there,
\* also if every glide is cut short; characters printed during a pump excepted.
TailShown ==
    <>[](con_active /\ con_pc = "out" /\ late = {} => label = buf /\ scroll = Target(buf))
=============================================================================
