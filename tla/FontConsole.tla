---------------------------- MODULE FontConsole -----------------------------
(***************************************************************************)
(* The bitmap console of iokit/IOGraphicsFamily: fb.c, buffer.c, font.c.   *)
(* Text is drawn into a back buffer of two screens; scrolling moves the    *)
(* window fb_ring_top down and copies it back to the top of the buffer     *)
(* when it would pass the end; a flush copies the rows between fb_dirty_min *)
(* and fb_dirty_max to the screen.  Without a back buffer the screen is    *)
(* drawn directly.                                                         *)
(*                                                                         *)
(* A pixel row is a function from text columns to the row of a glyph drawn *)
(* there, <<character, row of the glyph>>.  Colours and pixel formats are  *)
(* left out.                                                               *)
(***************************************************************************)
EXTENDS Integers

CONSTANTS
    Height,     \* pixel rows of the screen
    GlyphH,     \* pixel rows of a glyph
    Cols,       \* text columns
    Chars

ASSUME TextAssumption ==
    /\ Height \in Nat /\ GlyphH \in Nat \ {0} /\ GlyphH <= Height
    /\ Cols \in Nat \ {0}

VARIABLES
    fb,         \* the frame buffer, see Init
    cursor_x, cursor_y

textVars == <<fb, cursor_x, cursor_y>>

Rows     == Height \div GlyphH
BackRows == 2 * Height
Blank    == <<" ", 0>>
Zero     == [c \in 0..(Cols - 1) |-> Blank]
Lines    == 0..(Height - 1)

\* framebuffer_buffer_init may fail for want of frames.
TextInit ==
    /\ \E ready \in BOOLEAN :
          fb = [ready |-> ready, top |-> 0, min |-> Height, max |-> 0,
                back |-> [r \in 0..(BackRows - 1) |-> Zero],
                hw   |-> [r \in Lines |-> Zero]]
    /\ cursor_x = 0 /\ cursor_y = 0

-----------------------------------------------------------------------------
(* fb.c and buffer.c, as functions of the frame buffer                     *)

Lower(a, b) == IF a < b THEN a ELSE b
Upper(a, b) == IF a > b THEN a ELSE b

fb_mark_dirty(f, r) == [f EXCEPT !.min = Lower(@, r), !.max = Upper(@, r + 1)]

fb_reset_dirty(f)    == [f EXCEPT !.min = Height, !.max = 0]
fb_mark_all_dirty(f) == [f EXCEPT !.min = 0, !.max = Height]

\* Store px at column c of row r.
fb_row_store(f, r, c, px) ==
    IF f.ready THEN [f EXCEPT !.back[f.top + r][c] = px]
               ELSE [f EXCEPT !.hw[r][c] = px]

framebuffer_flush(f) ==
    IF f.min >= f.max THEN f
    ELSE fb_reset_dirty(
           IF f.ready
             THEN [f EXCEPT !.hw = [r \in Lines |->
                      IF f.min <= r /\ r < f.max THEN f.back[f.top + r] ELSE f.hw[r]]]
             ELSE f)

framebuffer_putpixels(f, r, c, px) ==
    IF r >= Height \/ c >= Cols THEN f ELSE fb_mark_dirty(fb_row_store(f, r, c, px), r)

\* framebuffer_fill_rect over the whole screen, then a flush.
framebuffer_clear(f) ==
    framebuffer_flush(fb_mark_all_dirty(
        IF f.ready
          THEN [f EXCEPT !.back = [r \in DOMAIN f.back |->
                    IF f.top <= r /\ r < f.top + Height THEN Zero ELSE f.back[r]]]
          ELSE [f EXCEPT !.hw = [r \in Lines |-> Zero]]))

\* Fault: the rows below the compacted window are not cleared.
free_past_Dirty(f, lines) ==
    IF f.top + lines + Height <= BackRows THEN f
    ELSE [f EXCEPT !.top = 0,
                   !.back = [r \in DOMAIN f.back |->
                                IF r < Height THEN f.back[f.top + r] ELSE f.back[r]]]

framebuffer_buffer_free_past(f, lines) ==
    IF f.top + lines + Height <= BackRows THEN f
    ELSE [f EXCEPT !.top = 0,
                   !.back = [r \in DOMAIN f.back |->
                                IF r < Height THEN f.back[f.top + r] ELSE Zero]]

framebuffer_scroll_up(f, lines) ==
    IF f.ready
      THEN LET g == framebuffer_buffer_free_past(f, lines)
           IN  framebuffer_flush(fb_mark_all_dirty([g EXCEPT !.top = @ + lines]))
      ELSE framebuffer_flush(
             [f EXCEPT !.hw = [r \in Lines |->
                IF r + lines < Height THEN f.hw[r + lines] ELSE Zero]])

-----------------------------------------------------------------------------
(* font.c                                                                  *)

\* One framebuffer_putpixels per row of the glyph.
font_draw(f, ch) ==
    LET draw[n \in 0..GlyphH] ==
          IF n = 0 THEN f
          ELSE framebuffer_putpixels(draw[n - 1], cursor_y * GlyphH + n - 1,
                                     cursor_x, <<ch, n - 1>>)
    IN  draw[GlyphH]

\* The tail of font_putc: wrap at the last column, scroll at the last row.
Settle(f, cx, cy) ==
    LET x == IF cx >= Cols THEN 0 ELSE cx
        y == IF cx >= Cols THEN cy + 1 ELSE cy
    IN  /\ cursor_x' = x
        /\ cursor_y' = IF y >= Rows THEN Rows - 1 ELSE y
        /\ fb' = IF y >= Rows THEN framebuffer_scroll_up(f, GlyphH) ELSE f

font_putc(ch) == Settle(font_draw(fb, ch), cursor_x + 1, cursor_y)
font_newline  == Settle(framebuffer_flush(fb), 0, cursor_y + 1)
font_return   == Settle(fb, 0, cursor_y)
font_clear    == fb' = framebuffer_clear(fb) /\ cursor_x' = 0 /\ cursor_y' = 0

TextNext == (\E ch \in Chars : font_putc(ch)) \/ font_newline \/ font_return \/ font_clear

TextSpec == TextInit /\ [][TextNext]_textVars

-----------------------------------------------------------------------------
\* What the screen shows after the next flush.
Screen == framebuffer_flush(fb).hw

\* The character a cell shows; it is torn unless all rows of one glyph are there.
Shown(r, c) ==
    LET px == Screen[r * GlyphH][c]
    IN  IF \A n \in 0..(GlyphH - 1) : Screen[r * GlyphH + n][c] = Blank THEN " "
        ELSE IF \A n \in 0..(GlyphH - 1) : Screen[r * GlyphH + n][c] = <<px[1], n>>
          THEN px[1]
        ELSE "torn"

Text == INSTANCE Terminal WITH
            Blank <- " ", x <- cursor_x, y <- cursor_y,
            grid <- [r \in 0..(Rows - 1) |-> [c \in 0..(Cols - 1) |-> Shown(r, c)]]

\* The moving window with its compaction, seen through a flush of the dirty
\* rows only, behaves as a plain terminal: no character is lost, torn, shifted,
\* left over from rows that scrolled away, or missed by the flush.
ImplementsTerminal == Text!Spec
=============================================================================
