---------------------------- MODULE ConsoleProofs ---------------------------
(***************************************************************************)
(* Proofs about the two consoles: the bitmap console implements a plain    *)
(* terminal, for every size of the screen and of the glyphs; and the LVGL  *)
(* console shows its history to the end once nothing is left to render,    *)
(* for every capacity of the history and every interleaving with the       *)
(* timer.                                                                  *)
(***************************************************************************)
EXTENDS FontConsole, LvConsole, Lemmas

\* A leaf that names no prover is tried with SMT, then with Zenon, for at most 20 seconds each.
USE SMTT(20), ZenonT(20)

-----------------------------------------------------------------------------
(* The bitmap console, FontConsole                                         *)

\* The first pixel row of text row r.
Base(r) == r * GlyphH

LEMMA BaseStep ==
    ASSUME NEW r \in Nat
    PROVE  Base(r) \in Nat /\ Base(r + 1) = Base(r) + GlyphH
BY TextAssumption DEF Base

LEMMA BaseOrder ==
    ASSUME NEW r \in Nat, NEW q \in Nat, r < q
    PROVE  Base(r) + GlyphH <= Base(q)
<1>1. q = (r + 1) + (q - (r + 1)) /\ q - (r + 1) \in Nat
  OBVIOUS
<1> DEFINE d == q - (r + 1)
<1>2. d * GlyphH >= 0
  BY <1>1, TextAssumption
<1>3. q * GlyphH = r * GlyphH + GlyphH + d * GlyphH
  BY <1>1, TextAssumption
<1> HIDE DEF d
<1> QED
  BY <1>1, <1>2, <1>3, TextAssumption DEF Base

LEMMA Division ==
    ASSUME NEW h \in Nat, NEW g \in Nat, g > 0
    PROVE  h \div g \in Int /\ (h \div g) * g <= h /\ h < (h \div g) * g + g
OBVIOUS

LEMMA RowsFit == Rows \in Nat \ {0} /\ Base(Rows) <= Height /\ Height < Base(Rows) + GlyphH
<1> DEFINE q == Height \div GlyphH
<1>1. Height \in Nat /\ GlyphH \in Nat /\ GlyphH > 0 /\ GlyphH <= Height
  BY TextAssumption
<1>2. q \in Int /\ q * GlyphH <= Height /\ Height < q * GlyphH + GlyphH
  BY <1>1, Division, Zenon
<1> HIDE DEF q
<1>3. q > 0
  BY <1>1, <1>2
<1> QED
  BY <1>2, <1>3 DEF Rows, Base, q

\* Pixel rows of a cell are on the screen, and no two cells share one.
LEMMA CellRows ==
    ASSUME NEW r \in 0..(Rows - 1), NEW n \in 0..(GlyphH - 1)
    PROVE  /\ Base(r) + n \in Lines /\ Base(r) + n < Base(Rows)
           /\ Base(r) \in Nat /\ r \in Nat
<1>1. r \in Nat /\ Rows \in Nat /\ r < Rows
  BY RowsFit
<1>2. Base(r) + GlyphH <= Base(Rows) /\ Base(r) \in Nat /\ Base(Rows) \in Nat
  BY <1>1, BaseStep, BaseOrder, Zenon
<1> QED
  BY <1>1, <1>2, RowsFit, TextAssumption DEF Lines

LEMMA CellsApart ==
    ASSUME NEW r \in 0..(Rows - 1), NEW q \in 0..(Rows - 1), r # q,
           NEW n \in 0..(GlyphH - 1)
    PROVE  ~(Base(q) <= Base(r) + n /\ Base(r) + n < Base(q) + GlyphH)
<1>1. r \in Nat /\ q \in Nat /\ (r < q \/ q < r)
  BY RowsFit
<1>2. Base(r) \in Nat /\ Base(q) \in Nat
  BY <1>1, BaseStep, Zenon
<1>3. Base(r) + GlyphH <= Base(q) \/ Base(q) + GlyphH <= Base(r)
  BY <1>1, BaseOrder, Zenon
<1> QED
  BY <1>2, <1>3, TextAssumption

\* The text that the pixel rows V show.
Cells == 0..(Cols - 1)
Cell(V, r, c) ==
    LET px == V[Base(r)][c]
    IN  IF \A n \in 0..(GlyphH - 1) : V[Base(r) + n][c] = Blank THEN " "
        ELSE IF \A n \in 0..(GlyphH - 1) : V[Base(r) + n][c] = <<px[1], n>> THEN px[1]
        ELSE "torn"
Grid(V) == [r \in 0..(Rows - 1) |-> [c \in Cells |-> Cell(V, r, c)]]

LEMMA BlankCell ==
    ASSUME NEW V, NEW r, NEW c, \A n \in 0..(GlyphH - 1) : V[Base(r) + n][c] = Blank
    PROVE  Cell(V, r, c) = " "
BY Zenon DEF Cell

Alike(V, r, W, q, c) == \A n \in 0..(GlyphH - 1) : V[Base(r) + n][c] = W[Base(q) + n][c]
Holds(V, r, c, ch)   == \A n \in 0..(GlyphH - 1) : V[Base(r) + n][c] = <<ch, n>>

LEMMA SameCell ==
    ASSUME NEW V, NEW W, NEW r \in Nat, NEW q \in Nat, NEW c, Alike(V, r, W, q, c)
    PROVE  Cell(V, r, c) = Cell(W, q, c)
<1>1. Base(r) \in Nat /\ Base(q) \in Nat /\ 0 \in 0..(GlyphH - 1)
  BY BaseStep, TextAssumption
<1>2. V[Base(r) + 0][c] = W[Base(q) + 0][c]
  BY <1>1, Zenon DEF Alike
<1>3. V[Base(r)][c] = W[Base(q)][c]
  BY <1>1, <1>2
<1> QED
  BY <1>3, Zenon DEF Cell, Alike

LEMMA CharCell ==
    ASSUME NEW V, NEW r \in Nat, NEW c, NEW ch, Holds(V, r, c, ch)
    PROVE  Cell(V, r, c) = ch
<1>1. Base(r) \in Nat /\ 0 \in 0..(GlyphH - 1)
  BY BaseStep, TextAssumption
<1>2. V[Base(r) + 0][c] = <<ch, 0>>
  BY <1>1, Zenon DEF Holds
<1>3. V[Base(r)][c] = <<ch, 0>> /\ V[Base(r)][c][1] = ch
  BY <1>1, <1>2
<1>4. CASE \A n \in 0..(GlyphH - 1) : V[Base(r) + n][c] = Blank
  <2>1. <<ch, 0>> = <<" ", 0>>
    BY <1>1, <1>2, <1>4, Zenon DEF Blank
  <2>2. ch = " "
    BY <2>1, Zenon
  <2> QED
    BY <1>4, <2>2, BlankCell, Zenon
<1>5. CASE ~\A n \in 0..(GlyphH - 1) : V[Base(r) + n][c] = Blank
  BY <1>3, <1>5, Zenon DEF Cell, Holds
<1> QED
  BY <1>4, <1>5, Zenon

-----------------------------------------------------------------------------
(* What the operations of a terminal do to the pixel rows                  *)

\* A glyph drawn at column x of text row y.
Draws(W, V, y, x, ch) ==
    \A r \in Lines, c \in Cells :
        W[r][c] = IF c = x /\ Base(y) <= r /\ r < Base(y) + GlyphH
                  THEN <<ch, r - Base(y)>> ELSE V[r][c]

Placed(g, y, x, ch) == [g EXCEPT ![y][x] = ch]

LEMMA DrawsPut ==
    ASSUME NEW W, NEW V, NEW y \in 0..(Rows - 1), NEW x \in Cells, NEW ch, Draws(W, V, y, x, ch)
    PROVE  Grid(W) = Placed(Grid(V), y, x, ch)
<1>1. ASSUME NEW r \in 0..(Rows - 1), NEW c \in Cells, ~(r = y /\ c = x)
      PROVE  Cell(W, r, c) = Cell(V, r, c)
  <2>1. ASSUME NEW n \in 0..(GlyphH - 1)
        PROVE  W[Base(r) + n][c] = V[Base(r) + n][c]
    <3>1. Base(r) + n \in Lines
      BY CellRows, Zenon
    <3>2. ~(c = x /\ Base(y) <= Base(r) + n /\ Base(r) + n < Base(y) + GlyphH)
      BY <1>1, CellsApart, Zenon
    <3> QED
      BY <3>1, <3>2, Zenon DEF Draws
  <2>2. r \in Nat /\ Alike(W, r, V, r, c)
    BY <2>1, RowsFit DEF Alike
  <2> QED
    BY <2>2, SameCell
<1>2. Cell(W, y, x) = ch
  <2>1. ASSUME NEW n \in 0..(GlyphH - 1)
        PROVE  W[Base(y) + n][x] = <<ch, n>>
    <3>1. Base(y) + n \in Lines /\ Base(y) \in Nat
      BY CellRows, Zenon
    <3>2. Base(y) <= Base(y) + n /\ Base(y) + n < Base(y) + GlyphH /\ (Base(y) + n) - Base(y) = n
      BY <3>1, TextAssumption
    <3> QED
      BY <3>1, <3>2, Zenon DEF Draws
  <2>2. y \in Nat /\ Holds(W, y, x, ch)
    BY <2>1, RowsFit DEF Holds
  <2> QED
    BY <2>2, CharCell, Zenon
<1> QED
  BY <1>1, <1>2, Zenon DEF Grid, Placed

\* The rows moved up by the height of a glyph, with blank rows coming in.
Scrolls(W, V) ==
    \A r \in Lines : W[r] = IF r + GlyphH < Height THEN V[r + GlyphH] ELSE Zero

\* The rows below the text.
RestBlank(V) == \A r \in Lines : r >= Base(Rows) => V[r] = Zero

LEMMA ZeroIsBlank == \A c \in Cells : Zero[c] = Blank
BY Zenon DEF Zero, Cells

LEMMA ScrollsUp ==
    ASSUME NEW W, NEW V, Scrolls(W, V), RestBlank(V)
    PROVE  /\ RestBlank(W)
           /\ Grid(W) = [r \in 0..(Rows - 1) |->
                 IF r = Rows - 1 THEN [c \in Cells |-> " "] ELSE Grid(V)[r + 1]]
<1>0. Rows \in Nat /\ Rows # 0 /\ Base(Rows) \in Nat /\ GlyphH \in Nat /\ Height \in Nat
  BY RowsFit, BaseStep, TextAssumption, Zenon
<1>1. RestBlank(W)
  <2> SUFFICES ASSUME NEW r \in Lines, r >= Base(Rows) PROVE W[r] = Zero
    BY Zenon DEF RestBlank
  <2>1. ~(r + GlyphH < Height)
    BY <1>0, RowsFit DEF Lines
  <2> QED
    BY <2>1, Zenon DEF Scrolls
<1>2. ASSUME NEW r \in 0..(Rows - 1), r # Rows - 1, NEW c \in Cells
      PROVE  Cell(W, r, c) = Cell(V, r + 1, c)
  <2>1. r \in Nat /\ r + 1 \in 0..(Rows - 1) /\ Base(r + 1) = Base(r) + GlyphH /\ Base(r) \in Nat
    BY <1>0, <1>2, BaseStep
  <2>2. ASSUME NEW n \in 0..(GlyphH - 1)
        PROVE  W[Base(r) + n][c] = V[Base(r + 1) + n][c]
    <3>1. Base(r) + n \in Lines /\ Base(r + 1) + n \in Lines
      BY <2>1, CellRows, Zenon
    <3>2. (Base(r) + n) + GlyphH = Base(r + 1) + n /\ (Base(r) + n) + GlyphH < Height
      BY <1>0, <2>1, <3>1 DEF Lines
    <3> QED
      BY <3>1, <3>2, Zenon DEF Scrolls
  <2>3. Alike(W, r, V, r + 1, c)
    BY <2>2, Zenon DEF Alike
  <2>4. r + 1 \in Nat
    BY <2>1
  <2> QED
    BY <2>1, <2>3, <2>4, SameCell
<1>3. ASSUME NEW c \in Cells PROVE Cell(W, Rows - 1, c) = " "
  <2>1. Rows - 1 \in Nat /\ (Rows - 1) + 1 = Rows /\ Rows - 1 \in 0..(Rows - 1)
    BY <1>0
  <2>2. Base(Rows) = Base(Rows - 1) + GlyphH /\ Base(Rows - 1) \in Nat
    BY <2>1, BaseStep, Zenon
  <2>3. ASSUME NEW n \in 0..(GlyphH - 1) PROVE W[Base(Rows - 1) + n][c] = Blank
    <3> DEFINE k == Base(Rows - 1) + n
    <3>1. k \in Lines
      BY <2>1, CellRows, Zenon
    <3>2. k + GlyphH >= Base(Rows) /\ (k + GlyphH < Height => k + GlyphH \in Lines)
      BY <1>0, <2>2, <3>1 DEF Lines
    <3> HIDE DEF k
    <3>3. W[k] = Zero
      BY <3>1, <3>2, Zenon DEF Scrolls, RestBlank
    <3> QED
      BY <3>3, ZeroIsBlank, Zenon DEF k
  <2> QED
    BY <2>3, BlankCell, Zenon
<1>4. \A r \in 0..(Rows - 1) : r # Rows - 1 => r + 1 \in 0..(Rows - 1)
  BY <1>0
<1> QED
  BY <1>1, <1>2, <1>3, <1>4, Zenon DEF Grid

LEMMA ZerosClear ==
    ASSUME NEW V, \A r \in Lines : V[r] = Zero
    PROVE  RestBlank(V) /\ Grid(V) = [r \in 0..(Rows - 1) |-> [c \in Cells |-> " "]]
<1>1. ASSUME NEW r \in 0..(Rows - 1), NEW c \in Cells PROVE Cell(V, r, c) = " "
  <2>1. \A n \in 0..(GlyphH - 1) : V[Base(r) + n][c] = Blank
    BY CellRows, ZeroIsBlank, Zenon
  <2> QED
    BY <2>1, BlankCell, Zenon
<1> QED
  BY <1>1, Zenon DEF RestBlank, Grid

LEMMA DrawsRest ==
    ASSUME NEW W, NEW V, NEW y \in 0..(Rows - 1), NEW x \in Cells, NEW ch, Draws(W, V, y, x, ch),
           RestBlank(V), \A r \in Lines : DOMAIN W[r] = Cells /\ W[r] = [c \in Cells |-> W[r][c]]
    PROVE  RestBlank(W)
<1> SUFFICES ASSUME NEW r \in Lines, r >= Base(Rows) PROVE W[r] = Zero
  BY Zenon DEF RestBlank
<1>1. y \in Nat /\ Rows \in Nat /\ y < Rows
  BY RowsFit
<1>2. Base(y) + GlyphH <= Base(Rows) /\ Base(y) \in Nat /\ Base(Rows) \in Nat
  BY <1>1, BaseStep, BaseOrder, Zenon
<1>3. ~(r < Base(y) + GlyphH)
  BY <1>2, TextAssumption DEF Lines
<1>4. \A c \in Cells : W[r][c] = Zero[c]
  <2>1. V[r] = Zero
    BY Zenon DEF RestBlank
  <2> QED
    BY <1>3, <2>1, Zenon DEF Draws
<1> QED
  BY <1>4, ZeroIsBlank, Zenon DEF Zero, Cells

-----------------------------------------------------------------------------
(* Frame buffers                                                           *)

Px      == ({" "} \cup Chars) \X Nat
PxRow   == [Cells -> Px]
Stored  == 0..(BackRows - 1)
Buffers == [ready : BOOLEAN, top : Nat, min : 0..Height, max : 0..Height,
            back : [Stored -> PxRow], hw : [Lines -> PxRow]]

\* The rows that are to be on the screen once everything is flushed.
View(f) == [r \in Lines |-> IF f.ready THEN f.back[f.top + r] ELSE f.hw[r]]

\* A row that is not marked dirty is on the screen.
Clean(f) == f.ready => \A r \in Lines : (f.min <= r /\ r < f.max) \/ f.hw[r] = f.back[f.top + r]

\* The rows that scrolling is going to uncover are blank.
TailBlank(f) == f.ready => \A r \in Stored : r >= f.top + Height => f.back[r] = Zero

FbTyped(f) == f \in Buffers /\ f.top + Height <= BackRows
FbOk(f)    == FbTyped(f) /\ Clean(f) /\ TailBlank(f) /\ RestBlank(View(f))

LEMMA PxHas == Zero \in PxRow /\ \A ch \in Chars, n \in Nat : <<ch, n>> \in Px
BY Zenon DEF Zero, PxRow, Px, Blank, Cells

LEMMA SameRow ==
    ASSUME NEW u \in PxRow, NEW v \in PxRow, \A c \in Cells : u[c] = v[c]
    PROVE  u = v
BY DEF PxRow

LEMMA WindowFits ==
    ASSUME NEW f, FbTyped(f)
    PROVE  /\ f.top \in Nat /\ Height \in Nat /\ GlyphH \in Nat /\ BackRows = Height + Height
           /\ \A r \in Lines : f.top + r \in Stored
           /\ f.min \in 0..Height /\ f.max \in 0..Height /\ f.ready \in BOOLEAN
           /\ f.back \in [Stored -> PxRow] /\ f.hw \in [Lines -> PxRow]
<1>1. /\ f.top \in Nat /\ f.min \in 0..Height /\ f.max \in 0..Height /\ f.ready \in BOOLEAN
      /\ f.back \in [Stored -> PxRow] /\ f.hw \in [Lines -> PxRow] /\ f.top + Height <= BackRows
  BY Zenon DEF FbTyped, Buffers
<1>2. Height \in Nat /\ GlyphH \in Nat /\ BackRows = Height + Height
  BY TextAssumption DEF BackRows
<1>3. \A r \in Lines : f.top + r \in Stored
  BY <1>1, <1>2 DEF Lines, Stored
<1> QED
  BY <1>1, <1>2, <1>3, Zenon

LEMMA ViewTyped ==
    ASSUME NEW f, FbTyped(f) PROVE View(f) \in [Lines -> PxRow]
BY WindowFits, Zenon DEF View

Fields(g, rd, tp, mn, mx, bk, sc) ==
    /\ g.ready = rd /\ g.top = tp /\ g.min = mn /\ g.max = mx /\ g.back = bk /\ g.hw = sc

LEMMA FieldsTyped ==
    ASSUME NEW rd \in BOOLEAN, NEW tp \in Nat, NEW mn \in 0..Height, NEW mx \in 0..Height,
           NEW bk \in [Stored -> PxRow], NEW sc \in [Lines -> PxRow]
    PROVE  [ready |-> rd, top |-> tp, min |-> mn, max |-> mx, back |-> bk, hw |-> sc] \in Buffers
BY Zenon DEF Buffers

\* A flush brings the screen up to date and changes nothing else.
LEMMA FlushShows ==
    ASSUME NEW f, FbTyped(f), Clean(f), TailBlank(f)
    PROVE  LET g == framebuffer_flush(f)
           IN  /\ FbTyped(g) /\ Clean(g) /\ TailBlank(g)
               /\ View(g) = View(f) /\ g.hw = View(f)
<1>0. f \in Buffers
  BY Zenon DEF FbTyped
<1>1. CASE f.min >= f.max
  <2>1. framebuffer_flush(f) = f
    BY <1>1, Zenon DEF framebuffer_flush
  <2>2. f.hw = View(f)
    <3>1. \A r \in Lines : ~(f.min <= r /\ r < f.max)
      BY <1>1, WindowFits DEF Lines
    <3>2. \A r \in Lines : f.hw[r] = View(f)[r]
      BY <3>1, Zenon DEF Clean, View
    <3> QED
      BY <3>2, WindowFits, ViewTyped
  <2> QED
    BY <2>1, <2>2, Zenon
<1>2. CASE ~(f.min >= f.max)
  <2> DEFINE h == [r \in Lines |-> IF f.min <= r /\ r < f.max THEN f.back[f.top + r] ELSE f.hw[r]]
             sc == IF f.ready THEN h ELSE f.hw
             g == framebuffer_flush(f)
  <2>1. g = [f EXCEPT !.hw = sc, !.min = Height, !.max = 0]
    BY <1>0, <1>2, Zenon DEF framebuffer_flush, fb_reset_dirty, Buffers
  <2>2. sc = View(f)
    BY WindowFits, Zenon DEF Clean, View
  <2> HIDE DEF sc, g
  <2>3. sc \in [Lines -> PxRow]
    BY <2>2, ViewTyped, Zenon
  <2>4. g \in Buffers /\ Fields(g, f.ready, f.top, Height, 0, f.back, sc)
    <3>1. 0 \in 0..Height /\ Height \in 0..Height
      BY TextAssumption
    <3>2. g \in Buffers
      BY <1>0, <2>1, <2>3, <3>1, Zenon DEF Buffers
    <3>3. Fields(g, f.ready, f.top, Height, 0, f.back, sc)
      BY <1>0, <2>1, Zenon DEF Buffers, Fields
    <3> QED
      BY <3>2, <3>3, Zenon
  <2>5. FbTyped(g) /\ View(g) = View(f)
    BY <2>2, <2>4, Zenon DEF Fields, FbTyped, View
  <2>6. Clean(g) /\ TailBlank(g)
    BY <2>2, <2>4 DEF Fields, Clean, TailBlank, View
  <2> QED
    BY <2>2, <2>4, <2>5, <2>6, Zenon DEF g, Fields
<1> QED
  BY <1>1, <1>2, Zenon

LEMMA FlushOk ==
    ASSUME NEW f, FbOk(f)
    PROVE  FbOk(framebuffer_flush(f)) /\ View(framebuffer_flush(f)) = View(f)
           /\ framebuffer_flush(f).hw = View(f)
BY FlushShows, Zenon DEF FbOk

LEMMA MarkAll ==
    ASSUME NEW f, FbTyped(f)
    PROVE  LET g == fb_mark_all_dirty(f)
           IN  FbTyped(g) /\ Clean(g) /\ (TailBlank(f) => TailBlank(g)) /\ View(g) = View(f)
<1> DEFINE g == fb_mark_all_dirty(f)
<1>1. g \in Buffers /\ Fields(g, f.ready, f.top, 0, Height, f.back, f.hw)
  <2>1. f \in Buffers /\ 0 \in 0..Height /\ Height \in 0..Height
    BY TextAssumption DEF FbTyped
  <2>2. g \in Buffers
    BY <2>1, Zenon DEF fb_mark_all_dirty, Buffers
  <2>3. Fields(g, f.ready, f.top, 0, Height, f.back, f.hw)
    BY <2>1, Zenon DEF fb_mark_all_dirty, Buffers, Fields
  <2> QED
    BY <2>2, <2>3, Zenon
<1> HIDE DEF g
<1>2. FbTyped(g) /\ View(g) = View(f)
  BY <1>1, Zenon DEF Fields, FbTyped, View
<1>3. Clean(g) /\ (TailBlank(f) => TailBlank(g))
  BY <1>1, WindowFits DEF Fields, Clean, TailBlank, Lines
<1> QED
  BY <1>2, <1>3, Zenon DEF g

\* Moving the window back to the start of the buffer shows the same rows,
\* and leaves room to scroll by a glyph.
LEMMA FreePast ==
    ASSUME NEW f, FbOk(f), f.ready
    PROVE  LET g == framebuffer_buffer_free_past(f, GlyphH)
           IN  /\ FbTyped(g) /\ g.ready /\ View(g) = View(f) /\ TailBlank(g)
               /\ g.top + GlyphH + Height <= BackRows
<1> DEFINE g == framebuffer_buffer_free_past(f, GlyphH)
<1>0. FbTyped(f) /\ f \in Buffers /\ TailBlank(f)
  BY Zenon DEF FbOk, FbTyped
<1>1. CASE f.top + GlyphH + Height <= BackRows
  BY <1>0, <1>1, Zenon DEF framebuffer_buffer_free_past
<1>2. CASE ~(f.top + GlyphH + Height <= BackRows)
  <2> DEFINE bk == [r \in Stored |-> IF r < Height THEN f.back[f.top + r] ELSE Zero]
  <2>1. g = [f EXCEPT !.top = 0, !.back = bk]
    BY <1>0, <1>2, WindowFits, Zenon DEF framebuffer_buffer_free_past
  <2>2. bk \in [Stored -> PxRow]
    <3>1. \A r \in Stored : r < Height => f.top + r \in Stored
      BY <1>0, WindowFits DEF Stored, Lines
    <3> QED
      BY <1>0, <3>1, WindowFits, PxHas, Zenon
  <2>3. \A r \in Stored : bk[r] = IF r < Height THEN f.back[f.top + r] ELSE Zero
    BY Zenon
  <2> HIDE DEF bk, g
  <2>4. g \in Buffers /\ Fields(g, f.ready, 0, f.min, f.max, bk, f.hw)
    <3>1. g \in Buffers
      BY <1>0, <2>1, <2>2, Zenon DEF Buffers
    <3>2. Fields(g, f.ready, 0, f.min, f.max, bk, f.hw)
      BY <1>0, <2>1, Zenon DEF Buffers, Fields
    <3> QED
      BY <3>1, <3>2, Zenon
  <2>5. FbTyped(g) /\ g.top + GlyphH + Height <= BackRows
    BY <2>4, TextAssumption DEF FbTyped, Fields, BackRows
  <2>6. View(g) = View(f)
    <3>1. \A r \in Lines : 0 + r \in Stored /\ 0 + r < Height /\ 0 + r = r
      BY <1>0, WindowFits DEF Lines, Stored
    <3> QED
      BY <2>3, <2>4, <3>1, Zenon DEF View, Fields
  <2>7. TailBlank(g)
    <3>1. \A r \in Stored : r >= 0 + Height => ~(r < Height)
      BY <1>0, WindowFits DEF Stored
    <3> QED
      BY <2>3, <2>4, <3>1, Zenon DEF TailBlank, Fields
  <2> QED
    BY <2>4, <2>5, <2>6, <2>7, Zenon DEF g, Fields
<1> QED
  BY <1>1, <1>2, Zenon

LEMMA ScrollUp ==
    ASSUME NEW f, FbOk(f)
    PROVE  LET g == framebuffer_scroll_up(f, GlyphH)
           IN  FbOk(g) /\ Scrolls(View(g), View(f))
<1> DEFINE g == framebuffer_scroll_up(f, GlyphH)
<1>0. FbTyped(f) /\ f \in Buffers /\ TailBlank(f) /\ RestBlank(View(f))
  BY Zenon DEF FbOk, FbTyped
<1>1. CASE f.ready
  <2> DEFINE p == framebuffer_buffer_free_past(f, GlyphH)
             h == [p EXCEPT !.top = @ + GlyphH]
             m == fb_mark_all_dirty(h)
  <2>1. g = framebuffer_flush(m)
    BY <1>1, Zenon DEF framebuffer_scroll_up
  <2>2. /\ FbTyped(p) /\ p.ready /\ View(p) = View(f) /\ TailBlank(p)
        /\ p.top + GlyphH + Height <= BackRows
    BY <1>1, FreePast, Zenon
  <2> HIDE DEF p
  <2>3. p \in Buffers /\ p.top + GlyphH \in Nat
    BY <2>2, WindowFits DEF FbTyped
  <2>4. h \in Buffers
    BY <2>3, Zenon DEF Buffers
  <2>5. Fields(h, p.ready, p.top + GlyphH, p.min, p.max, p.back, p.hw)
    BY <2>3, Zenon DEF Buffers, Fields
  <2> HIDE DEF h
  <2>6. FbTyped(h)
    BY <2>2, <2>4, <2>5, Zenon DEF FbTyped, Fields
  <2>7. TailBlank(h)
    <3>1. \A r \in Stored : r >= p.top + GlyphH + Height => r >= p.top + Height
      BY <2>2, WindowFits DEF Stored
    <3> QED
      BY <2>2, <2>5, <3>1, Zenon DEF TailBlank, Fields
  <2>8. Scrolls(View(h), View(p))
    <3> SUFFICES ASSUME NEW r \in Lines
                 PROVE  View(h)[r] = IF r + GlyphH < Height THEN View(p)[r + GlyphH] ELSE Zero
      BY Zenon DEF Scrolls
    <3>1. View(h)[r] = p.back[(p.top + GlyphH) + r]
      BY <2>2, <2>5, Zenon DEF View, Fields
    <3>2. CASE r + GlyphH < Height
      <4>1. r + GlyphH \in Lines /\ (p.top + GlyphH) + r = p.top + (r + GlyphH)
        BY <2>2, <3>2, WindowFits DEF Lines
      <4> QED
        BY <2>2, <3>1, <3>2, <4>1, Zenon DEF View
    <3>3. CASE ~(r + GlyphH < Height)
      <4>1. (p.top + GlyphH) + r \in Stored /\ (p.top + GlyphH) + r >= p.top + Height
        BY <2>2, <3>3, WindowFits DEF Lines, Stored
      <4> QED
        BY <2>2, <3>1, <3>3, <4>1, Zenon DEF TailBlank
    <3> QED
      BY <3>2, <3>3, Zenon
  <2>9. FbTyped(m) /\ Clean(m) /\ TailBlank(m) /\ View(m) = View(h)
    BY <2>6, <2>7, MarkAll, Zenon
  <2> HIDE DEF m, g
  <2>10. FbTyped(g) /\ Clean(g) /\ TailBlank(g) /\ View(g) = View(m)
    BY <2>1, <2>9, FlushShows, Zenon
  <2>11. Scrolls(View(g), View(f))
    BY <2>2, <2>8, <2>9, <2>10, Zenon
  <2>12. RestBlank(View(g))
    BY <1>0, <2>11, ScrollsUp, Zenon
  <2> QED
    BY <2>10, <2>11, <2>12, Zenon DEF FbOk, g
<1>2. CASE ~f.ready
  <2> DEFINE sc == [r \in Lines |-> IF r + GlyphH < Height THEN f.hw[r + GlyphH] ELSE Zero]
             h == [f EXCEPT !.hw = sc]
  <2>1. g = framebuffer_flush(h)
    BY <1>2, Zenon DEF framebuffer_scroll_up
  <2>2. sc \in [Lines -> PxRow]
    <3>1. \A r \in Lines : r + GlyphH < Height => r + GlyphH \in Lines
      BY <1>0, WindowFits DEF Lines
    <3> QED
      BY <1>0, <3>1, WindowFits, PxHas, Zenon
  <2>3. \A r \in Lines : sc[r] = IF r + GlyphH < Height THEN f.hw[r + GlyphH] ELSE Zero
    BY Zenon
  <2> HIDE DEF sc
  <2>4. h \in Buffers
    BY <1>0, <2>2, Zenon DEF Buffers
  <2>5. Fields(h, f.ready, f.top, f.min, f.max, f.back, sc)
    BY <1>0, Zenon DEF Buffers, Fields
  <2> HIDE DEF h, g
  <2>6. FbTyped(h) /\ Clean(h) /\ TailBlank(h)
    BY <1>0, <1>2, <2>4, <2>5, Zenon DEF FbTyped, Clean, TailBlank, Fields
  <2>7. Scrolls(View(h), View(f))
    <3>1. \A r \in Lines : r + GlyphH < Height => r + GlyphH \in Lines
      BY <1>0, WindowFits DEF Lines
    <3> QED
      BY <1>2, <2>3, <2>5, <3>1 DEF Scrolls, View, Fields
  <2>8. FbTyped(g) /\ Clean(g) /\ TailBlank(g) /\ View(g) = View(h)
    BY <2>1, <2>6, FlushShows, Zenon
  <2>9. RestBlank(View(g))
    BY <1>0, <2>7, <2>8, ScrollsUp, Zenon
  <2> QED
    BY <2>7, <2>8, <2>9, Zenon DEF FbOk, g
<1> QED
  BY <1>1, <1>2, Zenon

LEMMA ClearOk ==
    ASSUME NEW f, FbOk(f)
    PROVE  LET g == framebuffer_clear(f)
           IN  FbOk(g) /\ \A r \in Lines : View(g)[r] = Zero
<1> DEFINE g == framebuffer_clear(f)
           bk == IF f.ready THEN [r \in Stored |-> IF f.top <= r /\ r < f.top + Height
                                                   THEN Zero ELSE f.back[r]]
                            ELSE f.back
           sc == IF f.ready THEN f.hw ELSE [r \in Lines |-> Zero]
           h == [f EXCEPT !.back = bk, !.hw = sc]
           m == fb_mark_all_dirty(h)
<1>0. FbTyped(f) /\ f \in Buffers /\ TailBlank(f)
  BY Zenon DEF FbOk, FbTyped
<1>1. bk \in [Stored -> PxRow] /\ sc \in [Lines -> PxRow]
  BY <1>0, WindowFits, PxHas, Zenon
<1>2. /\ f.ready => \A r \in Stored : bk[r] = IF f.top <= r /\ r < f.top + Height
                                               THEN Zero ELSE f.back[r]
      /\ ~f.ready => \A r \in Lines : sc[r] = Zero
  BY Zenon
<1>3. g = framebuffer_flush(m)
  <2>1. f.ready => h = [f EXCEPT !.back = bk]
    BY <1>0, Zenon DEF Buffers
  <2>2. ~f.ready => h = [f EXCEPT !.hw = sc]
    BY <1>0, Zenon DEF Buffers
  <2> QED
    BY <1>0, <2>1, <2>2, WindowFits, Zenon DEF framebuffer_clear
<1> HIDE DEF bk, sc
<1>4. h \in Buffers
  BY <1>0, <1>1, Zenon DEF Buffers
<1>5. Fields(h, f.ready, f.top, f.min, f.max, bk, sc)
  BY <1>0, Zenon DEF Buffers, Fields
<1> HIDE DEF h, g
<1>6. FbTyped(h)
  BY <1>0, <1>4, <1>5, Zenon DEF FbTyped, Fields
<1>7. TailBlank(h)
  BY <1>0, <1>2, <1>5, Zenon DEF TailBlank, Fields
<1>8. ASSUME NEW r \in Lines PROVE View(h)[r] = Zero
  <2>1. f.top + r \in Stored /\ f.top <= f.top + r /\ f.top + r < f.top + Height
    BY <1>0, WindowFits DEF Lines
  <2> QED
    BY <1>2, <1>5, <2>1, Zenon DEF View, Fields
<1>9. FbTyped(m) /\ Clean(m) /\ TailBlank(m) /\ View(m) = View(h)
  BY <1>6, <1>7, MarkAll, Zenon
<1> HIDE DEF m
<1>10. FbTyped(g) /\ Clean(g) /\ TailBlank(g) /\ View(g) = View(m)
  BY <1>3, <1>9, FlushShows, Zenon
<1>11. \A r \in Lines : View(g)[r] = Zero
  BY <1>8, <1>9, <1>10, Zenon
<1> QED
  BY <1>10, <1>11, ZerosClear, Zenon DEF FbOk, g

-----------------------------------------------------------------------------
(* Drawing a glyph                                                         *)

\* The rows with the first n rows of the glyph ch drawn from row lo on.
Glyph(rows, lo, n, ch) ==
    [r \in DOMAIN rows |->
        [c \in Cells |-> IF c = cursor_x /\ lo <= r /\ r < lo + n
                         THEN <<ch, r - lo>> ELSE rows[r][c]]]

LowRow(f, n)      == IF n = 0 THEN f.min ELSE Lower(f.min, Base(cursor_y))
HighRow(f, n)     == IF n = 0 THEN f.max ELSE Upper(f.max, Base(cursor_y) + n)
BackWith(f, n, ch) == IF f.ready THEN Glyph(f.back, f.top + Base(cursor_y), n, ch) ELSE f.back
HwWith(f, n, ch)   == IF f.ready THEN f.hw ELSE Glyph(f.hw, Base(cursor_y), n, ch)

Drawn(f, ch, n) ==
    [f EXCEPT !.min = LowRow(f, n), !.max = HighRow(f, n),
              !.back = BackWith(f, n, ch), !.hw = HwWith(f, n, ch)]

CursorOk == cursor_x \in Cells /\ cursor_y \in 0..(Rows - 1)

LEMMA CursorRow ==
    ASSUME CursorOk
    PROVE  Base(cursor_y) \in Nat /\ Base(cursor_y) + GlyphH <= Height
<1>1. cursor_y \in Nat /\ Rows \in Nat /\ cursor_y < Rows
  BY RowsFit DEF CursorOk
<1>2. Base(cursor_y) + GlyphH <= Base(Rows) /\ Base(cursor_y) \in Nat /\ Base(Rows) \in Nat
  BY <1>1, BaseStep, BaseOrder, Zenon
<1> QED
  BY <1>2, RowsFit, TextAssumption

IsGlyph(g, S, rows, lo, n, ch) ==
    /\ g \in [S -> PxRow]
    /\ \A r \in S, c \in Cells :
          g[r][c] = IF c = cursor_x /\ lo <= r /\ r < lo + n THEN <<ch, r - lo>> ELSE rows[r][c]

LEMMA GlyphIs ==
    ASSUME NEW S \in SUBSET Nat, NEW rows \in [S -> PxRow],
           NEW lo \in Nat, NEW n \in Nat, NEW ch \in Chars
    PROVE  IsGlyph(Glyph(rows, lo, n, ch), S, rows, lo, n, ch)
<1>1. \A r \in S : lo <= r => <<ch, r - lo>> \in Px
  BY PxHas
<1> QED
  BY <1>1, Zenon DEF Glyph, PxRow, IsGlyph

LEMMA RowNumbers == Stored \in SUBSET Nat /\ Lines \in SUBSET Nat
BY TextAssumption DEF Stored, Lines, BackRows

LEMMA WithTyped ==
    ASSUME NEW f, FbTyped(f), CursorOk, NEW ch \in Chars, NEW n \in 0..GlyphH
    PROVE  /\ LowRow(f, n) \in 0..Height /\ HighRow(f, n) \in 0..Height
           /\ BackWith(f, n, ch) \in [Stored -> PxRow] /\ HwWith(f, n, ch) \in [Lines -> PxRow]
           /\ f.ready => IsGlyph(BackWith(f, n, ch), Stored, f.back, f.top + Base(cursor_y), n, ch)
           /\ ~f.ready => IsGlyph(HwWith(f, n, ch), Lines, f.hw, Base(cursor_y), n, ch)
<1>0. n \in Nat /\ f.top + Base(cursor_y) \in Nat /\ Base(cursor_y) \in Nat
  BY CursorRow, WindowFits, TextAssumption
<1>1. LowRow(f, n) \in 0..Height /\ HighRow(f, n) \in 0..Height
  BY CursorRow, WindowFits DEF Lower, Upper, LowRow, HighRow
<1>2. f.back \in [Stored -> PxRow] /\ f.hw \in [Lines -> PxRow]
  BY WindowFits, Zenon
<1>3. IsGlyph(Glyph(f.back, f.top + Base(cursor_y), n, ch), Stored, f.back,
              f.top + Base(cursor_y), n, ch)
  BY <1>0, <1>2, RowNumbers, GlyphIs, Zenon
<1>4. IsGlyph(Glyph(f.hw, Base(cursor_y), n, ch), Lines, f.hw, Base(cursor_y), n, ch)
  BY <1>0, <1>2, RowNumbers, GlyphIs, Zenon
<1>5. /\ Glyph(f.back, f.top + Base(cursor_y), n, ch) \in [Stored -> PxRow]
      /\ Glyph(f.hw, Base(cursor_y), n, ch) \in [Lines -> PxRow]
  BY <1>3, <1>4, Zenon DEF IsGlyph
<1>6. BackWith(f, n, ch) \in [Stored -> PxRow] /\ HwWith(f, n, ch) \in [Lines -> PxRow]
  BY <1>2, <1>5, Zenon DEF BackWith, HwWith
<1> QED
  BY <1>1, <1>3, <1>4, <1>6, Zenon DEF BackWith, HwWith

LEMMA DrawnTyped ==
    ASSUME NEW f, FbTyped(f), CursorOk, NEW ch \in Chars, NEW n \in 0..GlyphH
    PROVE  /\ Drawn(f, ch, n) \in Buffers
           /\ Fields(Drawn(f, ch, n), f.ready, f.top, LowRow(f, n), HighRow(f, n),
                     BackWith(f, n, ch), HwWith(f, n, ch))
<1>0. f \in Buffers
  BY Zenon DEF FbTyped
<1>1. /\ LowRow(f, n) \in 0..Height /\ HighRow(f, n) \in 0..Height
      /\ BackWith(f, n, ch) \in [Stored -> PxRow] /\ HwWith(f, n, ch) \in [Lines -> PxRow]
  BY WithTyped, Zenon
<1>4. Drawn(f, ch, n) \in Buffers
  BY <1>0, <1>1, Zenon DEF Buffers, Drawn
<1>5. Fields(Drawn(f, ch, n), f.ready, f.top, LowRow(f, n), HighRow(f, n),
             BackWith(f, n, ch), HwWith(f, n, ch))
  BY <1>0, Zenon DEF Buffers, Fields, Drawn
<1> QED
  BY <1>4, <1>5, Zenon

LEMMA SameFields ==
    ASSUME NEW f \in Buffers, NEW g \in Buffers, NEW rd, NEW tp, NEW mn, NEW mx, NEW bk, NEW sc,
           Fields(f, rd, tp, mn, mx, bk, sc), Fields(g, rd, tp, mn, mx, bk, sc)
    PROVE  f = g
BY DEF Buffers, Fields

SameAt(a, b, S) == \A r \in S, c \in Cells : a[r][c] = b[r][c]

LEMMA SameRows ==
    ASSUME NEW S, NEW a \in [S -> PxRow], NEW b \in [S -> PxRow], SameAt(a, b, S)
    PROVE  a = b
BY DEF PxRow, SameAt

LEMMA GlyphNone ==
    ASSUME NEW S \in SUBSET Nat, NEW rows \in [S -> PxRow], NEW lo \in Nat, NEW ch \in Chars
    PROVE  Glyph(rows, lo, 0, ch) = rows
<1>1. \A r \in S : ~(lo <= r /\ r < lo + 0)
  OBVIOUS
<1> DEFINE g == Glyph(rows, lo, 0, ch)
<1>2. IsGlyph(g, S, rows, lo, 0, ch)
  BY GlyphIs, Zenon
<1> HIDE DEF g
<1>3. g \in [S -> PxRow] /\ SameAt(g, rows, S)
  BY <1>1, <1>2, Zenon DEF IsGlyph, SameAt
<1>4. g = rows
  BY <1>3, SameRows, Zenon
<1> QED
  BY <1>4, Zenon DEF g

LEMMA GlyphNext ==
    ASSUME NEW S \in SUBSET Nat, NEW rows \in [S -> PxRow], NEW lo \in Nat, NEW n \in Nat,
           NEW ch \in Chars, lo + n \in S, cursor_x \in Cells
    PROVE  [Glyph(rows, lo, n, ch) EXCEPT ![lo + n][cursor_x] = <<ch, n>>]
           = Glyph(rows, lo, n + 1, ch)
<1> DEFINE a == Glyph(rows, lo, n, ch)
           b == Glyph(rows, lo, n + 1, ch)
           e == [a EXCEPT ![lo + n][cursor_x] = <<ch, n>>]
<1>1. IsGlyph(a, S, rows, lo, n, ch)
  BY GlyphIs, Zenon
<1>2. IsGlyph(b, S, rows, lo, n + 1, ch)
  <2>1. n + 1 \in Nat
    OBVIOUS
  <2> QED
    BY <2>1, GlyphIs, Zenon
<1> HIDE DEF a, b
<1>3. a \in [S -> PxRow] /\ b \in [S -> PxRow]
  BY <1>1, <1>2, Zenon DEF IsGlyph
<1>4. <<ch, n>> \in Px
  BY PxHas, Zenon
<1>5. e \in [S -> PxRow]
  BY <1>3, <1>4, Zenon DEF PxRow
<1>6. \A r \in S, c \in Cells :
         e[r][c] = IF r = lo + n /\ c = cursor_x THEN <<ch, n>> ELSE a[r][c]
  BY <1>3, Zenon DEF PxRow
<1> HIDE DEF e
<1>7. ASSUME NEW r \in S, NEW c \in Cells PROVE e[r][c] = b[r][c]
  <2>0. /\ a[r][c] = IF c = cursor_x /\ lo <= r /\ r < lo + n THEN <<ch, r - lo>> ELSE rows[r][c]
        /\ b[r][c] = IF c = cursor_x /\ lo <= r /\ r < lo + (n + 1) THEN <<ch, r - lo>> ELSE rows[r][c]
    BY <1>1, <1>2, Zenon DEF IsGlyph
  <2>1. CASE r = lo + n
    <3>1. lo <= r /\ r < lo + (n + 1) /\ ~(r < lo + n) /\ r - lo = n
      BY <2>1
    <3> QED
      BY <1>6, <2>0, <2>1, <3>1, Zenon
  <2>2. CASE r # lo + n
    <3>1. r < lo + (n + 1) <=> r < lo + n
      BY <2>2
    <3> QED
      BY <1>6, <2>0, <2>2, <3>1, Zenon
  <2> QED
    BY <2>1, <2>2, Zenon
<1>8. SameAt(e, b, S)
  BY <1>7, Zenon DEF SameAt
<1>9. e = b
  BY <1>3, <1>5, <1>8, SameRows, Zenon
<1> QED
  BY <1>9, Zenon DEF a, b, e

LEMMA DrawnNone ==
    ASSUME NEW f, FbTyped(f), CursorOk, NEW ch \in Chars
    PROVE  Drawn(f, ch, 0) = f
<1>1. 0 \in 0..GlyphH /\ f \in Buffers
  BY TextAssumption DEF FbTyped
<1>2. f.top + Base(cursor_y) \in Nat /\ Base(cursor_y) \in Nat
  BY CursorRow, WindowFits
<1>3. f.back \in [Stored -> PxRow] /\ f.hw \in [Lines -> PxRow]
  BY WindowFits, Zenon
<1>4. Glyph(f.back, f.top + Base(cursor_y), 0, ch) = f.back
  BY <1>2, <1>3, RowNumbers, GlyphNone, Zenon
<1>5. Glyph(f.hw, Base(cursor_y), 0, ch) = f.hw
  BY <1>2, <1>3, RowNumbers, GlyphNone, Zenon
<1>6. /\ LowRow(f, 0) = f.min /\ HighRow(f, 0) = f.max
      /\ BackWith(f, 0, ch) = f.back /\ HwWith(f, 0, ch) = f.hw
  BY <1>4, <1>5, Zenon DEF LowRow, HighRow, BackWith, HwWith
<1>7. Drawn(f, ch, 0) \in Buffers
      /\ Fields(Drawn(f, ch, 0), f.ready, f.top, f.min, f.max, f.back, f.hw)
  BY <1>1, <1>6, DrawnTyped, Zenon
<1>8. Fields(f, f.ready, f.top, f.min, f.max, f.back, f.hw)
  BY Zenon DEF Fields
<1> QED
  BY <1>1, <1>7, <1>8, SameFields, Zenon

LEMMA DrawnNext ==
    ASSUME NEW f, FbTyped(f), CursorOk, NEW ch \in Chars, NEW n \in 0..(GlyphH - 1)
    PROVE  framebuffer_putpixels(Drawn(f, ch, n), Base(cursor_y) + n, cursor_x, <<ch, n>>)
           = Drawn(f, ch, n + 1)
<1> DEFINE b == Base(cursor_y)
           k == b + n
           d == Drawn(f, ch, n)
           s == fb_row_store(d, k, cursor_x, <<ch, n>>)
           e == fb_mark_dirty(s, k)
<1>0. /\ n \in 0..GlyphH /\ n + 1 \in 0..GlyphH /\ n \in Nat /\ n + 1 # 0
      /\ b \in Nat /\ k \in Lines /\ k \in Nat /\ f.top + b \in Nat
      /\ f.top + k = (f.top + b) + n /\ (f.top + b) + n \in Stored
      /\ ~(k >= Height) /\ ~(cursor_x >= Cols) /\ cursor_x \in Cells
  <2>1. b \in Nat /\ b + GlyphH <= Height /\ GlyphH \in Nat /\ GlyphH # 0 /\ f.top \in Nat
        /\ Height \in Nat
    BY CursorRow, WindowFits, TextAssumption, Zenon
  <2>2. n \in Nat /\ n < GlyphH
    BY TextAssumption
  <2> HIDE DEF b
  <2>3. k \in Lines /\ k \in Nat
    BY <2>1, <2>2 DEF Lines
  <2>4. f.top + k \in Stored
    BY <2>3, WindowFits, Zenon
  <2>5. cursor_x \in Cells /\ ~(cursor_x >= Cols)
    BY TextAssumption DEF CursorOk, Cells
  <2> QED
    BY <2>1, <2>2, <2>3, <2>4, <2>5 DEF Lines
<1>1. d \in Buffers /\ Fields(d, f.ready, f.top, LowRow(f, n), HighRow(f, n),
                             BackWith(f, n, ch), HwWith(f, n, ch))
  BY <1>0, DrawnTyped, Zenon
<1>2. /\ Drawn(f, ch, n + 1) \in Buffers
      /\ Fields(Drawn(f, ch, n + 1), f.ready, f.top, LowRow(f, n + 1), HighRow(f, n + 1),
                BackWith(f, n + 1, ch), HwWith(f, n + 1, ch))
  BY <1>0, DrawnTyped, Zenon
<1>3. framebuffer_putpixels(d, k, cursor_x, <<ch, n>>) = e
  BY <1>0, Zenon DEF framebuffer_putpixels
<1>4. Lower(LowRow(f, n), k) = LowRow(f, n + 1) /\ Upper(HighRow(f, n), k + 1) = HighRow(f, n + 1)
  BY <1>0, WindowFits DEF Lower, Upper, LowRow, HighRow
<1>5. f.ready => [BackWith(f, n, ch) EXCEPT ![f.top + k][cursor_x] = <<ch, n>>]
                 = BackWith(f, n + 1, ch)
  <2> SUFFICES ASSUME f.ready
               PROVE  [Glyph(f.back, f.top + b, n, ch) EXCEPT ![(f.top + b) + n][cursor_x] = <<ch, n>>]
                      = Glyph(f.back, f.top + b, n + 1, ch)
    BY <1>0, Zenon DEF BackWith
  <2>1. f.back \in [Stored -> PxRow]
    BY WindowFits, Zenon
  <2> DEFINE lo == f.top + b
  <2>2. lo \in Nat /\ n \in Nat /\ lo + n \in Stored /\ cursor_x \in Cells
    BY <1>0, Zenon
  <2> HIDE DEF lo
  <2>3. [Glyph(f.back, lo, n, ch) EXCEPT ![lo + n][cursor_x] = <<ch, n>>]
        = Glyph(f.back, lo, n + 1, ch)
    BY <2>1, <2>2, RowNumbers, GlyphNext
  <2> QED
    BY <2>3, Zenon DEF lo
<1>6. ~f.ready => [HwWith(f, n, ch) EXCEPT ![k][cursor_x] = <<ch, n>>] = HwWith(f, n + 1, ch)
  <2> SUFFICES ASSUME ~f.ready
               PROVE  [Glyph(f.hw, b, n, ch) EXCEPT ![b + n][cursor_x] = <<ch, n>>]
                      = Glyph(f.hw, b, n + 1, ch)
    BY <1>0, Zenon DEF HwWith
  <2>1. f.hw \in [Lines -> PxRow]
    BY WindowFits, Zenon
  <2>2. b \in Nat /\ n \in Nat /\ b + n \in Lines /\ cursor_x \in Cells
    BY <1>0, Zenon
  <2> HIDE DEF b, k
  <2> QED
    BY <2>1, <2>2, RowNumbers, GlyphNext
<1> HIDE DEF d, k, b
<1>7. s = [d EXCEPT !.back = BackWith(f, n + 1, ch), !.hw = HwWith(f, n + 1, ch)]
  <2>0. d.ready = f.ready /\ d.top = f.top /\ d.back = BackWith(f, n, ch) /\ d.hw = HwWith(f, n, ch)
    BY <1>1, Zenon DEF Fields
  <2>1. CASE f.ready
    <3>1. s = [d EXCEPT !.back[f.top + k][cursor_x] = <<ch, n>>]
      BY <2>0, <2>1, Zenon DEF fb_row_store
    <3>2. s = [d EXCEPT !.back = BackWith(f, n + 1, ch)]
      BY <1>1, <1>5, <2>0, <2>1, <3>1, Zenon DEF Buffers
    <3>3. HwWith(f, n + 1, ch) = d.hw
      BY <2>0, <2>1, Zenon DEF HwWith
    <3> QED
      BY <1>1, <3>2, <3>3, Zenon DEF Buffers
  <2>2. CASE ~f.ready
    <3>1. s = [d EXCEPT !.hw[k][cursor_x] = <<ch, n>>]
      BY <2>0, <2>2, Zenon DEF fb_row_store
    <3>2. s = [d EXCEPT !.hw = HwWith(f, n + 1, ch)]
      BY <1>1, <1>6, <2>0, <2>2, <3>1, Zenon DEF Buffers
    <3>3. BackWith(f, n + 1, ch) = d.back
      BY <2>0, <2>2, Zenon DEF BackWith
    <3> QED
      BY <1>1, <3>2, <3>3, Zenon DEF Buffers
  <2> QED
    BY <2>1, <2>2, Zenon
<1> HIDE DEF s
<1>8. e = [d EXCEPT !.min = LowRow(f, n + 1), !.max = HighRow(f, n + 1),
                    !.back = BackWith(f, n + 1, ch), !.hw = HwWith(f, n + 1, ch)]
  BY <1>1, <1>4, <1>7, Zenon DEF Fields, fb_mark_dirty, Buffers
<1> HIDE DEF e
<1>9. /\ LowRow(f, n + 1) \in 0..Height /\ HighRow(f, n + 1) \in 0..Height
      /\ BackWith(f, n + 1, ch) \in [Stored -> PxRow] /\ HwWith(f, n + 1, ch) \in [Lines -> PxRow]
  BY <1>0, WithTyped, Zenon
<1>10. e \in Buffers
  BY <1>1, <1>8, <1>9, Zenon DEF Buffers
<1>11. Fields(e, f.ready, f.top, LowRow(f, n + 1), HighRow(f, n + 1),
              BackWith(f, n + 1, ch), HwWith(f, n + 1, ch))
  BY <1>1, <1>8, Zenon DEF Fields, Buffers
<1>12. e = Drawn(f, ch, n + 1)
  BY <1>2, <1>10, <1>11, SameFields, Zenon
<1> QED
  BY <1>3, <1>12, Zenon DEF d, k, b

PutRow(g, n, ch) ==
    framebuffer_putpixels(g, cursor_y * GlyphH + n - 1, cursor_x, <<ch, n - 1>>)

DrawEq(e, f, ch) == e = [n \in 0..GlyphH |-> IF n = 0 THEN f ELSE PutRow(e[n - 1], n, ch)]

LEMMA PutRowNext ==
    ASSUME NEW f, FbTyped(f), CursorOk, NEW ch \in Chars, NEW n \in 0..GlyphH, n # 0
    PROVE  PutRow(Drawn(f, ch, n - 1), n, ch) = Drawn(f, ch, n)
<1> DEFINE m == n - 1
<1>1. m \in 0..(GlyphH - 1) /\ m + 1 = n
  BY TextAssumption
<1>2. cursor_y * GlyphH + n - 1 = Base(cursor_y) + m
  BY <1>1, CursorRow, TextAssumption, Zenon DEF Base
<1>3. framebuffer_putpixels(Drawn(f, ch, m), Base(cursor_y) + m, cursor_x, <<ch, m>>)
      = Drawn(f, ch, m + 1)
  <2> HIDE DEF m
  <2> QED
    BY <1>1, DrawnNext, Zenon
<1> QED
  BY <1>1, <1>2, <1>3, Zenon DEF PutRow

\* font_draw, a recursion over the rows of the glyph, in closed form.
LEMMA DrawIs ==
    ASSUME NEW f, FbTyped(f), CursorOk, NEW ch \in Chars
    PROVE  font_draw(f, ch) = Drawn(f, ch, GlyphH)
<1> DEFINE e == CHOOSE g : DrawEq(g, f, ch)
           d == [n \in 0..GlyphH |-> Drawn(f, ch, n)]
<1>1. font_draw(f, ch) = e[GlyphH]
  BY Zenon DEF font_draw, DrawEq, PutRow
<1>2. DrawEq(d, f, ch)
  <2>1. ASSUME NEW n \in 0..GlyphH
        PROVE  Drawn(f, ch, n) = IF n = 0 THEN f ELSE PutRow(d[n - 1], n, ch)
    <3>1. CASE n = 0
      BY <3>1, DrawnNone, Zenon
    <3>2. CASE n # 0
      <4>1. n - 1 \in 0..GlyphH
        BY <3>2, TextAssumption
      <4>2. d[n - 1] = Drawn(f, ch, n - 1)
        BY <4>1, Zenon
      <4> QED
        BY <3>2, <4>2, PutRowNext, Zenon
    <3> QED
      BY <3>1, <3>2, Zenon
  <2>2. d = [n \in 0..GlyphH |-> IF n = 0 THEN f ELSE PutRow(d[n - 1], n, ch)]
    BY <2>1, Zenon
  <2> QED
    BY <2>2, Zenon DEF DrawEq
<1>3. DrawEq(e, f, ch)
  BY <1>2, Zenon
<1> HIDE DEF e
<1>4. \A n \in 0..GlyphH : e[n] = IF n = 0 THEN f ELSE PutRow(e[n - 1], n, ch)
  BY <1>3, Zenon DEF DrawEq
<1>5. ASSUME NEW bad \in 0..GlyphH, e[bad] # Drawn(f, ch, bad) PROVE FALSE
  <2> DEFINE B == {n \in 0..GlyphH : e[n] # Drawn(f, ch, n)}
             m == Min(B)
  <2>1. B \in SUBSET Nat /\ B # {}
    BY <1>5, TextAssumption
  <2>2. m \in B /\ \A k \in B : m <= k
    <3> HIDE DEF B
    <3> QED
      BY <2>1, MinIsLeast, Zenon
  <2> HIDE DEF m
  <2>3. m \in 0..GlyphH /\ e[m] # Drawn(f, ch, m)
    BY <2>2, Zenon
  <2>4. m # 0
    BY <1>4, <2>3, DrawnNone, Zenon
  <2>5. m - 1 \in 0..GlyphH /\ ~(m <= m - 1)
    BY <2>3, <2>4, TextAssumption
  <2>6. e[m - 1] = Drawn(f, ch, m - 1)
    BY <2>2, <2>5, Zenon
  <2>7. e[m] = PutRow(e[m - 1], m, ch)
    BY <1>4, <2>3, <2>4, Zenon
  <2> QED
    BY <2>3, <2>4, <2>6, <2>7, PutRowNext, Zenon
<1>6. GlyphH \in 0..GlyphH
  BY TextAssumption
<1> QED
  BY <1>1, <1>5, <1>6, Zenon

LEMMA DrawOk ==
    ASSUME NEW f, FbOk(f), CursorOk, NEW ch \in Chars
    PROVE  /\ FbOk(font_draw(f, ch))
           /\ Draws(View(font_draw(f, ch)), View(f), cursor_y, cursor_x, ch)
<1> DEFINE b == Base(cursor_y)
           d == font_draw(f, ch)
           bk == BackWith(f, GlyphH, ch)
           sc == HwWith(f, GlyphH, ch)
<1>0. FbTyped(f) /\ Clean(f) /\ TailBlank(f) /\ RestBlank(View(f))
  BY Zenon DEF FbOk
<1>1. GlyphH \in 0..GlyphH /\ GlyphH # 0 /\ b \in Nat /\ b + GlyphH <= Height
      /\ f.top \in Nat /\ GlyphH \in Nat /\ Height \in Nat
  BY <1>0, CursorRow, WindowFits, TextAssumption
<1>2. d = Drawn(f, ch, GlyphH)
  BY <1>0, DrawIs, Zenon
<1>3. d \in Buffers /\ Fields(d, f.ready, f.top, LowRow(f, GlyphH), HighRow(f, GlyphH), bk, sc)
  BY <1>0, <1>1, <1>2, DrawnTyped, Zenon
<1>4. /\ f.ready => IsGlyph(bk, Stored, f.back, f.top + b, GlyphH, ch)
      /\ ~f.ready => IsGlyph(sc, Lines, f.hw, b, GlyphH, ch)
  BY <1>0, <1>1, WithTyped, Zenon
<1>5. sc = IF f.ready THEN f.hw ELSE sc
  BY Zenon DEF HwWith
<1> HIDE DEF d, b, bk
<1>6. FbTyped(d)
  BY <1>0, <1>3, Zenon DEF FbTyped, Fields
<1>7. Draws(View(d), View(f), cursor_y, cursor_x, ch)
  <2> SUFFICES ASSUME NEW r \in Lines, NEW c \in Cells
               PROVE  View(d)[r][c] = IF c = cursor_x /\ b <= r /\ r < b + GlyphH
                                      THEN <<ch, r - b>> ELSE View(f)[r][c]
    BY Zenon DEF Draws, b
  <2>1. CASE f.ready
    <3>1. View(d)[r] = bk[f.top + r] /\ View(f)[r] = f.back[f.top + r]
      BY <1>3, <2>1, Zenon DEF View, Fields
    <3>2. f.top + r \in Stored
      BY <1>0, WindowFits, Zenon
    <3>3. bk[f.top + r][c] = IF c = cursor_x /\ f.top + b <= f.top + r /\ f.top + r < f.top + b + GlyphH
                             THEN <<ch, (f.top + r) - (f.top + b)>> ELSE f.back[f.top + r][c]
      BY <1>4, <2>1, <3>2, Zenon DEF IsGlyph
    <3>4. /\ f.top + b <= f.top + r <=> b <= r
          /\ f.top + r < f.top + b + GlyphH <=> r < b + GlyphH
          /\ (f.top + r) - (f.top + b) = r - b
      BY <1>1 DEF Lines
    <3> QED
      BY <3>1, <3>3, <3>4, Zenon
  <2>2. CASE ~f.ready
    <3>1. View(d)[r] = sc[r] /\ View(f)[r] = f.hw[r]
      BY <1>3, <2>2, Zenon DEF View, Fields
    <3> HIDE DEF sc
    <3> QED
      BY <1>4, <2>2, <3>1, Zenon DEF IsGlyph
  <2> QED
    BY <2>1, <2>2, Zenon
<1>8. TailBlank(d)
  <2> SUFFICES ASSUME f.ready, NEW r \in Stored, r >= f.top + Height PROVE bk[r] = Zero
    BY <1>3, Zenon DEF TailBlank, Fields
  <2>1. ~(r < f.top + b + GlyphH)
    BY <1>1 DEF Stored
  <2>2. \A c \in Cells : bk[r][c] = f.back[r][c]
    BY <1>4, <2>1, Zenon DEF IsGlyph
  <2>3. bk[r] \in PxRow /\ f.back[r] \in PxRow
    BY <1>0, <1>4, WindowFits, Zenon DEF IsGlyph
  <2>4. bk[r] = f.back[r]
    BY <2>2, <2>3, SameRow, Zenon
  <2> QED
    BY <1>0, <2>4, Zenon DEF TailBlank
<1>9. Clean(d)
  <2> SUFFICES ASSUME f.ready, NEW r \in Lines,
                      ~(LowRow(f, GlyphH) <= r /\ r < HighRow(f, GlyphH))
               PROVE  f.hw[r] = bk[f.top + r]
    BY <1>3, <1>5 DEF Clean, Fields
  <2>1. ~(f.min <= r /\ r < f.max) /\ ~(b <= r /\ r < b + GlyphH)
    BY <1>0, <1>1, WindowFits DEF LowRow, HighRow, Lower, Upper, Lines, b
  <2>2. f.top + r \in Stored /\ ~(f.top + b <= f.top + r /\ f.top + r < f.top + b + GlyphH)
    BY <1>0, <1>1, <2>1, WindowFits DEF Lines
  <2>3. \A c \in Cells : bk[f.top + r][c] = f.back[f.top + r][c]
    BY <1>4, <2>2, Zenon DEF IsGlyph
  <2>4. bk[f.top + r] \in PxRow /\ f.back[f.top + r] \in PxRow
    BY <1>0, <1>4, <2>2, WindowFits, Zenon DEF IsGlyph
  <2>5. bk[f.top + r] = f.back[f.top + r]
    BY <2>3, <2>4, SameRow, Zenon
  <2> QED
    BY <1>0, <2>1, <2>5, Zenon DEF Clean
<1>10. RestBlank(View(d))
  <2>1. View(d) \in [Lines -> PxRow]
    BY <1>6, ViewTyped, Zenon
  <2>2. \A r \in Lines : DOMAIN View(d)[r] = Cells /\ View(d)[r] = [c \in Cells |-> View(d)[r][c]]
    BY <2>1, Zenon DEF PxRow
  <2> QED
    BY <1>0, <1>7, <2>2, DrawsRest, Zenon DEF CursorOk
<1> QED
  BY <1>6, <1>7, <1>8, <1>9, <1>10, Zenon DEF FbOk, d

-----------------------------------------------------------------------------
(* The refinement                                                          *)

TextIInv == FbOk(fb) /\ CursorOk

\* The grid of the abstract terminal.
ShownGrid == [r \in 0..(Rows - 1) |-> [c \in 0..(Cols - 1) |-> Shown(r, c)]]

LEMMA TextInitOk == TextInit => TextIInv /\ ShownGrid = [r \in 0..(Rows - 1) |-> [c \in Cells |-> " "]]
<1> SUFFICES ASSUME TextInit PROVE TextIInv /\ ShownGrid = [r \in 0..(Rows - 1) |-> [c \in Cells |-> " "]]
  BY Zenon
<1>1. PICK rd \in BOOLEAN : fb = [ready |-> rd, top |-> 0, min |-> Height, max |-> 0,
                back |-> [r \in 0..(BackRows - 1) |-> Zero], hw |-> [r \in Lines |-> Zero]]
  BY Zenon DEF TextInit
<1>2. 0 \in 0..Height /\ Height \in 0..Height /\ 0 + Height <= BackRows
  BY TextAssumption DEF BackRows
<1>3. FbTyped(fb)
  BY <1>1, <1>2, PxHas, Zenon DEF FbTyped, Buffers, Stored
<1>4. \A r \in Lines : 0 + r \in Stored
  BY TextAssumption DEF Lines, Stored, BackRows
<1>5. Clean(fb) /\ TailBlank(fb) /\ \A r \in Lines : View(fb)[r] = Zero
  BY <1>1, <1>4, Zenon DEF Clean, TailBlank, View, Stored
<1>6. RestBlank(View(fb)) /\ Grid(View(fb)) = [r \in 0..(Rows - 1) |-> [c \in Cells |-> " "]]
  BY <1>5, ZerosClear, Zenon
<1>7. CursorOk
  BY RowsFit, TextAssumption DEF TextInit, CursorOk, Cells
<1>8. FbOk(fb)
  BY <1>3, <1>5, <1>6, Zenon DEF FbOk
<1>9. Screen = View(fb)
  BY <1>8, FlushOk, Zenon DEF Screen
<1>10. ShownGrid = Grid(View(fb))
  BY <1>9, Zenon DEF ShownGrid, Grid, Shown, Cell, Base, Cells
<1> QED
  BY <1>6, <1>7, <1>8, <1>10, Zenon DEF TextIInv

Up(g) == [r \in 0..(Rows - 1) |-> IF r = Rows - 1 THEN [c \in Cells |-> " "] ELSE g[r + 1]]

\* The tail of font_putc moves the cursor and the rows as the terminal does.
LEMMA SettleAdvances ==
    ASSUME NEW f, FbOk(f), NEW cx \in 0..Cols, NEW cy \in 0..Rows,
           cx = Cols => cy < Rows, Settle(f, cx, cy)
    PROVE  LET y == IF cx = Cols THEN cy + 1 ELSE cy
           IN  /\ FbOk(fb') /\ CursorOk'
               /\ cursor_x' = IF cx = Cols THEN 0 ELSE cx
               /\ cursor_y' = IF y = Rows THEN Rows - 1 ELSE y
               /\ Grid(View(fb')) = IF y = Rows THEN Up(Grid(View(f))) ELSE Grid(View(f))
<1> DEFINE y == IF cx = Cols THEN cy + 1 ELSE cy
<1>0. Rows \in Nat /\ Rows # 0 /\ Cols \in Nat /\ Cols # 0
  BY RowsFit, TextAssumption, Zenon
<1>1. /\ (cx >= Cols <=> cx = Cols) /\ y \in 0..Rows /\ (y >= Rows <=> y = Rows)
  BY <1>0
<1>2. /\ cursor_x' = IF cx = Cols THEN 0 ELSE cx
      /\ cursor_y' = IF y = Rows THEN Rows - 1 ELSE y
      /\ fb' = IF y = Rows THEN framebuffer_scroll_up(f, GlyphH) ELSE f
  BY <1>1, Zenon DEF Settle
<1> HIDE DEF y
<1>3. CursorOk'
  BY <1>0, <1>1, <1>2 DEF CursorOk, Cells
<1>4. FbOk(fb') /\ Grid(View(fb')) = IF y = Rows THEN Up(Grid(View(f))) ELSE Grid(View(f))
  <2>1. CASE y = Rows
    <3> DEFINE g == framebuffer_scroll_up(f, GlyphH)
    <3>1. FbOk(g) /\ Scrolls(View(g), View(f))
      BY ScrollUp, Zenon
    <3>2. fb' = g
      BY <1>2, <2>1, Zenon
    <3> HIDE DEF g
    <3>3. RestBlank(View(f))
      BY Zenon DEF FbOk
    <3>4. Grid(View(g)) = Up(Grid(View(f)))
      BY <3>1, <3>3, ScrollsUp, Zenon DEF Up
    <3> QED
      BY <2>1, <3>1, <3>2, <3>4, Zenon
  <2>2. CASE y # Rows
    BY <1>2, <2>2, Zenon
  <2> QED
    BY <2>1, <2>2, Zenon
<1> QED
  BY <1>2, <1>3, <1>4, Zenon DEF y

Steps(g, h) ==
    \/ \E ch \in Chars :
          LET p == Placed(g, cursor_y, cursor_x, ch)
              y == IF cursor_x + 1 = Cols THEN cursor_y + 1 ELSE cursor_y
          IN  /\ cursor_x' = IF cursor_x + 1 = Cols THEN 0 ELSE cursor_x + 1
              /\ cursor_y' = IF y = Rows THEN Rows - 1 ELSE y
              /\ h = IF y = Rows THEN Up(p) ELSE p
    \/ /\ cursor_x' = 0
       /\ cursor_y' = IF cursor_y + 1 = Rows THEN Rows - 1 ELSE cursor_y + 1
       /\ h = IF cursor_y + 1 = Rows THEN Up(g) ELSE g
    \/ cursor_x' = 0 /\ cursor_y' = cursor_y /\ h = g
    \/ cursor_x' = 0 /\ cursor_y' = 0 /\ h = [r \in 0..(Rows - 1) |-> [c \in Cells |-> " "]]

LEMMA TextStep ==
    ASSUME TextIInv, TextNext
    PROVE  TextIInv' /\ Steps(Grid(View(fb)), Grid(View(fb'))) /\ FbOk(fb')
<1>0. /\ FbOk(fb) /\ CursorOk /\ cursor_x \in Cells /\ cursor_y \in 0..(Rows - 1)
      /\ Rows \in Nat /\ Rows # 0 /\ Cols \in Nat /\ Cols # 0
  BY RowsFit, TextAssumption, Zenon DEF TextIInv, CursorOk
<1>1. ASSUME NEW ch \in Chars, font_putc(ch) PROVE FbOk(fb') /\ CursorOk' /\ Steps(Grid(View(fb)), Grid(View(fb')))
  <2> DEFINE d == font_draw(fb, ch)
             p == Placed(Grid(View(fb)), cursor_y, cursor_x, ch)
             y == IF cursor_x + 1 = Cols THEN cursor_y + 1 ELSE cursor_y
  <2>1. FbOk(d) /\ Draws(View(d), View(fb), cursor_y, cursor_x, ch)
    BY <1>0, DrawOk, Zenon
  <2>2. Settle(d, cursor_x + 1, cursor_y)
    BY <1>1, Zenon DEF font_putc
  <2>3. cursor_x + 1 \in 0..Cols /\ cursor_y \in 0..Rows /\ cursor_y < Rows
    BY <1>0 DEF Cells
  <2> HIDE DEF d
  <2>4. Grid(View(d)) = p
    BY <1>0, <2>1, DrawsPut
  <2>5. /\ FbOk(fb') /\ CursorOk'
        /\ cursor_x' = IF cursor_x + 1 = Cols THEN 0 ELSE cursor_x + 1
        /\ cursor_y' = IF y = Rows THEN Rows - 1 ELSE y
        /\ Grid(View(fb')) = IF y = Rows THEN Up(Grid(View(d))) ELSE Grid(View(d))
    BY <2>1, <2>2, <2>3, SettleAdvances, Zenon
  <2>6. Grid(View(fb')) = IF y = Rows THEN Up(p) ELSE p
    BY <2>4, <2>5, Zenon
  <2> QED
    BY <2>5, <2>6, Zenon DEF Steps
<1>2. ASSUME font_newline PROVE FbOk(fb') /\ CursorOk' /\ Steps(Grid(View(fb)), Grid(View(fb')))
  <2> DEFINE d == framebuffer_flush(fb)
  <2>1. FbOk(d) /\ View(d) = View(fb)
    BY <1>0, FlushOk, Zenon
  <2>2. Settle(d, 0, cursor_y + 1)
    BY <1>2, Zenon DEF font_newline
  <2>3. 0 \in 0..Cols /\ cursor_y + 1 \in 0..Rows /\ 0 # Cols
    BY <1>0
  <2> HIDE DEF d
  <2>5. /\ FbOk(fb') /\ CursorOk' /\ cursor_x' = 0
        /\ cursor_y' = IF cursor_y + 1 = Rows THEN Rows - 1 ELSE cursor_y + 1
        /\ Grid(View(fb')) = IF cursor_y + 1 = Rows THEN Up(Grid(View(d))) ELSE Grid(View(d))
    BY <2>1, <2>2, <2>3, SettleAdvances, Zenon
  <2> QED
    BY <2>1, <2>5, Zenon DEF Steps
<1>3. ASSUME font_return PROVE FbOk(fb') /\ CursorOk' /\ Steps(Grid(View(fb)), Grid(View(fb')))
  <2>2. Settle(fb, 0, cursor_y)
    BY <1>3, Zenon DEF font_return
  <2>3. 0 \in 0..Cols /\ cursor_y \in 0..Rows /\ 0 # Cols /\ cursor_y # Rows
    BY <1>0
  <2>5. /\ FbOk(fb') /\ CursorOk' /\ cursor_x' = 0
        /\ cursor_y' = IF cursor_y = Rows THEN Rows - 1 ELSE cursor_y
        /\ Grid(View(fb')) = IF cursor_y = Rows THEN Up(Grid(View(fb))) ELSE Grid(View(fb))
    BY <1>0, <2>2, <2>3, SettleAdvances, Zenon
  <2> QED
    BY <2>3, <2>5, Zenon DEF Steps
<1>4. ASSUME font_clear PROVE FbOk(fb') /\ CursorOk' /\ Steps(Grid(View(fb)), Grid(View(fb')))
  <2>1. FbOk(fb') /\ \A r \in Lines : View(fb')[r] = Zero
    BY <1>0, <1>4, ClearOk, Zenon DEF font_clear
  <2>2. Grid(View(fb')) = [r \in 0..(Rows - 1) |-> [c \in Cells |-> " "]]
    BY <2>1, ZerosClear, Zenon
  <2>3. CursorOk'
    BY <1>0, <1>4 DEF font_clear, CursorOk, Cells
  <2> QED
    BY <1>4, <2>1, <2>2, <2>3, Zenon DEF font_clear, Steps
<1> QED
  BY <1>1, <1>2, <1>3, <1>4, Zenon DEF TextNext, TextIInv

\* The bitmap console implements the plain terminal: ImplementsTerminal, for
\* every size of the screen, of the glyphs and of the alphabet.
THEOREM ConsoleIsTerminal == TextSpec => ImplementsTerminal
<1>1. TextInit => TextIInv /\ Text!Init
  <2>1. TextInit => ShownGrid = [r \in 0..(Rows - 1) |-> [c \in 0..(Cols - 1) |-> " "]]
    BY TextInitOk, Zenon DEF Cells
  <2> QED
    BY <2>1, TextInitOk, Zenon DEF TextInit, Text!Init, Text!Empty, ShownGrid
<1>2. TextIInv /\ [TextNext]_textVars
      => TextIInv' /\ [Text!Next]_<<ShownGrid, cursor_x, cursor_y>>
  <2> SUFFICES ASSUME TextIInv, [TextNext]_textVars
               PROVE  TextIInv' /\ [Text!Next]_<<ShownGrid, cursor_x, cursor_y>>
    BY Zenon
  <2>1. CASE TextNext
    <3>1. TextIInv' /\ Steps(Grid(View(fb)), Grid(View(fb'))) /\ FbOk(fb') /\ FbOk(fb)
      BY <2>1, TextStep, Zenon DEF TextIInv
    <3>2. Screen = View(fb) /\ Screen' = View(fb')
      BY <3>1, FlushOk, Zenon DEF Screen
    <3>3. ShownGrid = Grid(View(fb)) /\ ShownGrid' = Grid(View(fb'))
      BY <3>2 DEF ShownGrid, Grid, Shown, Cell, Base, Cells
    <3>4. Steps(ShownGrid, ShownGrid')
      BY <3>1, <3>3, Zenon
    <3>5. cursor_y # Rows
      BY RowsFit DEF TextIInv, CursorOk
    <3>6. Text!Next
      <4>1. ASSUME NEW ch \in Chars, cursor_x + 1 = Cols,
                   cursor_x' = 0, cursor_y' = IF cursor_y + 1 = Rows THEN Rows - 1 ELSE cursor_y + 1,
                   ShownGrid' = IF cursor_y + 1 = Rows
                                  THEN Up(Placed(ShownGrid, cursor_y, cursor_x, ch))
                                  ELSE Placed(ShownGrid, cursor_y, cursor_x, ch)
            PROVE  Text!Put(ch)
        BY <4>1, Zenon DEF Text!Put, Text!Advance, Text!Empty, Up, Placed, Cells, ShownGrid
      <4>2. ASSUME NEW ch \in Chars, cursor_x + 1 # Cols,
                   cursor_x' = cursor_x + 1, cursor_y' = cursor_y,
                   ShownGrid' = Placed(ShownGrid, cursor_y, cursor_x, ch)
            PROVE  Text!Put(ch)
        BY <3>5, <4>2, Zenon DEF Text!Put, Text!Advance, Placed, ShownGrid
      <4>3. ASSUME cursor_x' = 0,
                   cursor_y' = IF cursor_y + 1 = Rows THEN Rows - 1 ELSE cursor_y + 1,
                   ShownGrid' = IF cursor_y + 1 = Rows THEN Up(ShownGrid) ELSE ShownGrid
            PROVE  Text!NewLine
        BY <4>3, Zenon DEF Text!NewLine, Text!Advance, Text!Empty, Up, Cells, ShownGrid
      <4>4. ASSUME cursor_x' = 0, cursor_y' = cursor_y, ShownGrid' = ShownGrid
            PROVE  Text!Return
        BY <3>5, <4>4, Zenon DEF Text!Return, Text!Advance, ShownGrid
      <4>5. ASSUME cursor_x' = 0, cursor_y' = 0,
                   ShownGrid' = [r \in 0..(Rows - 1) |-> [c \in Cells |-> " "]]
            PROVE  Text!Clear
        BY <4>5, Zenon DEF Text!Clear, Text!Empty, Cells, ShownGrid
      <4> QED
        BY <3>4, <3>5, <4>1, <4>2, <4>3, <4>4, <4>5, Zenon DEF Steps, Text!Next
    <3> QED
      BY <3>1, <3>6, Zenon
  <2>2. CASE UNCHANGED textVars
    BY <2>2 DEF textVars, TextIInv, CursorOk, ShownGrid, Shown, Screen
  <2> QED
    BY <2>1, <2>2, Zenon
<1> QED
  BY <1>1, <1>2, PTL DEF TextSpec, ImplementsTerminal, Text!Spec, ShownGrid

-----------------------------------------------------------------------------
(* The LVGL console, LvConsole                                             *)

ShownOf(lb, b, lt, n) ==
    /\ Len(lb) - n <= Len(b)
    /\ \A k \in 1..(Len(lb) - n) : b[k] = lb[k + n]
    /\ \A k \in (Len(lb) - n + 1)..Len(b) : b[k] \in lt
Shows(lb, b, lt) == \E n \in 0..Len(lb) : ShownOf(lb, b, lt, n)

Rendering == {"scroll", "finish", "settle"}
Live == con_active /\ con_pc \notin {"stop", "stray"}

LogTyped ==
    /\ buf \in Seq(Int) /\ label \in Seq(Int) /\ i \in Nat
    /\ total_chars \in Nat /\ rendered_total \in Nat /\ rendered_total <= total_chars
    /\ con_pumping \in BOOLEAN /\ anim_pending \in BOOLEAN
    /\ con_pumping <=> con_pc \in Rendering

\* The label is up to date whenever the counters say so, and all through a pump.
LabelOk ==
    Live /\ (con_pc \in Rendering \/ (con_pc \in {"out", "pump"} /\ total_chars = rendered_total))
      => Shows(label, buf, late)

\* The scroll position is the end of the label once no glide is pending.
ScrollOk ==
    Live => /\ cached_target = Target(label)
            /\ con_pc # "scroll" /\ (anim_pending => con_pc = "settle") => scroll = cached_target

LogIInv == LogTyped /\ LabelOk /\ ScrollOk

LEMMA ShowsAll ==
    ASSUME NEW b \in Seq(Int), NEW lt PROVE Shows(b, b, lt)
<1>1. Len(b) \in Nat /\ 0 \in 0..Len(b)
  OBVIOUS
<1>2. ShownOf(b, b, lt, 0)
  BY <1>1 DEF ShownOf
<1> QED
  BY <1>1, <1>2, Zenon DEF Shows

LEMMA EvictedFits ==
    ASSUME NEW b \in Seq(Int) PROVE Evicted(b) \in 0..Len(b)
<1> DEFINE ends == {k \in (CON_KEEP \div 2 + 1)..Len(b) : b[k] < 0}
<1>1. CON_KEEP \div 2 \in Nat /\ Len(b) \in Nat
  BY LogAssumption
<1>2. ends \in SUBSET Nat /\ \A k \in ends : k \in 0..Len(b)
  BY <1>1
<1>3. ends # {} => Min(ends) \in ends
  <2> HIDE DEF ends
  <2> QED
    BY <1>2, MinIsLeast, Zenon
<1>4. Len(b) + 2 > CON_KEEP => 1 \in 0..Len(b)
  BY <1>1, LogAssumption
<1> HIDE DEF ends
<1>5. Evicted(b) = IF Len(b) + 2 <= CON_KEEP THEN 0 ELSE IF ends # {} THEN Min(ends) ELSE 1
  BY Zenon DEF Evicted, ends
<1>6. CASE Len(b) + 2 <= CON_KEEP
  BY <1>1, <1>5, <1>6
<1>7. CASE ~(Len(b) + 2 <= CON_KEEP)
  <2>1. 1 \in 0..Len(b)
    BY <1>1, <1>4, <1>7, LogAssumption
  <2> QED
    BY <1>2, <1>3, <1>5, <1>7, <2>1, Zenon
<1> QED
  BY <1>6, <1>7, Zenon

\* What the interrupt prints: lines may go at the front, a character comes
\* at the end.
LEMMA PutKeeps ==
    ASSUME NEW b \in Seq(Int), NEW lb \in Seq(Int), NEW lt, Shows(lb, b, lt),
           NEW m \in 0..Len(b), NEW c \in Int
    PROVE  Shows(lb, Append(SubSeq(b, m + 1, Len(b)), c), lt \cup {c})
<1> DEFINE d == Append(SubSeq(b, m + 1, Len(b)), c)
<1>1. PICK n \in 0..Len(lb) : ShownOf(lb, b, lt, n)
  BY Zenon DEF Shows
<1>2. Len(b) \in Nat /\ Len(lb) \in Nat /\ m \in Nat /\ n \in Nat /\ n <= Len(lb) /\ m <= Len(b)
  OBVIOUS
<1>3. Len(d) = Len(b) - m + 1 /\ \A k \in 1..Len(d) : d[k] = IF k <= Len(b) - m THEN b[k + m] ELSE c
  BY <1>2
<1> HIDE DEF d
<1> DEFINE j == IF n + m <= Len(lb) THEN n + m ELSE Len(lb)
<1>4. j \in 0..Len(lb)
  BY <1>2
<1>5. Len(lb) - j <= Len(d)
  <2>1. Len(lb) - n <= Len(b)
    BY <1>1, Zenon DEF ShownOf
  <2>2. Len(d) = Len(b) - m + 1
    BY <1>3, Zenon
  <2>3. CASE n + m <= Len(lb)
    <3>1. j = n + m
      BY <2>3, Zenon
    <3> HIDE DEF j
    <3> QED
      BY <1>2, <2>1, <2>2, <3>1
  <2>4. CASE ~(n + m <= Len(lb))
    <3>1. j = Len(lb)
      BY <2>4, Zenon
    <3> HIDE DEF j
    <3> QED
      BY <1>2, <2>2, <3>1
  <2> QED
    BY <2>3, <2>4, Zenon
<1>6. ASSUME NEW k \in 1..(Len(lb) - j) PROVE d[k] = lb[k + j]
  <2>1. n + m <= Len(lb) /\ j = n + m /\ k \in Nat
    BY <1>2
  <2>2. k + m \in 1..(Len(lb) - n) /\ (k + m) + n = k + j /\ k <= Len(b) - m /\ k \in 1..Len(d)
    BY <1>1, <1>2, <1>3, <2>1 DEF ShownOf
  <2>3. b[k + m] = lb[(k + m) + n]
    BY <1>1, <2>2, Zenon DEF ShownOf
  <2> QED
    BY <1>3, <2>2, <2>3, Zenon
<1>7. ASSUME NEW k \in (Len(lb) - j + 1)..Len(d) PROVE d[k] \in lt \cup {c}
  <2>0. k \in 1..Len(d) /\ k \in Nat
    BY <1>2, <1>3, <1>4
  <2>1. CASE k <= Len(b) - m
    <3>1. k + m \in (Len(lb) - n + 1)..Len(b)
      BY <1>2, <2>0, <2>1
    <3>2. b[k + m] \in lt
      BY <1>1, <3>1, Zenon DEF ShownOf
    <3> QED
      BY <1>3, <2>0, <2>1, <3>2, Zenon
  <2>2. CASE ~(k <= Len(b) - m)
    BY <1>3, <2>0, <2>2, Zenon
  <2> QED
    BY <2>1, <2>2, Zenon
<1> HIDE DEF j
<1>8. ShownOf(lb, d, lt \cup {c}, j)
  BY <1>5, <1>6, <1>7, Zenon DEF ShownOf
<1> QED
  BY <1>4, <1>8, Zenon DEF Shows, d

LEMMA JoinTyped ==
    ASSUME NEW S, NEW s \in Seq(S), NEW t \in Seq(S) PROVE s \o t \in Seq(S)
OBVIOUS

LEMMA NoneCounted == Cardinality({}) = 0
<1> DEFINE F(f) == [T \in SUBSET {} |->
                      IF T = {} THEN 0 ELSE 1 + f[T \ {CHOOSE x : x \in T}]]
           g == [T \in SUBSET {} |-> 0]
<1>1. g = F(g)
  BY SMT
<1>2. (CHOOSE f : f = F(f)) = F(CHOOSE f : f = F(f))
  BY <1>1, Zenon
<1> QED
  BY <1>1, <1>2, Zenon DEF Cardinality

LEMMA LogInitOk == LogInit => LogIInv
<1> SUFFICES ASSUME LogInit PROVE LogIInv
  BY Zenon
<1>1. <<>> \in Seq(Int)
  OBVIOUS
<1>2. LogTyped
  <2>1. con_pumping = FALSE /\ con_pc \notin Rendering
    BY Zenon DEF LogInit, Rendering
  <2>2. buf \in Seq(Int) /\ label \in Seq(Int) /\ rendered_total <= total_chars
    BY <1>1 DEF LogInit
  <2> QED
    BY <2>1, <2>2, Zenon DEF LogInit, LogTyped
<1>3. LabelOk
  BY <1>1, ShowsAll, Zenon DEF LogInit, LabelOk
<1>4. Target(<<>>) = 0
  <2>1. {k \in DOMAIN <<>> : <<>>[k] < 0} = {}
    OBVIOUS
  <2> QED
    BY <2>1, NoneCounted, Zenon DEF Target
<1>5. ScrollOk
  BY <1>4, Zenon DEF LogInit, ScrollOk
<1> QED
  BY <1>2, <1>3, <1>5, Zenon DEF LogIInv

\* One step of the thread or of the clock.
LEMMA ThreadStep ==
    ASSUME LogIInv, Elapse \/ Output \/ Pump \/ SettleLog \/ stop PROVE LogIInv'
<1> USE DEF LogIInv
<1>1. CASE Elapse
  BY <1>1, Zenon DEF Elapse, shown, LogTyped, LabelOk, ScrollOk, Live
<1>2. CASE putc_room
  <2>1. Evicted(buf) \in 0..Len(buf) /\ Len(buf) \in Nat
    BY EvictedFits DEF LogTyped
  <2>2. Shifted(buf, Evicted(buf)) \in Seq(Int)
    <3> DEFINE n == Evicted(buf)
    <3>1. SubSeq(buf, n + 1, Len(buf)) \in Seq(Int) /\ SubSeq(buf, Len(buf) - n + 1, Len(buf)) \in Seq(Int)
      BY <2>1 DEF LogTyped
    <3> QED
      BY <3>1, JoinTyped, Zenon DEF Shifted
  <2>3. LogTyped'
    BY <1>2, <2>1, <2>2 DEF putc_room, shown, LogTyped, Rendering
  <2>4. LabelOk' /\ ScrollOk'
    BY <1>2, Zenon DEF putc_room, shown, LabelOk, ScrollOk, Live, Rendering
  <2> QED
    BY <2>3, <2>4, Zenon
<1>3. CASE putc_append
  <2>1. CASE i > Len(buf) /\ con_pc' = "stray" /\ UNCHANGED <<buf, i>>
    BY <1>3, <2>1, Zenon DEF putc_append, shown, LogTyped, LabelOk, ScrollOk, Live, Rendering
  <2>2. CASE /\ i <= Len(buf) /\ i' = 0 /\ con_pc' = "count"
             /\ \E c \in Char : buf' = Append(SubSeq(buf, 1, Len(buf) - i), c)
    <3>1. Char \subseteq Int
      BY DEF Char, LogTyped
    <3>2. buf' \in Seq(Int)
      BY <2>2, <3>1 DEF LogTyped
    <3>3. LogTyped'
      BY <1>3, <2>2, <3>2, Zenon DEF putc_append, shown, LogTyped, Rendering
    <3>4. LabelOk' /\ ScrollOk'
      BY <1>3, <2>2, Zenon DEF putc_append, shown, LabelOk, ScrollOk, Live, Rendering
    <3> QED
      BY <3>3, <3>4, Zenon
  <2> QED
    BY <1>3, <2>1, <2>2, Zenon DEF putc_append
<1>4. CASE putc_count
  <2>1. LogTyped' /\ total_chars' # rendered_total'
    BY <1>4 DEF putc_count, shown, LogTyped, Rendering
  <2>2. LabelOk'
    BY <1>4, <2>1, Zenon DEF putc_count, LabelOk, Live, Rendering
  <2>3. ScrollOk'
    BY <1>4, Zenon DEF putc_count, shown, ScrollOk, Live
  <2> QED
    BY <2>1, <2>2, <2>3, Zenon
<1>5. CASE pump_render
  <2>1. ~con_pumping /\ con_pc = "pump"
    BY <1>5, Zenon DEF pump_render, LogTyped, Rendering
  <2>2. CASE total_chars = rendered_total /\ ~anim_pending
    <3>1. con_pc' = "out" /\ UNCHANGED <<con_pumping, label, cached_target, late>>
      BY <1>5, <2>2, Zenon DEF pump_render
    <3> QED
      BY <1>5, <2>1, <2>2, <3>1, Zenon DEF pump_render, LogTyped, LabelOk, ScrollOk, Live, Rendering
  <2>3. CASE total_chars = rendered_total /\ anim_pending
    <3>1. con_pc' = "scroll" /\ con_pumping' = TRUE /\ UNCHANGED <<label, cached_target, late>>
      BY <1>5, <2>1, <2>3, Zenon DEF pump_render
    <3> QED
      BY <1>5, <2>1, <2>3, <3>1, Zenon DEF pump_render, LogTyped, LabelOk, ScrollOk, Live, Rendering
  <2>4. CASE total_chars # rendered_total
    <3>1. /\ con_pc' = "scroll" /\ con_pumping' = TRUE
          /\ label' = buf /\ cached_target' = Target(buf) /\ late' = {} /\ buf' = buf
      BY <1>5, <2>1, <2>4, Zenon DEF pump_render
    <3>2. LogTyped' /\ ScrollOk'
      BY <1>5, <3>1, Zenon DEF pump_render, LogTyped, ScrollOk, Rendering
    <3>3. Shows(buf, buf, {})
      BY ShowsAll, Zenon DEF LogTyped
    <3> QED
      BY <3>1, <3>2, <3>3, Zenon DEF LabelOk
  <2> QED
    BY <2>2, <2>3, <2>4, Zenon DEF LogTyped
<1>6. CASE pump_scroll
  <2>1. LogTyped' /\ LabelOk'
    BY <1>6, Zenon DEF pump_scroll, Scroll, LogTyped, LabelOk, Live, Rendering
  <2>2. anim_pending' \/ scroll' = cached_target
    BY <1>6, Zenon DEF pump_scroll, Scroll
  <2>3. ScrollOk'
    BY <1>6, <2>2, Zenon DEF pump_scroll, ScrollOk, Live
  <2> QED
    BY <2>1, <2>3, Zenon
<1>7. CASE pump_finish
  <2>1. LogTyped'
    <3>1. rendered_total' \in Nat /\ total_chars' \in Nat /\ rendered_total' <= total_chars'
      BY <1>7 DEF pump_finish, LogTyped
    <3>2. con_pumping' = FALSE /\ con_pc' \notin Rendering /\ anim_pending' \in BOOLEAN
      BY <1>7, Zenon DEF pump_finish, LogTyped, Rendering
    <3>3. buf' \in Seq(Int) /\ label' \in Seq(Int) /\ i' \in Nat
      BY <1>7, Zenon DEF pump_finish, LogTyped
    <3> QED
      BY <3>1, <3>2, <3>3, Zenon DEF LogTyped
  <2>2. LabelOk' /\ ScrollOk'
    BY <1>7, Zenon DEF pump_finish, LabelOk, ScrollOk, Live, Rendering
  <2> QED
    BY <2>1, <2>2, Zenon
<1>8. CASE settle_render
  <2>1. LogTyped' /\ ScrollOk'
    BY <1>8, Zenon DEF settle_render, LogTyped, ScrollOk, Rendering
  <2>2. Shows(buf, buf, {})
    BY ShowsAll, Zenon DEF LogTyped
  <2>3. LabelOk'
    BY <1>8, <2>2 DEF settle_render, LabelOk
  <2> QED
    BY <2>1, <2>3, Zenon
<1>9. CASE settle_finish
  <2>1. LogTyped'
    <3>1. rendered_total' \in Nat /\ total_chars' \in Nat /\ rendered_total' <= total_chars'
      BY <1>9 DEF settle_finish, LogTyped
    <3>2. con_pumping' = FALSE /\ con_pc' \notin Rendering /\ anim_pending' \in BOOLEAN
      BY <1>9, Zenon DEF settle_finish, LogTyped, Rendering
    <3>3. buf' \in Seq(Int) /\ label' \in Seq(Int) /\ i' \in Nat
      BY <1>9, Zenon DEF settle_finish, LogTyped
    <3> QED
      BY <3>1, <3>2, <3>3, Zenon DEF LogTyped
  <2>2. LabelOk' /\ ScrollOk'
    BY <1>9, Zenon DEF settle_finish, LabelOk, ScrollOk, Live, Rendering
  <2> QED
    BY <2>1, <2>2, Zenon
<1>10. CASE stop
  <2>1. Deleted \in Seq(Int)
    BY DEF Deleted
  <2>2. /\ UNCHANGED <<buf, total_chars, rendered_total, anim_pending, con_pumping, i>>
        /\ label' \in {label, Deleted} /\ con_pc \notin Rendering /\ con_pc' \notin Rendering
    BY <1>10, Zenon DEF stop, shown, Rendering
  <2>3. LogTyped'
    BY <2>1, <2>2, Zenon DEF LogTyped
  <2>4. ~Live'
    BY <1>10, Zenon DEF stop, Live
  <2> QED
    BY <2>3, <2>4, Zenon DEF LabelOk, ScrollOk
<1> QED
  BY <1>1, <1>2, <1>3, <1>4, <1>5, <1>6, <1>7, <1>8, <1>9, <1>10
  DEF Output, Pump, SettleLog

\* The timer interrupt, which may print and which pumps unless it came
\* during a pump.
LEMMA TickStep ==
    ASSUME LogIInv, pit_handler_irq0 PROVE LogIInv'
<1> USE DEF LogIInv
<1>0. UNCHANGED <<con_pumping, con_active, con_pc, i>> /\ IrqPump(buf', total_chars', idle')
  BY Zenon DEF pit_handler_irq0
<1>1. /\ buf' \in Seq(Int) /\ total_chars' \in Nat /\ rendered_total <= total_chars'
      /\ total_chars' = rendered_total => buf' = buf /\ late' = late /\ total_chars = rendered_total
      /\ con_pumping /\ Shows(label, buf, late) => Shows(label, buf', late')
  <2>1. CASE /\ late' = IF con_pumping \/ total_chars = rendered_total THEN late ELSE {}
             /\ UNCHANGED <<buf, total_chars, idle>>
    BY <2>1, Zenon DEF LogTyped
  <2>2. CASE /\ con_active /\ total_chars < IrqChars
             /\ LET n == Evicted(buf)
                IN  \E c \in IrqChar :
                       /\ buf' = Append(SubSeq(buf, n + 1, Len(buf)), c)
                       /\ late' = IF con_pumping THEN late \cup {c} ELSE {}
             /\ total_chars' = total_chars + 1 /\ idle' = FALSE
    <3> DEFINE n == Evicted(buf)
    <3>1. PICK c \in IrqChar : /\ buf' = Append(SubSeq(buf, n + 1, Len(buf)), c)
                               /\ late' = IF con_pumping THEN late \cup {c} ELSE {}
      BY <2>2, Zenon
    <3>2. n \in 0..Len(buf) /\ c \in Int /\ Len(buf) \in Nat
      BY EvictedFits DEF LogTyped, IrqChar
    <3> HIDE DEF n
    <3>3. buf' \in Seq(Int)
      BY <3>1, <3>2 DEF LogTyped
    <3>4. total_chars' \in Nat /\ rendered_total <= total_chars' /\ total_chars' # rendered_total
      BY <2>2 DEF LogTyped
    <3>5. ASSUME con_pumping, Shows(label, buf, late) PROVE Shows(label, buf', late')
      <4>1. Shows(label, Append(SubSeq(buf, n + 1, Len(buf)), c), late \cup {c})
        BY <3>2, <3>5, PutKeeps, Zenon DEF LogTyped
      <4> QED
        BY <3>1, <3>5, <4>1, Zenon
    <3> QED
      BY <3>3, <3>4, <3>5, Zenon
  <2> QED
    BY <2>1, <2>2, Zenon DEF pit_handler_irq0, IrqPut
<1>2. CASE ~con_active \/ buf' = <<>> \/ con_pumping \/ (total_chars' = rendered_total /\ ~anim_pending)
  <2>1. UNCHANGED <<label, cached_target, scroll, anim_pending, rendered_total>>
    BY <1>0, <1>2, Zenon DEF IrqPump, shown
  <2>2. LogTyped' /\ ScrollOk'
    BY <1>0, <1>1, <2>1, Zenon DEF LogTyped, ScrollOk, Live
  <2>3. LabelOk'
    BY <1>0, <1>1, <2>1, Zenon DEF LabelOk, Live, LogTyped
  <2> QED
    BY <2>2, <2>3, Zenon
<1>3. CASE ~(~con_active \/ buf' = <<>> \/ con_pumping \/ (total_chars' = rendered_total /\ ~anim_pending))
  <2>1. /\ IF total_chars' # rendered_total
             THEN label' = buf' /\ cached_target' = Target(buf')
             ELSE UNCHANGED <<label, cached_target>>
        /\ Scroll(cached_target', idle') /\ rendered_total' = total_chars'
    BY <1>0, <1>3, Zenon DEF IrqPump
  <2>2. ~con_pumping' /\ con_pc' \notin Rendering
    BY <1>0, <1>3, Zenon DEF LogTyped
  <2>3. (anim_pending' \/ scroll' = cached_target') /\ anim_pending' \in BOOLEAN
    BY <2>1, Zenon DEF Scroll
  <2>4. LogTyped'
    BY <1>0, <1>1, <2>1, <2>2, <2>3 DEF LogTyped
  <2>5. LabelOk'
    <3>1. CASE total_chars' # rendered_total
      <4>1. Shows(buf', buf', late')
        BY <1>1, ShowsAll, Zenon
      <4> QED
        BY <2>1, <3>1, <4>1, Zenon DEF LabelOk
    <3>2. CASE total_chars' = rendered_total
      BY <1>0, <1>1, <2>1, <2>2, <3>2, Zenon DEF LabelOk, Live
    <3> QED
      BY <3>1, <3>2, Zenon
  <2>6. ScrollOk'
    <3>1. Live' => cached_target' = Target(label')
      BY <1>0, <2>1, Zenon DEF ScrollOk, Live
    <3>2. con_pc' # "settle"
      BY <2>2, Zenon DEF Rendering
    <3> QED
      BY <2>3, <3>1, <3>2, Zenon DEF ScrollOk
  <2> QED
    BY <2>4, <2>5, <2>6, Zenon
<1> QED
  BY <1>2, <1>3, Zenon

\* With nothing left to render the console shows the history to its end, except
\* for what was printed in the middle of a pump: NothingHidden.
THEOREM LogShown == LogSpec => []NothingHidden
<1>1. LogInit => LogIInv
  BY LogInitOk, Zenon
<1>2. LogIInv /\ [LogNext]_logVars => LogIInv'
  <2> SUFFICES ASSUME LogIInv, [LogNext]_logVars PROVE LogIInv'
    BY Zenon
  <2>1. CASE UNCHANGED logVars
    BY <2>1, Zenon DEF logVars, shown, LogIInv, LogTyped, LabelOk, ScrollOk, Live
  <2> QED
    BY <2>1, ThreadStep, TickStep, Zenon DEF LogNext
<1>3. LogIInv => NothingHidden
  <2> SUFFICES ASSUME LogIInv, con_active /\ con_pc = "out" /\ total_chars = rendered_total /\ ~anim_pending
               PROVE  (\E n \in 0..Len(label) : ShownFrom(n)) /\ scroll = Target(label)
    BY Zenon DEF NothingHidden
  <2>1. Shows(label, buf, late) /\ scroll = Target(label)
    BY Zenon DEF LogIInv, LabelOk, ScrollOk, Live
  <2> QED
    BY <2>1, Zenon DEF Shows, ShownOf, ShownFrom
<1> QED
  BY <1>1, <1>2, <1>3, PTL DEF LogSpec

=============================================================================
