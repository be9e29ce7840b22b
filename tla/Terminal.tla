------------------------------ MODULE Terminal ------------------------------
(***************************************************************************)
(* What a text console promises: a grid of cells and a cursor.  A          *)
(* character goes to the cursor; past the last column the cursor goes to   *)
(* the next row, and past the last row everything moves up by one.         *)
(***************************************************************************)
EXTENDS Integers

CONSTANTS Rows, Cols, Chars, Blank

VARIABLES grid, x, y

Empty == [c \in 0..(Cols - 1) |-> Blank]

Init == grid = [r \in 0..(Rows - 1) |-> Empty] /\ x = 0 /\ y = 0

\* The cursor goes to column cx of row cy, which may be one past the last.
Advance(g, cx, cy) ==
    /\ x' = cx
    /\ y' = IF cy = Rows THEN Rows - 1 ELSE cy
    /\ grid' = IF cy = Rows
                 THEN [r \in 0..(Rows - 1) |-> IF r = Rows - 1 THEN Empty ELSE g[r + 1]]
                 ELSE g

Put(ch) ==
    LET g == [grid EXCEPT ![y][x] = ch]
    IN  IF x + 1 = Cols THEN Advance(g, 0, y + 1) ELSE Advance(g, x + 1, y)

NewLine == Advance(grid, 0, y + 1)
Return  == Advance(grid, 0, y)
Clear   == grid' = [r \in 0..(Rows - 1) |-> Empty] /\ x' = 0 /\ y' = 0

Next == (\E ch \in Chars : Put(ch)) \/ NewLine \/ Return \/ Clear

Spec == Init /\ [][Next]_<<grid, x, y>>
=============================================================================
