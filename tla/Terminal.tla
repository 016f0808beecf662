------------------------------ MODULE Terminal ------------------------------
(***************************************************************************)
(* What the early console promises: a terminal that shows the last lines   *)
(* written to it, where each byte takes effect at once.                    *)
(***************************************************************************)
EXTENDS Integers, Sequences

CONSTANTS
  WIDTH, HEIGHT,   \* of the screen
  Bytes,           \* the bytes that are written
  NL, CR,          \* the two that are not shown
  Blank,           \* the byte of an empty cell
  Cells,           \* the cells the screen may show at first
  Colors, First    \* the colors, and the one at boot

VARIABLES
  byte,    \* the byte written last
  lines,   \* the lines shown, the oldest first
  cursor,  \* the cells of the last line that are behind the cursor
  color,
  ended    \* nothing will be written any more

vars == <<byte, lines, cursor, color, ended>>

Cell(b, c) == [character |-> b, color |-> c]

EmptyLine == [i \in 1 .. WIDTH |-> Cell(Blank, color)]

(* The lines after a new line.                                             *)
Scrolled == Append(Tail(lines), EmptyLine)

(* The lines with a byte at a position of the last of them.                *)
With(ls, position, b) == [ls EXCEPT ![HEIGHT][position + 1] = Cell(b, color)]

Init ==
  /\ byte = Blank
  /\ lines \in [1 .. HEIGHT -> [1 .. WIDTH -> Cells]]
  /\ cursor = 0
  /\ color = First
  /\ ended = FALSE

NewLine == lines' = Scrolled /\ cursor' = 0

Return == cursor' = 0 /\ UNCHANGED lines

Show(b) ==
  \/ cursor < WIDTH /\ lines' = With(lines, cursor, b) /\ cursor' = cursor + 1
  \/ cursor = WIDTH /\ lines' = With(Scrolled, 0, b) /\ cursor' = 1

Write(b) ==
  /\ ~ ended
  /\ byte' = b
  /\ \/ b = NL /\ NewLine
     \/ b = CR /\ Return
     \/ b \notin {NL, CR} /\ Show(b)
  /\ UNCHANGED <<color, ended>>

SetColor == ~ ended /\ color' \in Colors /\ UNCHANGED <<byte, lines, cursor, ended>>

End == ended' = TRUE /\ UNCHANGED <<byte, lines, cursor, color>>

Next == (\E b \in Bytes : Write(b)) \/ SetColor \/ End

Spec == Init /\ [][Next]_vars
=============================================================================
