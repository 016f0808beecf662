-------------------------- MODULE EarlyLoggerProofs -------------------------
(***************************************************************************)
(* TLAPS proofs about EarlyLogger, for a screen of any size, any texts and *)
(* whatever the firmware left on the screen.                               *)
(***************************************************************************)
EXTENDS EarlyLogger, SequenceTheorems, TLAPS

(* The cells that are ever on the screen.                                  *)
Cell == Backgrounds \cup [character : 0 .. 255, color : {BOOT_COLOR, Red}]

(***************************************************************************)
(* The inductive invariant.  A line may be full between two writes, but    *)
(* not at the store, and a write in progress is never that of a carriage   *)
(* return.                                                                 *)
(***************************************************************************)
Inv ==
  /\ buffer \in [Rows -> [Cols -> Cell]]
  /\ col \in 0 .. VGA_WIDTH
  /\ color \in {BOOT_COLOR, Red}
  /\ byte \in 0 .. 255
  /\ at \in 0 .. VGA_WIDTH * VGA_HEIGHT
  /\ pc \in {"idle", "new_line", "store"}
  /\ panic \in {"no", "message", "halted"}
  /\ pc = "store" => Printable(byte) /\ col < VGA_WIDTH
  /\ pc = "new_line" => byte # CR
  /\ panic = "halted" => pc = "idle"

-----------------------------------------------------------------------------
(* The byte a character is cut down to.                                    *)
LEMMA ByteType == ASSUME NEW ch \in Nat PROVE Byte(ch) \in 0 .. 255
  BY DEF Byte

(* A cell of the buffer has a number, and the number a row and a column.   *)
LEMMA CellNumber ==
  ASSUME NEW w \in Nat \ {0}, NEW h \in Nat \ {0}, NEW r \in 0 .. h - 1, NEW c \in 0 .. w - 1
  PROVE  r * w \in Nat /\ r * w + c \in Nat /\ r * w + c < w * h
  <1>1. r * w \in Nat /\ h * w \in Nat /\ w * h = h * w
    OBVIOUS
  <1>2. (r + 1) * w = r * w + w
    OBVIOUS
  <1>3. (r + 1) * w <= h * w
    <2>1. h - (r + 1) \in Nat
      OBVIOUS
    <2>2. (h - (r + 1)) * w \in Nat
      BY <2>1
    <2>3. h * w = (h - (r + 1)) * w + (r + 1) * w
      OBVIOUS
    <2> QED
      BY <1>1, <1>2, <2>2, <2>3
  <1> QED
    BY <1>1, <1>2, <1>3

(* Two cells with the same number are the same.                            *)
LEMMA CellUnique ==
  ASSUME NEW w \in Nat \ {0}, NEW r \in Nat, NEW c \in 0 .. w - 1,
         NEW q \in Nat, NEW d \in 0 .. w - 1, r * w + c = q * w + d
  PROVE  r = q /\ c = d
  <1>1. r * w \in Nat /\ q * w \in Nat
    OBVIOUS
  <1>2. ~ (r < q)
    <2> SUFFICES ASSUME r < q PROVE FALSE
      OBVIOUS
    <2>1. q - r - 1 \in Nat /\ (q - r - 1) * w \in Nat
      OBVIOUS
    <2>2. q * w = (q - r - 1) * w + r * w + w
      OBVIOUS
    <2> QED
      BY <1>1, <2>1, <2>2
  <1>3. ~ (q < r)
    <2> SUFFICES ASSUME q < r PROVE FALSE
      OBVIOUS
    <2>1. r - q - 1 \in Nat /\ (r - q - 1) * w \in Nat
      OBVIOUS
    <2>2. r * w = (r - q - 1) * w + q * w + w
      OBVIOUS
    <2> QED
      BY <1>1, <2>1, <2>2
  <1> QED
    BY <1>1, <1>2, <1>3

(* The cell new_line is at.                                                *)
LEMMA CellOf ==
  ASSUME NEW w \in Nat \ {0}, NEW h \in Nat \ {0}, NEW n \in Nat, n < w * h
  PROVE  n \div w \in 0 .. h - 1 /\ n % w \in 0 .. w - 1 /\ n = (n \div w) * w + (n % w)
  <1>1. PICK q, m : q = n \div w /\ m = n % w
    OBVIOUS
  <1>2. q \in Nat /\ m \in 0 .. w - 1 /\ n = w * q + m
    BY <1>1
  <1>3. w * q = q * w /\ q * w \in Nat /\ w * h = h * w /\ h * w \in Nat
    BY <1>2
  <1>4. q < h
    <2> SUFFICES ASSUME ~ (q < h) PROVE FALSE
      OBVIOUS
    <2>1. q - h \in Nat /\ (q - h) * w \in Nat
      BY <1>2
    <2>2. q * w = (q - h) * w + h * w
      BY <1>2
    <2> QED
      BY <1>2, <1>3, <2>1, <2>2
  <1> QED
    BY <1>1, <1>2, <1>3, <1>4

-----------------------------------------------------------------------------
(* The sizes of the screen.                                                *)
LEMMA Sizes ==
  /\ VGA_WIDTH \in Nat \ {0} /\ VGA_HEIGHT \in Nat \ {0}
  /\ VGA_WIDTH * VGA_HEIGHT \in Nat
  /\ Bottom \in Rows /\ 0 \in Cols
  BY EarlyLoggerAssumption DEF Bottom, Rows, Cols

(* The cell new_line writes is one of the buffer.                          *)
LEMMA CellPlace ==
  ASSUME Inv, at < VGA_WIDTH * VGA_HEIGHT
  PROVE  /\ Row \in Rows /\ Col \in Cols /\ at = Row * VGA_WIDTH + Col
         /\ Row * VGA_WIDTH \in Nat
  <1>1. at \in Nat
    BY Sizes DEF Inv
  <1>2. /\ Row \in 0 .. VGA_HEIGHT - 1 /\ Col \in 0 .. VGA_WIDTH - 1
        /\ at = Row * VGA_WIDTH + Col
    BY <1>1, Sizes, CellOf DEF Row, Col
  <1>3. Row * VGA_WIDTH \in Nat
    BY <1>2, Sizes, CellNumber
  <1> QED
    BY <1>2, <1>3 DEF Rows, Cols

(* The state at boot.                                                      *)
LEMMA InvInit == Init => Inv
  <1> SUFFICES ASSUME Init PROVE Inv
    OBVIOUS
  <1>1. buffer \in [Rows -> [Cols -> Cell]]
    BY DEF Init, Cell
  <1> QED
    BY <1>1, Sizes DEF Init, Inv, Blank, BOOT_COLOR

(* A cell written with the byte and the color in use.                      *)
LEMMA CharacterCell ==
  ASSUME NEW b \in 0 .. 255, NEW c \in {BOOT_COLOR, Red}
  PROVE  Character(b, c) \in Cell
  BY DEF Character, Cell

(* Every step keeps the invariant.                                         *)
LEMMA InvNext == Inv /\ [Next]_vars => Inv'
  <1> SUFFICES ASSUME Inv, [Next]_vars PROVE Inv'
    OBVIOUS
  <1> USE Sizes
  <1>1. ASSUME NEW ch \in Chars, Write(ch) PROVE Inv'
    <2>1. Byte(ch) \in 0 .. 255
      BY EarlyLoggerAssumption, ByteType
    <2>2. byte' \in 0 .. 255 /\ byte' = Byte(ch) /\ at' = 0
      BY <1>1, <2>1 DEF Write
    <2>3. CASE byte' = CR
      BY <1>1, <2>2, <2>3 DEF Write, Inv
    <2>4. CASE byte' # CR /\ (byte' = NL \/ Full)
      BY <1>1, <2>2, <2>4 DEF Write, Inv
    <2>5. CASE byte' # CR /\ ~ (byte' = NL \/ Full)
      BY <1>1, <2>2, <2>5 DEF Write, Inv, Full, Printable
    <2> QED
      BY <2>3, <2>4, <2>5
  <1>2. CASE Store
    <2>1. buffer' \in [Rows -> [Cols -> Cell]]
      BY <1>2, CharacterCell DEF Store, Inv
    <2> QED
      BY <1>2, <2>1 DEF Store, Inv
  <1>3. CASE NewLineCell
    <2>1. Row \in Rows /\ Col \in Cols
      BY <1>3, CellPlace DEF NewLineCell
    <2>2. Moved \in Cell
      <3>1. Character(Blank, color) \in Cell
        BY CharacterCell DEF Blank, Inv
      <3>2. Row < Bottom => Row + 1 \in Rows
        BY <2>1 DEF Rows, Bottom
      <3> QED
        BY <2>1, <3>1, <3>2 DEF Moved, Inv
    <2>3. buffer' \in [Rows -> [Cols -> Cell]]
      BY <1>3, <2>1, <2>2 DEF NewLineCell, Inv
    <2> QED
      BY <1>3, <2>3 DEF NewLineCell, Inv
  <1>4. CASE NewLineDone
    BY <1>4 DEF NewLineDone, Inv, Printable
  <1>5. CASE Panic
    BY <1>5 DEF Panic, SetColor, Inv, Red, Black
  <1>6. CASE Halt
    BY <1>6 DEF Halt, Inv
  <1>7. CASE UNCHANGED vars
    BY <1>7 DEF vars, Inv
  <1> QED
    BY <1>1, <1>2, <1>3, <1>4, <1>5, <1>6, <1>7 DEF Next

(* The invariant holds in every state.                                     *)
LEMMA Invariant == Spec => []Inv
  BY InvInit, InvNext, PTL DEF Spec

(***************************************************************************)
(* No character is stored outside the buffer (early_logger.rs:57-61).      *)
(***************************************************************************)
THEOREM StoreInBoundsThm == Spec => []StoreInBounds
  <1>1. Inv => StoreInBounds
    BY Sizes DEF Inv, StoreInBounds, Cols
  <1> QED
    BY <1>1, Invariant, PTL

-----------------------------------------------------------------------------
(***************************************************************************)
(* The terminal.  Lines and Cursor are the refinement mapping of T.        *)
(***************************************************************************)
LineNumbers == 1 .. VGA_HEIGHT
Positions == 1 .. VGA_WIDTH

Lines == [r \in LineNumbers |-> [c \in Positions |-> Settled(r - 1, c - 1)]]

Cursor == IF Pending THEN NextCol + 1 ELSE NextCol

(* What Append(Tail(L), E) is, line by line.                               *)
LEMMA ScrollLines ==
  ASSUME NEW h \in Nat \ {0}, NEW S, NEW L \in [1 .. h -> S], NEW E \in S
  PROVE  Append(Tail(L), E) = [r \in 1 .. h |-> IF r < h THEN L[r + 1] ELSE E]
  <1>1. L \in Seq(S) /\ Len(L) = h /\ L # << >>
    OBVIOUS
  <1>2. /\ Tail(L) \in Seq(S) /\ Len(Tail(L)) = h - 1
        /\ \A i \in 1 .. h - 1 : Tail(L)[i] = L[i + 1]
    BY <1>1, HeadTailProperties
  <1>3. /\ Append(Tail(L), E) \in Seq(S) /\ Len(Append(Tail(L), E)) = h
        /\ \A i \in 1 .. h - 1 : Append(Tail(L), E)[i] = Tail(L)[i]
        /\ Append(Tail(L), E)[h] = E
    BY <1>2, AppendProperties
  <1>4. \A r \in 1 .. h : Append(Tail(L), E)[r] = IF r < h THEN L[r + 1] ELSE E
    BY <1>2, <1>3
  <1>5. PICK s : s = Append(Tail(L), E)
    OBVIOUS
  <1>6. s \in [1 .. h -> S]
    <2>1. s \in Seq(S) /\ Len(s) = h
      BY <1>3, <1>5
    <2> QED
      BY <2>1, LenProperties
  <1>7. \A r \in 1 .. h : s[r] = IF r < h THEN L[r + 1] ELSE E
    BY <1>4, <1>5
  <1> QED
    BY <1>5, <1>6, <1>7

(* The screen has the shape of the terminal's.                             *)
LEMMA SettledCell ==
  ASSUME Inv, NEW r \in Rows, NEW c \in Cols
  PROVE  Settled(r, c) \in Cell
  <1>1. Character(byte, color) \in Cell /\ Character(Blank, color) \in Cell
    BY CharacterCell DEF Blank, Inv
  <1>2. r < Bottom => r + 1 \in Rows
    BY Sizes DEF Rows, Bottom
  <1> QED
    BY <1>1, <1>2 DEF Settled, Inv

(* The lines are those of a screen of VGA_HEIGHT by VGA_WIDTH.             *)
LEMMA LinesType ==
  ASSUME Inv
  PROVE  Lines \in [LineNumbers -> [Positions -> Cell]]
  <1>1. \A r \in LineNumbers, c \in Positions : r - 1 \in Rows /\ c - 1 \in Cols
    BY Sizes DEF LineNumbers, Positions, Rows, Cols
  <1> QED
    BY <1>1, SettledCell DEF Lines

(* The terminal's Scrolled, cell by cell.                                  *)
LEMMA ScrolledIs ==
  ASSUME Inv
  PROVE  Append(Tail(Lines), [i \in Positions |-> Character(Blank, color)])
           = [r \in LineNumbers |-> [c \in Positions |->
                IF r < VGA_HEIGHT THEN Settled(r, c - 1) ELSE Character(Blank, color)]]
  <1>1. PICK L, E : L = Lines /\ E = [i \in Positions |-> Character(Blank, color)]
    OBVIOUS
  <1>2. Character(Blank, color) \in Cell
    BY CharacterCell DEF Blank, Inv
  <1>3. L \in [1 .. VGA_HEIGHT -> [Positions -> Cell]] /\ E \in [Positions -> Cell]
    BY <1>1, <1>2, LinesType DEF LineNumbers
  <1>4. Append(Tail(L), E) = [r \in LineNumbers |-> IF r < VGA_HEIGHT THEN L[r + 1] ELSE E]
    <2>1. Append(Tail(L), E) = [r \in 1 .. VGA_HEIGHT |-> IF r < VGA_HEIGHT THEN L[r + 1] ELSE E]
      <3>1. PICK h, S : h = VGA_HEIGHT /\ S = [Positions -> Cell]
        OBVIOUS
      <3>2. h \in Nat \ {0} /\ L \in [1 .. h -> S] /\ E \in S
        BY <1>3, <3>1, Sizes
      <3>3. Append(Tail(L), E) = [r \in 1 .. h |-> IF r < h THEN L[r + 1] ELSE E]
        BY <3>2, ScrollLines
      <3> QED
        BY <3>1, <3>3
    <2> QED
      BY <2>1 DEF LineNumbers
  <1>5. \A r \in LineNumbers : r < VGA_HEIGHT =>
          L[r + 1] = [c \in Positions |-> Settled(r, c - 1)]
    <2> SUFFICES ASSUME NEW r \in LineNumbers, r < VGA_HEIGHT
                 PROVE  L[r + 1] = [c \in Positions |-> Settled(r, c - 1)]
      OBVIOUS
    <2>1. r + 1 \in LineNumbers /\ (r + 1) - 1 = r
      BY Sizes DEF LineNumbers
    <2> QED
      BY <1>1, <2>1 DEF Lines
  <1>6. ASSUME NEW r \in LineNumbers
        PROVE  (IF r < VGA_HEIGHT THEN L[r + 1] ELSE E) = [c \in Positions |->
                 IF r < VGA_HEIGHT THEN Settled(r, c - 1) ELSE Character(Blank, color)]
    <2>1. CASE r < VGA_HEIGHT
      BY <1>5, <2>1
    <2>2. CASE ~ (r < VGA_HEIGHT)
      BY <1>1, <2>2
    <2> QED
      BY <2>1, <2>2
  <1> QED
    BY <1>1, <1>4, <1>6

(* Equal cells make equal screens.                                         *)
LEMMA SameLines ==
  ASSUME Inv, Inv', \A r \in Rows, c \in Cols : Settled(r, c)' = Settled(r, c)
  PROVE  Lines' = Lines
  <1>1. \A r \in LineNumbers, c \in Positions : r - 1 \in Rows /\ c - 1 \in Cols
    BY Sizes DEF LineNumbers, Positions, Rows, Cols
  <1> QED
    BY <1>1 DEF Lines

(* The cell a character is written to.                                     *)
LEMMA WithIs ==
  ASSUME NEW L \in [LineNumbers -> [Positions -> Cell]], NEW p \in Cols, NEW x
  PROVE  [L EXCEPT ![VGA_HEIGHT][p + 1] = x]
           = [r \in LineNumbers |-> [c \in Positions |->
                IF r = VGA_HEIGHT /\ c = p + 1 THEN x ELSE L[r][c]]]
  <1>1. VGA_HEIGHT \in LineNumbers /\ p + 1 \in Positions
    BY Sizes DEF LineNumbers, Positions, Cols
  <1> QED
    BY <1>1

(* A step that leaves the screen and the cursor alone.                     *)
LEMMA Stutter ==
  ASSUME UNCHANGED <<byte, color, panic>>, Lines' = Lines, Cursor' = Cursor
  PROVE  UNCHANGED T!vars
  BY DEF T!vars, Lines, Cursor, LineNumbers, Positions

(* Between writes the screen is the buffer.                                *)
LEMMA IdleLines ==
  ASSUME pc = "idle"
  PROVE  /\ \A r \in Rows, c \in Cols : Settled(r, c) = buffer[r][c]
         /\ Cursor = col /\ ~ Pending /\ ~ Scrolling
  BY DEF Settled, Cursor, Pending, Scrolling, NextCol

(* The store: the character was on the terminal already.                   *)
LEMMA StoreStutters ==
  ASSUME Inv, Inv', Store
  PROVE  UNCHANGED T!vars
  <1>1. /\ pc = "store" /\ pc' = "idle" /\ col \in Cols /\ Bottom \in Rows
        /\ Pending /\ ~ Scrolling /\ NextCol = col /\ Cursor = col + 1
        /\ UNCHANGED <<color, byte, panic>>
    BY Sizes DEF Store, Inv, Cols, Pending, Scrolling, NextCol, Cursor
  <1>2. Cursor' = Cursor
    BY <1>1 DEF Store, Cursor, Pending, Scrolling, NextCol
  <1>3. ASSUME NEW r \in Rows, NEW c \in Cols
        PROVE  Settled(r, c)' = Settled(r, c)
    <2>1. Settled(r, c)' = buffer'[r][c]
      BY <1>1 DEF Settled, Pending, Scrolling
    <2>2. buffer'[r][c] = IF r = Bottom /\ c = col THEN Character(byte, color) ELSE buffer[r][c]
      BY <1>1 DEF Store, Inv
    <2>3. Settled(r, c) = IF r = Bottom /\ c = col THEN Character(byte, color) ELSE buffer[r][c]
      BY <1>1 DEF Settled
    <2> QED
      BY <2>1, <2>2, <2>3
  <1> QED
    BY <1>1, <1>2, <1>3, SameLines, Stutter

(* new_line moves one cell: the terminal has scrolled already, and the     *)
(* cell that is read has not been overwritten yet.                         *)
LEMMA NewLineCellStutters ==
  ASSUME Inv, Inv', NewLineCell
  PROVE  UNCHANGED T!vars
  <1>1. /\ pc = "new_line" /\ Scrolling /\ Scrolling' /\ (Pending' <=> Pending)
        /\ NextCol = 0 /\ NextCol' = 0 /\ Cursor' = Cursor
        /\ UNCHANGED <<color, byte, panic>>
    BY DEF NewLineCell, Scrolling, Pending, NextCol, Cursor
  <1>2. PICK q, d, n, w : q = Row /\ d = Col /\ n = at /\ w = VGA_WIDTH
    OBVIOUS
  <1>3. /\ q \in Rows /\ d \in Cols /\ n = q * w + d /\ q * w \in Nat
        /\ w \in Nat \ {0} /\ q \in Nat /\ d \in 0 .. w - 1 /\ n \in Nat
    BY <1>2, Sizes, CellPlace DEF NewLineCell, Rows, Cols
  <1>4. /\ at' = n + 1
        /\ buffer' = [buffer EXCEPT ![q][d] = Moved]
    BY <1>2 DEF NewLineCell
  <1>5. ASSUME NEW r \in Rows, NEW c \in Cols
        PROVE  /\ r * w + c \in Nat
               /\ r * w + c = n => r = q /\ c = d
               /\ r + 1 = q => r * w + c < n
               /\ buffer'[r][c] = IF r = q /\ c = d THEN Moved ELSE buffer[r][c]
    <2>1. r \in Nat /\ c \in 0 .. w - 1
      BY <1>2, Sizes DEF Rows, Cols
    <2>2. r * w \in Nat /\ r * w + c \in Nat
      BY <1>3, <2>1
    <2>3. r * w + c = n => r = q /\ c = d
      BY <1>3, <2>1, CellUnique
    <2>4. r + 1 = q => r * w + c < n
      <3>1. (r + 1) * w = r * w + w
        BY <1>3, <2>1
      <3> QED
        BY <1>3, <2>1, <2>2, <3>1
    <2>5. buffer'[r][c] = IF r = q /\ c = d THEN Moved ELSE buffer[r][c]
      BY <1>3, <1>4 DEF Inv
    <2> QED
      BY <2>2, <2>3, <2>4, <2>5
  <1>6. ASSUME NEW r \in Rows, NEW c \in Cols
        PROVE  Settled(r, c)' = Settled(r, c)
    <2>1. CASE Pending /\ r = Bottom /\ c = 0
      BY <1>1, <2>1 DEF Settled
    <2> DEFINE pend == Pending /\ r = Bottom /\ c = 0
    <2>2. ASSUME ~ pend
          PROVE  /\ Settled(r, c) = IF r * w + c < n THEN buffer[r][c]
                                    ELSE IF r < Bottom THEN buffer[r + 1][c] ELSE Character(Blank, color)
                 /\ Settled(r, c)' = IF r * w + c < n + 1 THEN buffer'[r][c]
                                     ELSE IF r < Bottom THEN buffer'[r + 1][c] ELSE Character(Blank, color)
      BY <1>1, <1>2, <1>4, <2>2 DEF Settled
    <2>3. r < Bottom => r + 1 \in Rows
      BY Sizes DEF Rows, Bottom
    <2>4. CASE ~ pend /\ r * w + c < n
      <3>1. ~ (r = q /\ c = d) /\ r * w + c < n + 1
        BY <1>3, <1>5, <2>4
      <3> QED
        BY <1>5, <2>2, <2>4, <3>1
    <2>5. CASE ~ pend /\ r * w + c = n
      <3>1. r = q /\ c = d /\ r * w + c < n + 1 /\ ~ (r * w + c < n)
        BY <1>3, <1>5, <2>5
      <3>2. Settled(r, c)' = Moved
        BY <1>5, <2>2, <2>5, <3>1
      <3> QED
        BY <1>2, <2>2, <2>5, <3>1, <3>2 DEF Moved
    <2>6. CASE ~ pend /\ n < r * w + c
      <3>1. ~ (r * w + c < n + 1) /\ ~ (r * w + c < n) /\ ~ (r + 1 = q)
        BY <1>3, <1>5, <2>6
      <3>2. r < Bottom => buffer'[r + 1][c] = buffer[r + 1][c]
        BY <1>5, <2>3, <3>1
      <3> QED
        BY <2>2, <2>6, <3>1, <3>2
    <2>7. r * w + c \in Nat /\ n \in Nat
      BY <1>3, <1>5
    <2>8. r * w + c < n \/ r * w + c = n \/ n < r * w + c
      BY <2>7
    <2> QED
      BY <2>1, <2>4, <2>5, <2>6, <2>8
  <1> QED
    BY <1>1, <1>6, SameLines, Stutter

(* new_line is through: all cells are where the terminal has them.         *)
LEMMA NewLineDoneStutters ==
  ASSUME Inv, Inv', NewLineDone
  PROVE  UNCHANGED T!vars
  <1>1. /\ pc = "new_line" /\ Scrolling /\ ~ Scrolling' /\ (Pending' <=> Pending)
        /\ NextCol = 0 /\ NextCol' = 0 /\ Cursor' = Cursor
        /\ UNCHANGED <<buffer, color, byte, panic>>
    BY DEF NewLineDone, Scrolling, Pending, NextCol, Cursor
  <1>2. ASSUME NEW r \in Rows, NEW c \in Cols
        PROVE  Settled(r, c)' = Settled(r, c)
    <2>1. r * VGA_WIDTH + c < at
      BY Sizes, CellNumber DEF NewLineDone, Rows, Cols
    <2> QED
      BY <1>1, <2>1 DEF Settled
  <1> QED
    BY <1>1, <1>2, SameLines, Stutter

(* A write is the terminal's.                                              *)
LEMMA WriteWrites ==
  ASSUME Inv, Inv', NEW ch \in Chars, Write(ch)
  PROVE  T!Write(Byte(ch))
  <1>1. PICK b, L, k : b = Byte(ch) /\ L = Lines /\ k = col
    OBVIOUS
  <1>2. /\ pc = "idle" /\ panic # "halted" /\ byte' = b /\ at' = 0
        /\ UNCHANGED <<buffer, color, panic>>
    BY <1>1 DEF Write
  <1>3. /\ \A r \in Rows, c \in Cols : Settled(r, c) = buffer[r][c]
        /\ Cursor = k /\ k \in 0 .. VGA_WIDTH
    BY <1>1, <1>2, IdleLines DEF Inv
  <1>4. \A r \in LineNumbers, c \in Positions : r - 1 \in Rows /\ c - 1 \in Cols
    BY Sizes DEF LineNumbers, Positions, Rows, Cols
  <1>5. /\ L \in [LineNumbers -> [Positions -> Cell]]
        /\ L = [r \in LineNumbers |-> [c \in Positions |-> buffer[r - 1][c - 1]]]
    BY <1>1, <1>3, <1>4, LinesType DEF Lines
  <1> DEFINE empty == [i \in Positions |-> Character(Blank, color)]
             scrolled == [r \in LineNumbers |-> [c \in Positions |->
                            IF r < VGA_HEIGHT THEN buffer[r][c - 1] ELSE Character(Blank, color)]]
  <1>6. Append(Tail(L), empty) = scrolled
    <2>1. \A r \in LineNumbers, c \in Positions : r < VGA_HEIGHT => r \in Rows /\ c - 1 \in Cols
      BY Sizes DEF LineNumbers, Positions, Rows, Cols
    <2>2. \A r \in LineNumbers, c \in Positions : r < VGA_HEIGHT => Settled(r, c - 1) = buffer[r][c - 1]
      BY <1>3, <2>1
    <2> QED
      BY <1>1, <2>2, ScrolledIs
  <1>7. CASE b = CR
    <2>1. pc' = "idle" /\ col' = 0
      BY <1>2, <1>7 DEF Write
    <2>2. /\ \A r \in Rows, c \in Cols : Settled(r, c)' = buffer'[r][c]
          /\ Cursor' = 0
      BY <2>1 DEF Settled, Cursor, Pending, Scrolling, NextCol
    <2>3. Lines' = Lines
      BY <1>2, <1>3, <2>2, SameLines
    <2> QED
      BY <1>1, <1>2, <1>7, <2>2, <2>3
      DEF T!Write, T!Return, Lines, Cursor, LineNumbers, Positions
  <1>8. CASE b = NL
    <2>1. pc' = "new_line" /\ Scrolling' /\ ~ Pending'
      BY <1>2, <1>8 DEF Write, NL, CR, Scrolling, Pending, Printable
    <2>2. Cursor' = 0
      BY <2>1 DEF Cursor, NextCol
    <2>3. ASSUME NEW r \in Rows, NEW c \in Cols
          PROVE  Settled(r, c)' = IF r < Bottom THEN buffer[r + 1][c] ELSE Character(Blank, color)
      <3>1. r * VGA_WIDTH + c \in Nat
        BY Sizes, CellNumber DEF Rows, Cols
      <3> QED
        BY <1>2, <2>1, <3>1 DEF Settled
    <2>4. Lines' = scrolled
      <3>1. \A r \in LineNumbers : r - 1 \in Rows /\ (r - 1 < Bottom <=> r < VGA_HEIGHT) /\ r - 1 + 1 = r
        BY Sizes DEF LineNumbers, Rows, Bottom
      <3> QED
        BY <1>4, <2>3, <3>1 DEF Lines
    <2>5. Lines' = Append(Tail(Lines), empty)
      BY <1>1, <1>6, <2>4
    <2> QED
      BY <1>1, <1>2, <1>8, <2>2, <2>5
      DEF T!Write, T!NewLine, T!Scrolled, T!EmptyLine, T!Cell, Character, Lines, Cursor, LineNumbers, Positions
  <1>9. CASE Printable(b) /\ Full
    <2>1. pc' = "new_line" /\ Scrolling' /\ Pending' /\ NextCol' = 0 /\ Cursor' = 1 /\ k = VGA_WIDTH
      BY <1>1, <1>2, <1>3, <1>9, Sizes DEF Write, Printable, Full, Scrolling, Pending, NextCol, Cursor
    <2>2. ASSUME NEW r \in Rows, NEW c \in Cols
          PROVE  Settled(r, c)' = IF r = Bottom /\ c = 0 THEN Character(b, color)
                                  ELSE IF r < Bottom THEN buffer[r + 1][c] ELSE Character(Blank, color)
      <3>1. r * VGA_WIDTH + c \in Nat
        BY Sizes, CellNumber DEF Rows, Cols
      <3> QED
        BY <1>2, <2>1, <3>1 DEF Settled
    <2>3. scrolled \in [LineNumbers -> [Positions -> Cell]]
      <3>1. \A r \in LineNumbers, c \in Positions : r < VGA_HEIGHT => r \in Rows /\ c - 1 \in Cols
        BY Sizes DEF LineNumbers, Positions, Rows, Cols
      <3>2. Character(Blank, color) \in Cell
        BY CharacterCell DEF Blank, Inv
      <3> QED
        BY <3>1, <3>2 DEF Inv
    <2>4. [scrolled EXCEPT ![VGA_HEIGHT][0 + 1] = Character(b, color)]
            = [r \in LineNumbers |-> [c \in Positions |->
                 IF r = VGA_HEIGHT /\ c = 0 + 1 THEN Character(b, color) ELSE scrolled[r][c]]]
      <3>1. PICK M, x : M = scrolled /\ x = Character(b, color)
        OBVIOUS
      <3>2. M \in [LineNumbers -> [Positions -> Cell]]
        BY <2>3, <3>1
      <3>3. VGA_HEIGHT \in LineNumbers /\ 0 + 1 \in Positions
        BY Sizes DEF LineNumbers, Positions
      <3>4. [M EXCEPT ![VGA_HEIGHT][0 + 1] = x]
              = [r \in LineNumbers |-> [c \in Positions |->
                   IF r = VGA_HEIGHT /\ c = 0 + 1 THEN x ELSE M[r][c]]]
        BY <3>2, <3>3
      <3> QED
        BY <3>1, <3>4
    <2>5. ASSUME NEW r \in LineNumbers, NEW c \in Positions
          PROVE  Settled(r - 1, c - 1)' = IF r = VGA_HEIGHT /\ c = 0 + 1 THEN Character(b, color)
                                          ELSE scrolled[r][c]
      <3>1. /\ r - 1 \in Rows /\ c - 1 \in Cols /\ (r - 1 < Bottom <=> r < VGA_HEIGHT)
            /\ r - 1 + 1 = r /\ (r - 1 = Bottom <=> r = VGA_HEIGHT) /\ (c - 1 = 0 <=> c = 0 + 1)
        BY Sizes DEF LineNumbers, Positions, Rows, Cols, Bottom
      <3> QED
        BY <2>2, <3>1
    <2>6. Lines' = [scrolled EXCEPT ![VGA_HEIGHT][0 + 1] = Character(b, color)]
      BY <2>4, <2>5 DEF Lines
    <2>7. Lines' = [Append(Tail(Lines), empty) EXCEPT ![VGA_HEIGHT][0 + 1] = Character(b, color)]
      BY <1>1, <1>6, <2>6
    <2> QED
      BY <1>1, <1>2, <1>3, <1>9, <2>1, <2>7
      DEF T!Write, T!Show, T!With, T!Scrolled, T!EmptyLine, T!Cell, Character, Printable,
          Lines, Cursor, LineNumbers, Positions
  <1>10. CASE Printable(b) /\ ~ Full
    <2>1. pc' = "store" /\ ~ Scrolling' /\ Pending' /\ NextCol' = k /\ Cursor' = k + 1 /\ k \in Cols
      BY <1>1, <1>2, <1>3, <1>10, Sizes DEF Write, Printable, Full, Scrolling, Pending, NextCol, Cursor, Cols
    <2>2. ASSUME NEW r \in Rows, NEW c \in Cols
          PROVE  Settled(r, c)' = IF r = Bottom /\ c = k THEN Character(b, color) ELSE buffer[r][c]
      BY <1>2, <2>1 DEF Settled
    <2>3. [L EXCEPT ![VGA_HEIGHT][k + 1] = Character(b, color)]
            = [r \in LineNumbers |-> [c \in Positions |->
                 IF r = VGA_HEIGHT /\ c = k + 1 THEN Character(b, color) ELSE L[r][c]]]
      BY <1>5, <2>1, WithIs
    <2>4. ASSUME NEW r \in LineNumbers, NEW c \in Positions
          PROVE  Settled(r - 1, c - 1)' = IF r = VGA_HEIGHT /\ c = k + 1 THEN Character(b, color) ELSE L[r][c]
      <3>1. /\ r - 1 \in Rows /\ c - 1 \in Cols
            /\ (r - 1 = Bottom <=> r = VGA_HEIGHT) /\ (c - 1 = k <=> c = k + 1)
        BY <2>1, Sizes DEF LineNumbers, Positions, Rows, Cols, Bottom
      <3> QED
        BY <1>5, <2>2, <3>1
    <2>5. Lines' = [Lines EXCEPT ![VGA_HEIGHT][k + 1] = Character(b, color)]
      BY <1>1, <2>3, <2>4 DEF Lines
    <2>6. k < VGA_WIDTH
      BY <2>1, Sizes DEF Cols
    <2> QED
      BY <1>1, <1>2, <1>3, <1>10, <2>1, <2>5, <2>6
      DEF T!Write, T!Show, T!With, T!Cell, Character, Printable, Lines, Cursor, LineNumbers, Positions
  <1> QED
    BY <1>7, <1>8, <1>9, <1>10 DEF Printable

(* _panic sets the color, and the loop at its end writes no more.          *)
LEMMA PanicSetsColor ==
  ASSUME Inv, Inv', Panic
  PROVE  T!SetColor
  <1>1. pc = "idle" /\ pc' = "idle" /\ panic = "no" /\ panic' = "message"
        /\ UNCHANGED <<buffer, col, byte>> /\ color' = Red
    BY DEF Panic, SetColor, Red, Black
  <1>2. Lines' = Lines /\ Cursor' = Cursor
    <2>1. \A r \in Rows, c \in Cols : Settled(r, c) = buffer[r][c] /\ Settled(r, c)' = buffer'[r][c]
      BY <1>1 DEF Settled, Pending, Scrolling
    <2>2. Cursor' = Cursor
      BY <1>1 DEF Cursor, Pending, Scrolling, NextCol
    <2> QED
      BY <1>1, <2>1, <2>2, SameLines
  <1> QED
    BY <1>1, <1>2 DEF T!SetColor, Lines, Cursor, LineNumbers, Positions

(* The end of _panic.                                                      *)
LEMMA HaltEnds ==
  ASSUME Inv, Inv', Halt
  PROVE  T!End
  <1>1. panic' = "halted" /\ UNCHANGED <<buffer, col, color, byte, at, pc>>
    BY DEF Halt
  <1>2. Lines' = Lines /\ Cursor' = Cursor
    BY <1>1 DEF Lines, Settled, Cursor, Pending, Scrolling, NextCol
  <1> QED
    BY <1>1, <1>2 DEF T!End, Lines, Cursor, LineNumbers, Positions

(***************************************************************************)
(* The console is a terminal: whatever is written, each byte takes effect  *)
(* once, new_line loses and duplicates no cell although it works in place, *)
(* and a full line is wrapped only when a character follows                *)
(* (early_logger.rs:52-87).                                                *)
(***************************************************************************)
THEOREM ImplementsTerminalThm == Spec => ImplementsTerminal
  <1>1. Init => T!Init
    <2> SUFFICES ASSUME Init PROVE T!Init
      OBVIOUS
    <2>1. PICK x \in Backgrounds : buffer = [r \in Rows |-> [c \in Cols |-> x]]
      BY DEF Init
    <2>2. pc = "idle" /\ col = 0 /\ color = BOOT_COLOR /\ byte = Blank /\ panic = "no"
      BY DEF Init
    <2>3. /\ \A r \in Rows, c \in Cols : Settled(r, c) = x
          /\ Cursor = 0
      BY <2>1, <2>2, IdleLines
    <2>4. \A r \in LineNumbers, c \in Positions : r - 1 \in Rows /\ c - 1 \in Cols
      BY Sizes DEF LineNumbers, Positions, Rows, Cols
    <2>5. Lines \in [LineNumbers -> [Positions -> Backgrounds]]
      BY <2>3, <2>4 DEF Lines
    <2> QED
      BY <2>2, <2>3, <2>5 DEF T!Init, Lines, Cursor, LineNumbers, Positions
  <1>2. Inv /\ Inv' /\ [Next]_vars => [T!Next]_(T!vars)
    <2> SUFFICES ASSUME Inv, Inv', [Next]_vars PROVE [T!Next]_(T!vars)
      OBVIOUS
    <2>1. ASSUME NEW ch \in Chars, Write(ch) PROVE T!Next
      BY <2>1, WriteWrites DEF T!Next
    <2>2. CASE Store \/ NewLineCell \/ NewLineDone
      BY <2>2, StoreStutters, NewLineCellStutters, NewLineDoneStutters
    <2>3. CASE Panic
      BY <2>3, PanicSetsColor DEF T!Next
    <2>4. CASE Halt
      BY <2>4, HaltEnds DEF T!Next
    <2>5. CASE UNCHANGED vars
      BY <2>5 DEF vars, T!vars, Settled, Pending, Scrolling, NextCol
    <2> QED
      BY <2>1, <2>2, <2>3, <2>4, <2>5 DEF Next
  <1> QED
    BY <1>1, <1>2, Invariant, PTL DEF Spec, ImplementsTerminal, T!Spec
=============================================================================
