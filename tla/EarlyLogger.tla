----------------------------- MODULE EarlyLogger ----------------------------
(***************************************************************************)
(* The early console (src/arch/x86/early_logger.rs): a column, a color and *)
(* the VGA text buffer, written one cell at a time.  Only the holder of    *)
(* WRITER runs this code; module Interrupts is about that lock, and a      *)
(* print is here the characters it writes.                                 *)
(***************************************************************************)
EXTENDS Integers

CONSTANTS
  VGA_WIDTH, VGA_HEIGHT,
  Chars,          \* the characters of the texts: code points
  Backgrounds     \* the cells the firmware may leave

NL == 10
CR == 13
Blank == 32
BOOT_COLOR == 15    \* 0x0f
Red == 4
Black == 0

ASSUME EarlyLoggerAssumption ==
  /\ VGA_WIDTH \in Nat \ {0} /\ VGA_HEIGHT \in Nat \ {0}
  /\ Chars \subseteq Nat

VARIABLES
  buffer,   \* the VGA buffer
  col, color,
  byte,     \* the byte of the write in progress, or the last one
  at,       \* the cells new_line has dealt with
  pc,       \* where write is
  panic     \* where _panic is

vars == <<buffer, col, color, byte, at, pc, panic>>

Rows == 0 .. VGA_HEIGHT - 1
Cols == 0 .. VGA_WIDTH - 1
Bottom == VGA_HEIGHT - 1

Character(b, c) == [character |-> b, color |-> c]

Init ==
  /\ buffer \in { [r \in Rows |-> [c \in Cols |-> b]] : b \in Backgrounds }
  /\ col = 0 /\ color = BOOT_COLOR
  /\ byte = Blank /\ at = 0 /\ pc = "idle"
  /\ panic = "no"

-----------------------------------------------------------------------------
(* `ch as u8` of write_str.                                                *)
Byte(ch) == ch % 256

Printable(b) == b \notin {NL, CR}

(* Mutant: one cell too many.                                              *)
Full_Late == col > VGA_WIDTH

Full == col >= VGA_WIDTH

(* write, up to new_line or to the store of the character.                 *)
Write(ch) ==
  /\ pc = "idle" /\ panic # "halted"
  /\ byte' = Byte(ch)
  /\ IF byte' = CR
       THEN col' = 0 /\ UNCHANGED pc
       ELSE /\ pc' = IF byte' = NL \/ Full THEN "new_line" ELSE "store"
            /\ UNCHANGED col
  /\ at' = 0
  /\ UNCHANGED <<buffer, color, panic>>

Store ==
  /\ pc = "store"
  /\ buffer' = [buffer EXCEPT ![Bottom][col] = Character(byte, color)]
  /\ col' = col + 1
  /\ pc' = "idle"
  /\ UNCHANGED <<color, byte, at, panic>>

(***************************************************************************)
(* new_line visits the cells row by row: it moves up all but those of the  *)
(* first row, and clear_row blanks the last.                               *)
(***************************************************************************)
Row == at \div VGA_WIDTH
Col == at % VGA_WIDTH

(* Mutant: the last row stays.                                             *)
Moved_NoClear == buffer[IF Row < Bottom THEN Row + 1 ELSE Bottom][Col]

Moved == IF Row < Bottom THEN buffer[Row + 1][Col] ELSE Character(Blank, color)

NewLineCell ==
  /\ pc = "new_line" /\ at < VGA_WIDTH * VGA_HEIGHT
  /\ buffer' = [buffer EXCEPT ![Row][Col] = Moved]
  /\ at' = at + 1
  /\ UNCHANGED <<col, color, byte, pc, panic>>

NewLineDone ==
  /\ pc = "new_line" /\ at = VGA_WIDTH * VGA_HEIGHT
  /\ col' = 0
  /\ pc' = IF Printable(byte) THEN "store" ELSE "idle"
  /\ UNCHANGED <<buffer, color, byte, at, panic>>

-----------------------------------------------------------------------------
SetColor(fg, bg) == color' = 16 * bg + fg

Panic ==
  /\ pc = "idle" /\ panic = "no"
  /\ SetColor(Red, Black)
  /\ panic' = "message"
  /\ UNCHANGED <<buffer, col, byte, at, pc>>

Halt ==
  /\ pc = "idle" /\ panic = "message"
  /\ panic' = "halted"
  /\ UNCHANGED <<buffer, col, color, byte, at, pc>>

Next ==
  \/ \E ch \in Chars : Write(ch)
  \/ Store \/ NewLineCell \/ NewLineDone
  \/ Panic \/ Halt

Spec == Init /\ [][Next]_vars

-----------------------------------------------------------------------------
(***************************************************************************)
(* The terminal: a byte takes effect when write is entered, so what is     *)
(* left to do is added to the buffer.                                      *)
(***************************************************************************)
Scrolling == pc = "new_line"
Pending == pc = "store" \/ (Scrolling /\ Printable(byte))
NextCol == IF Scrolling THEN 0 ELSE col

Settled(r, c) ==
  IF Pending /\ r = Bottom /\ c = NextCol THEN Character(byte, color)
  ELSE IF ~ Scrolling \/ r * VGA_WIDTH + c < at THEN buffer[r][c]
  ELSE IF r < Bottom THEN buffer[r + 1][c]
  ELSE Character(Blank, color)

T == INSTANCE Terminal WITH
       WIDTH <- VGA_WIDTH, HEIGHT <- VGA_HEIGHT,
       Bytes <- { Byte(ch) : ch \in Chars }, Cells <- Backgrounds,
       Colors <- {BOOT_COLOR, Red}, First <- BOOT_COLOR,
       lines <- [r \in 1 .. VGA_HEIGHT |->
                   [c \in 1 .. VGA_WIDTH |-> Settled(r - 1, c - 1)]],
       cursor <- IF Pending THEN NextCol + 1 ELSE NextCol,
       ended <- panic = "halted"

(***************************************************************************)
(* Properties.                                                             *)
(***************************************************************************)

(***************************************************************************)
(* The store of a character is inside the buffer, whatever texts, line     *)
(* ends and full lines came before.  Outside, the index would panic while  *)
(* WRITER is held, and the panic would wait for it (lines 57-61, 116).     *)
(***************************************************************************)
StoreInBounds == pc = "store" => col \in Cols

(***************************************************************************)
(* The buffer always is the screen of a terminal, up to the write in       *)
(* progress: new_line, which moves cells in place, loses and duplicates    *)
(* none, and a line is wrapped only when a character follows (lines 52-87) *)
(***************************************************************************)
ImplementsTerminal == T!Spec
=============================================================================
