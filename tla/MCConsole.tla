------------------------------ MODULE MCConsole -----------------------------
(***************************************************************************)
(* What is printed, for TLC: a size is formatted (FormatSize), and then    *)
(* text is written to the screen (EarlyLogger).                            *)
(***************************************************************************)
EXTENDS EarlyLogger, FormatSize

(* A, B, the two line ends, and U+010A, whose low byte is a line end too.  *)
MCChars == {65, 66, NL, CR, 266}

MCBackgrounds == { Character(Blank, BOOT_COLOR), Character(65, BOOT_COLOR) }

(* A size of 15 bits, and units that are 4 bits apart.                     *)
MCSizes == 2^15
MCBase == 2^4
MCUnit == [o \in 0 .. ORDERS |-> 2^(4 * o)]

ConsoleInit == Init /\ FmtInit

(* The writer takes any text, whatever was formatted: once is enough.      *)
ConsoleNext ==
  \/ FmtNext /\ UNCHANGED vars
  \/ out # Nothing /\ size = 0 /\ Next /\ UNCHANGED fmtVars

ConsoleSpec == ConsoleInit /\ [][ConsoleNext]_<<vars, fmtVars>>
=============================================================================
