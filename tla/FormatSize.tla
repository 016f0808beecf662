----------------------------- MODULE FormatSize -----------------------------
(***************************************************************************)
(* The Display of FormatSize (src/memory.rs): the loop that picks a unit,  *)
(* and the two formats.  The text is abstracted to its numbers.            *)
(***************************************************************************)
EXTENDS Integers

CONSTANTS
  SIZES,    \* the values of a size: 2^64
  BASE,     \* from one unit to the next: 1 << 10
  ORDERS,   \* the number of units: 6
  Unit      \* the bytes of a unit: 1 << (order * 10)

(* Tens fit between units, and ten times the largest size that is printed  *)
(* with a decimal fits in a word.                                          *)
ASSUME FormatSizeAssumption ==
  /\ SIZES \in Nat /\ ORDERS \in Nat \ {0} /\ BASE \in Nat /\ BASE >= 10
  /\ Unit \in [0 .. ORDERS -> Nat \ {0}]
  /\ Unit[0] = 1
  /\ \A o \in 0 .. ORDERS - 1 : Unit[o + 1] = BASE * Unit[o] /\ 100 * Unit[o] <= SIZES

VARIABLES
  size,    \* self.0
  value, order,
  out      \* what was written: the number, its decimal or -1, the unit

fmtVars == <<size, value, order, out>>

Nothing == <<>>

FmtInit ==
  /\ size \in 0 .. SIZES - 1
  /\ value = size /\ order = 0
  /\ out = Nothing

(* Mutant: a size of exactly one unit is left in the unit below.           *)
Large_Strict == value > BASE /\ order + 1 < ORDERS

Large == value >= BASE /\ order + 1 < ORDERS

Reduce ==
  /\ out = Nothing /\ Large
  /\ value' = value \div BASE
  /\ order' = order + 1
  /\ UNCHANGED <<size, out>>

(* Mutant: a number of two digits has a decimal, too.                      *)
Whole_Late == value >= 100

Whole == value >= 10

(* `self.0 * 10`, a word.                                                  *)
Tenfold == size * 10

(* `>> (order * 10)` is a division by the unit.                            *)
Tenth == ((Tenfold % SIZES) \div Unit[order]) % 10

PrintWhole ==
  /\ out = Nothing /\ ~ Large /\ Whole
  /\ out' = <<value, -1, order>>
  /\ UNCHANGED <<size, value, order>>

PrintTenth ==
  /\ out = Nothing /\ ~ Large /\ ~ Whole
  /\ out' = <<value, Tenth, order>>
  /\ UNCHANGED <<size, value, order>>

FmtNext == Reduce \/ PrintWhole \/ PrintTenth

FmtSpec == FmtInit /\ [][FmtNext]_fmtVars

-----------------------------------------------------------------------------
(***************************************************************************)
(* Properties.                                                             *)
(***************************************************************************)

(* The multiplication by ten is evaluated only where it does not overflow, *)
(* which would panic or print a wrong decimal (memory.rs:50).              *)
NoOverflow == ~ Large /\ ~ Whole => Tenfold < SIZES

(***************************************************************************)
(* The text is the size rounded down to its last digit, in the largest     *)
(* unit the size reaches: the digits shifted out of value one unit at a    *)
(* time are the ones the decimal brings back (memory.rs:38-53).            *)
(***************************************************************************)
RoundedDown ==
  out # Nothing =>
    /\ out[1] * Unit[out[3]] <= size /\ size < (out[1] + 1) * Unit[out[3]]
    /\ out[2] # -1 =>
         LET tenths == 10 * out[1] + out[2]
         IN  /\ tenths * Unit[out[3]] <= 10 * size
             /\ 10 * size < (tenths + 1) * Unit[out[3]]
    /\ out[2] = -1 <=> out[1] >= 10
    /\ out[3] = 0 \/ Unit[out[3]] <= size
    /\ out[3] + 1 = ORDERS \/ size < Unit[out[3] + 1]
=============================================================================
