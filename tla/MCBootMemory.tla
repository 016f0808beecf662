---------------------------- MODULE MCBootMemory ----------------------------
(***************************************************************************)
(* Instances of BootMemory for TLC.                                        *)
(***************************************************************************)
EXTENDS BootMemory

Over(points) ==
  { a \in [start : points, end : points, available : BOOLEAN] : a.start < a.end }

(* Everything an address can name.                                         *)
LowAreas == Over(0 .. WORD)

(* Page-aligned memory above what an address can name, too.                *)
HighAreas == Over({ PAGE * p : p \in 0 .. (3 * WORD) \div 4 })
=============================================================================
