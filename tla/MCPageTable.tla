---------------------------- MODULE MCPageTable -----------------------------
(***************************************************************************)
(* Instances of PageTable for TLC.  With five entries index 0 is the low   *)
(* table (pages 0 to 4), 1 the large page (5 to 9), 2 and 3 are ordinary   *)
(* regions and 4 is the last one.                                          *)
(***************************************************************************)
EXTENDS PageTable, TLC

CONSTANTS b, l, f   \* frames: b is behind page 9, l the last of its zone

(* A kernel that ends in the large page, one page before it does: the zone *)
(* of the allocator begins with the page that is left.                     *)
LateKernel == [u \in BootPages |-> IF u = 2 * Region - 1 THEN b ELSE Other]

(* A kernel that ends in the low table, as a small one does, before page   *)
(* 4: one zone contains the large page.  Frame 100 + u is behind page u.   *)
EarlyKernel == [u \in BootPages |-> IF u < 4 THEN Other ELSE 100 + u]
EarlyFrames == 104 .. 109
EarlyLast == {104, 109}

MCFlags == { {"PRESENT"}, {}, {"PRESENT", "GLOBAL"} }
PresentOnly == { {"PRESENT"} }
GlobalOnly == { {"PRESENT", "GLOBAL"} }
NotPresent == { {} }

MCMapRanges == { <<10, 2>>, <<11, 1>>, <<14, 2>>, <<4, 2>>, <<24, 2>> }

MCUnmapRanges ==
  { <<11, 1>>, <<11, 0>>, <<14, 2>>, <<10, 6>>, <<10, 5>>,
    <<4, 2>>, <<0, 5>>, <<5, 5>>, <<24, 1>> }

MCTouched == {4, 11}

(* Ranges that are not empty and lie in the ordinary regions, then in the  *)
(* last one, then in the large page, for the documented behaviour.         *)
MCInnerRanges == { <<10, 2>>, <<11, 1>>, <<12, 1>>, <<15, 1>>, <<10, 5>> }
MCLastRanges == { <<20, 1>>, <<23, 2>> }
MCLargeRanges == { <<5, 5>> }
=============================================================================
