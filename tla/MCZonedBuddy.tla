---------------------------- MODULE MCZonedBuddy ----------------------------
(***************************************************************************)
(* Instances of ZonedBuddy for TLC.  The first region has three blocks, so *)
(* add_zone cuts it into a one-block and a two-block zone; the second is a *)
(* power of two, one zone, and follows the first without a gap.            *)
(***************************************************************************)
EXTENDS ZonedBuddy, TLC

MCRegions == { [start |-> 1, size |-> 3], [start |-> 4, size |-> 2] }

CallerSymmetry == Permutations(Callers)
=============================================================================
