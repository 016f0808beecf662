----------------------------- MODULE MCPTEntries ----------------------------
(***************************************************************************)
(* Instances of PTEntries for TLC.                                         *)
(***************************************************************************)
EXTENDS PTEntries

AllFlags == SUBSET MappingFlags

(* A page that is both, to show what becomes of either flag.               *)
GlobalUser == { {"PRESENT", "GLOBAL", "USER"} }
=============================================================================
