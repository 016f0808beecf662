---------------------------- MODULE AddressSpace ----------------------------
(***************************************************************************)
(* What an address space promises its user (AddressSpaceTrait in           *)
(* src/memory/address_space.rs): a map from virtual pages to frames that   *)
(* map_alloc and unmap_free change page by page, within the range of the   *)
(* call, and that never makes two of its pages share a frame.  The pages   *)
(* of the bootstrap code share theirs with whoever allocates it; Fixed     *)
(* ones belong to a large page and never change.  Map replaces a page that *)
(* is mapped, as the code does.                                            *)
(***************************************************************************)
CONSTANTS VPages, Frames, None, Fixed

VARIABLES
  mapping,   \* the frame behind each page, or None
  boot,      \* the pages still mapped as the bootstrap code left them
  scope      \* the pages the call in progress may change

vars == <<mapping, boot, scope>>

Fresh(f) == f \in Frames /\ \A p \in VPages \ boot : mapping[p] # f

Init ==
  /\ boot = {p \in VPages : mapping[p] # None}
  /\ Fixed \subseteq boot
  /\ scope = {}

Call ==
  /\ scope = {}
  /\ scope' \subseteq VPages
  /\ UNCHANGED <<mapping, boot>>

Return ==
  /\ scope' = {}
  /\ UNCHANGED <<mapping, boot>>

Map(p, f) ==
  /\ p \in scope \ Fixed
  /\ Fresh(f)
  /\ mapping' = [mapping EXCEPT ![p] = f]
  /\ boot' = boot \ {p}
  /\ UNCHANGED scope

Unmap(p) ==
  /\ p \in scope \ Fixed
  /\ mapping' = [mapping EXCEPT ![p] = None]
  /\ boot' = boot \ {p}
  /\ UNCHANGED scope

Next ==
  \/ Call
  \/ Return
  \/ \E p \in VPages : Unmap(p) \/ \E f \in Frames : Map(p, f)

Spec == Init /\ [][Next]_vars
=============================================================================
