----------------------------- MODULE BootMemory -----------------------------
(***************************************************************************)
(* The loop of setup_paging (src/arch/x86/paging/mod.rs) that hands the    *)
(* memory the boot loader reports to the page allocator.                   *)
(*                                                                         *)
(* The boot loader's addresses are 64 bits wide, the kernel's a word.      *)
(* add_zone (src/memory/page_allocator/zoned_buddy.rs) cuts a region into  *)
(* zones here as it does in ZonedBuddy, which shows what the allocator     *)
(* does with regions that do not overlap; here they are counted in bytes.  *)
(***************************************************************************)
EXTENDS Integers, Sequences, FiniteSets, Functions

CONSTANTS
  PAGE,        \* bytes of a page
  WORD,        \* the values of a usize: addresses wrap here
  Areas,       \* the [start, end, available] areas a memory map may hold
  MaxAreas,    \* the most areas of a map
  KernelEnd    \* the physical address of kernel_end

(* A power of two is what has no odd divisor but 1.                        *)
PowerOfTwo(n) == \A d \in 1 .. n : n % d = 0 /\ d % 2 = 1 => d = 1

ASSUME BootMemoryAssumption ==
  /\ PAGE \in Nat \ {0} /\ PowerOfTwo(PAGE)
  /\ WORD \in Nat /\ WORD % PAGE = 0
  /\ MaxAreas \in Nat
  /\ KernelEnd \in 1 .. WORD - PAGE
  /\ \A a \in Areas : a.start \in Nat /\ a.end \in Nat /\ a.start < a.end

VARIABLES
  map,      \* the memory map
  next,     \* the area the loop has reached
  adding,   \* add_zone: where the next piece starts, and the bits to come
  zones,    \* the zones pushed so far
  missed,   \* "Failed to add some memory zones" has been printed
  pc

vars == <<map, next, adding, zones, missed, pc>>

Apart(a, b) == a.end <= b.start \/ b.end <= a.start

(* Areas of a map come in any order and do not overlap.                    *)
Maps ==
  { m \in UNION { [1 .. n -> Areas] : n \in 0 .. MaxAreas } :
      \A i, j \in DOMAIN m : i # j => Apart(m[i], m[j]) }

Init ==
  /\ map \in Maps
  /\ next = 1
  /\ adding = [start |-> 0, rest |-> 0, size_p2 |-> 1]
  /\ zones = << >>
  /\ missed = FALSE
  /\ pc = "loop"

-----------------------------------------------------------------------------
(* PhysAddr::from_usize(x as _)                                            *)
Truncate(x) == x % WORD

AlignDown(x) == x - (x % PAGE)
AlignUp(x) == AlignDown(x + PAGE - 1)

Area == map[next]

(* Mutant: memory of the kernel is not excluded.                           *)
RawStart_Any == Truncate(Area.start)

RawStart == IF Truncate(Area.start) > KernelEnd THEN Truncate(Area.start) ELSE KernelEnd

Start == AlignUp(RawStart)
End == Truncate(Area.end)

(* Mutant: the size is rounded up.                                         *)
Size_Up == AlignUp(End - Start)

Size == AlignDown(End - Start)

(* Mutant: an area must be longer than a page.                             *)
Worth_MoreThanAPage == End > Start + PAGE

Worth == End > Start

Continue ==
  /\ pc' = "loop"
  /\ next' = next + 1
  /\ UNCHANGED <<map, adding, zones>>

-----------------------------------------------------------------------------
InLoop == pc = "loop" /\ next <= Len(map)

SkipReserved == InLoop /\ ~ Area.available /\ Continue /\ UNCHANGED missed

(* align_up_4k overflows at the end of the address space (dev profile).    *)
Overflow == RawStart + PAGE - 1 >= WORD

StartPanics ==
  /\ InLoop /\ Area.available /\ Overflow
  /\ pc' = "panic"
  /\ UNCHANGED <<map, next, adding, zones, missed>>

Usable == InLoop /\ Area.available /\ ~ Overflow

SkipEmpty == Usable /\ ~ Worth /\ Continue /\ UNCHANGED missed

-----------------------------------------------------------------------------
(* add_zone goes through the bits of the size, the lowest first.           *)
AddZone ==
  /\ Usable /\ Worth
  /\ adding' = [start |-> Start, rest |-> Size, size_p2 |-> 1]
  /\ pc' = "add_zone"
  /\ UNCHANGED <<map, next, zones, missed>>

NextBit(start) ==
  adding' = [start |-> start, rest |-> adding.rest \div 2, size_p2 |-> 2 * adding.size_p2]

AddZoneSkip ==
  /\ pc = "add_zone" /\ adding.rest > 0 /\ adding.rest % 2 = 0
  /\ NextBit(adding.start)
  /\ UNCHANGED <<map, next, zones, missed, pc>>

(* Mutant: the next piece starts where this one does.                      *)
NextStart_Same == adding.start

NextStart == adding.start + adding.size_p2

Piece == pc = "add_zone" /\ adding.rest % 2 = 1

AddZonePush ==
  /\ Piece
  /\ zones' = Append(zones, [start |-> adding.start, end |-> adding.start + adding.size_p2])
  /\ NextBit(NextStart)
  /\ UNCHANGED <<map, next, missed, pc>>

(***************************************************************************)
(* The heap has no room for the buddy of a piece: the pieces before it     *)
(* stay, the others are given up, and the loop goes on.  When it is the    *)
(* vector that cannot grow, the kernel panics.                             *)
(***************************************************************************)
AddZoneFails == Piece /\ Continue /\ missed' = TRUE

HeapPanics ==
  /\ Piece
  /\ pc' = "panic"
  /\ UNCHANGED <<map, next, adding, zones, missed>>

AddZoneDone ==
  /\ pc = "add_zone" /\ adding.rest = 0
  /\ Continue
  /\ UNCHANGED missed

Finish ==
  /\ pc = "loop" /\ next > Len(map)
  /\ pc' = "done"
  /\ UNCHANGED <<map, next, adding, zones, missed>>

Next ==
  \/ SkipReserved \/ StartPanics \/ SkipEmpty \/ AddZone
  \/ AddZoneSkip \/ AddZonePush \/ AddZoneFails \/ HeapPanics \/ AddZoneDone
  \/ Finish

Spec == Init /\ [][Next]_vars

-----------------------------------------------------------------------------
(***************************************************************************)
(* Properties.                                                             *)
(***************************************************************************)
Bytes(r) == r.start .. r.end - 1

Available == UNION { Bytes(a) : a \in { b \in Range(map) : b.available } }

(* Types of the variables: the end of a zone, which free computes, is an   *)
(* address too (zoned_buddy.rs:87).                                        *)
TypeOK ==
  /\ map \in Maps
  /\ next \in 1 .. Len(map) + 1
  /\ adding \in [start : 0 .. WORD - 1, rest : 0 .. WORD - 1, size_p2 : Nat \ {0}]
  /\ zones \in Seq([start : 0 .. WORD - 1, end : 1 .. WORD - 1])
  /\ missed \in BOOLEAN
  /\ pc \in {"loop", "add_zone", "done", "panic"}

(***************************************************************************)
(* The allocator never owns a byte of the kernel or a byte the boot loader *)
(* did not report as available, however the areas lie with respect to      *)
(* pages, to each other and to the end of the kernel, and whichever part   *)
(* of add_zone failed (paging/mod.rs:76-95).                               *)
(***************************************************************************)
ZonesAreAvailable ==
  \A z \in Range(zones) :
    Bytes(z) \subseteq { b \in Available : b >= KernelEnd }

(***************************************************************************)
(* Zones are whole pages and do not overlap: what ZonedBuddy assumes of    *)
(* the regions it is given (RegionsAssumption, zoned_buddy.rs:41-46).      *)
(***************************************************************************)
ZonesFitAllocator ==
  /\ \A z \in Range(zones) : z.start % PAGE = 0 /\ z.end % PAGE = 0
  /\ \A i, j \in DOMAIN zones : i # j => Apart(zones[i], zones[j])

(***************************************************************************)
(* No memory is lost in silence: a whole page of an available area above   *)
(* the kernel that no zone has at the end has been announced by "Failed to *)
(* add some memory zones" (paging/mod.rs:84-93).  An area that ends beyond *)
(* the last address is left out: its end is truncated.                     *)
(***************************************************************************)
WholePages(a) ==
  { p \in Bytes(a) : p % PAGE = 0 /\ p + PAGE <= a.end /\ p >= KernelEnd }

LossIsReported ==
  pc = "done" /\ ~ missed =>
    \A a \in Range(map) : a.available /\ a.end < WORD =>
      \A p \in WholePages(a) : \E z \in Range(zones) : p \in Bytes(z)

(***************************************************************************)
(* What the documentation says and the code does not do.                   *)
(***************************************************************************)

(* "Returns total amount of memory managed by the allocator": no byte is   *)
(* counted twice (zoned_buddy.rs:97).                                      *)
TotalIsManaged ==
  LET total[i \in 0 .. Len(zones)] ==
        IF i = 0 THEN 0 ELSE total[i - 1] + (zones[i].end - zones[i].start)
  IN  total[Len(zones)] = Cardinality(UNION { Bytes(z) : z \in Range(zones) })
=============================================================================
