----------------------------- MODULE PageTable ------------------------------
(***************************************************************************)
(* The two-level page table of x86: map_alloc, map_page and unmap_free of  *)
(* src/memory/address_space/nested_page_table.rs over the page table       *)
(* levels of src/arch/x86/paging/address_space.rs, with the TLB of the     *)
(* processor, which may walk the tables between any two of their writes.   *)
(*                                                                         *)
(* Addresses and sizes are counted in 4 KiB pages.  The upper level (bits  *)
(* = 22) is the directory, the lower one (bits = 12) a table; each has     *)
(* ENTRIES entries.  The kernel has one processor and its interrupt        *)
(* handlers use no address space, so at most one call is in progress.      *)
(* The page allocator is a pool of frames.  The kernel panics where the    *)
(* code unwraps None and where debug-profile arithmetic overflows.         *)
(*                                                                         *)
(* The bootstrap code has mapped the first 8 MiB to themselves: directory  *)
(* entry 0 is a table, entry 1 a large page.  Above the kernel that memory *)
(* is the allocator's too, so these pages reach frames before any call.    *)
(* The two directory entries of the kernel half (768 and 769) are left     *)
(* out: the code runs from them.                                           *)
(***************************************************************************)
EXTENDS Integers, FiniteSets

CONSTANTS
  Frames,    \* the 4 KiB frames the page allocator manages
  Last,      \* the ones that are the last of their zone
  Other,     \* memory of no zone: the kernel's, the firmware's, none at all
  FrameAt,   \* what lies behind each page of the first 8 MiB
  BootZone,  \* whether one zone contains all of the memory from 4 to 8 MiB
  Root,      \* the frame of the kernel's directory, outside the allocator
  LowTable,  \* the table of the first 4 MiB, a static of the kernel too
  None,      \* no frame (physical address 0)
  ENTRIES,   \* entries of a directory or table
  Flags,     \* the MappingFlags map_alloc is called with (PRESENT, GLOBAL)
  MapRanges,    \* the <<vaddr, size>> pairs map_alloc is called with
  UnmapRanges,  \* the <<vaddr, size>> pairs unmap_free is called with
  Touched       \* the pages whose translations the processor may cache

Index == 0 .. ENTRIES - 1
Region == ENTRIES              \* region_size of the directory, in pages
Limit == ENTRIES * ENTRIES     \* 2^32 bytes
VPages == 0 .. Limit - 1

(***************************************************************************)
(* The addresses the bootstrap code writes are page numbers, those of      *)
(* map_alloc frames.  They are kept apart so that an entry says who wrote  *)
(* it; Phys gives the memory behind either.                                *)
(***************************************************************************)
LowPages == 0 .. Region - 1
LargePages == Region .. 2 * Region - 1
BootPages == 0 .. 2 * Region - 1

ASSUME ConstantsAssumption ==
  /\ ENTRIES \in Nat /\ ENTRIES >= 2
  /\ Flags \subseteq SUBSET {"PRESENT", "GLOBAL"}
  /\ MapRanges \subseteq Nat \X Nat /\ UnmapRanges \subseteq Nat \X Nat
  /\ Last \subseteq Frames
  /\ FrameAt \in [BootPages -> Frames \cup {Other}]
  /\ BootZone \in BOOLEAN
  /\ BootZone => \A u \in LargePages : FrameAt[u] \in Frames
  /\ Frames \cap BootPages = {}
  /\ {Root, LowTable, None, Other} \cap (Frames \cup BootPages) = {}
  /\ Root # LowTable /\ None # LowTable /\ None # Other
  /\ Touched \subseteq VPages

VARIABLES
  mem,      \* the contents of every frame, read as a table of entries
  free,     \* the frames the allocator has free
  tlb,      \* the translations the processor has cached
  call,     \* the call in progress, with the translations it started from
  pc,       \* where it is
  page,     \* the page (or index of the page) its outer loop has reached
  lpage,    \* the page the loop over a lower table has reached
  data,     \* the frame map_alloc is about to map
  sub,      \* the sublevel in hand
  error,    \* the MappingError returned
  dropped   \* history: frames nobody can return to the allocator any more

vars == <<mem, free, tlb, call, pc, page, lpage, data, sub, error, dropped>>
cursor == <<page, lpage, data, sub>>

(***************************************************************************)
(* Page table entries.  new_page sets PS for anything but a 4K page, even  *)
(* for the NULL entry.                                                     *)
(***************************************************************************)
Translations == Frames \cup BootPages \cup {None}
PTEntry == [addr : Translations \cup {LowTable},
            p : BOOLEAN, ps : BOOLEAN, g : BOOLEAN]

NullPTE == [addr |-> None, p |-> FALSE, ps |-> FALSE, g |-> FALSE]
NewPageTable(f) == [addr |-> f, p |-> TRUE, ps |-> FALSE, g |-> FALSE]
NewPage(f, large, present, global) ==
  [addr |-> f, p |-> present, ps |-> large, g |-> global]

Phys(a) == IF a \in BootPages THEN FrameAt[a] ELSE a

DirEntry(v) == mem[Root][v \div Region]
TableEntry(t, v) == mem[t][v % Region]

IsLevel(e) == e.p /\ ~ e.ps
Mapped(e) == e.p \/ e.addr # None

(***************************************************************************)
(* The processor: its table walk, and the invlpg of set_entry.  A large    *)
(* page is contiguous.                                                     *)
(***************************************************************************)
Walk(v) ==
  LET d == DirEntry(v)
      e == TableEntry(d.addr, v)
  IN  IF ~ d.p THEN None
      ELSE IF d.ps THEN d.addr + (v % Region)
      ELSE IF e.p THEN e.addr ELSE None

(* Mutant: set_entry does not flush.                                       *)
FlushTlb_Missing(v) == UNCHANGED tlb

FlushTlb(v) == tlb' = [tlb EXCEPT ![v] = None]

SetEntry(t, i, v, e) ==
  /\ mem' = [mem EXCEPT ![t][i] = e]
  /\ FlushTlb(v)

(* Frames hold arbitrary data until a table is made of them.               *)
Junk == [i \in Index |-> NewPage(0, FALSE, TRUE, FALSE)]

Idle == [kind |-> "none", vaddr |-> 0, size |-> 0, flags |-> {},
         before |-> [v \in VPages |-> None], lost |-> {}]

(* The directory and the first table as the bootstrap code leaves them.    *)
BootDirectory ==
  [i \in Index |-> CASE i = 0 -> NewPageTable(LowTable)
                     [] i = 1 -> NewPage(Region, TRUE, TRUE, FALSE)
                     [] OTHER -> NullPTE]
BootTable == [i \in Index |-> NewPage(i, FALSE, TRUE, FALSE)]

Init ==
  /\ mem = [f \in Frames \cup {Root, LowTable} |->
              CASE f = Root -> BootDirectory
                [] f = LowTable -> BootTable
                [] OTHER -> Junk]
  /\ free = Frames
  /\ tlb = [v \in VPages |-> None]
  /\ call = Idle
  /\ pc = "idle"
  /\ page = 0 /\ lpage = 0 /\ data = None /\ sub = None
  /\ error = "none"
  /\ dropped = {}

Goto(l) == pc' = l
Panic == Goto("panic") /\ UNCHANGED <<mem, free, tlb, call, cursor, error, dropped>>

(* The call returns an error; frames it had in hand are forgotten.         *)
Fail(e, lost) ==
  /\ Goto("err")
  /\ error' = e
  /\ dropped' = dropped \cup lost

Enter(kind, v, n, flags) ==
  call' = [kind |-> kind, vaddr |-> v, size |-> n, flags |-> flags,
           before |-> [u \in VPages |-> Walk(u)], lost |-> dropped]

-----------------------------------------------------------------------------
(***************************************************************************)
(* map_alloc: for every page of the range, allocate a frame and map it.    *)
(***************************************************************************)
MapAlloc(v, n, flags) ==
  /\ pc = "idle"
  /\ Enter("map", v, n, flags)
  /\ Goto("map")
  /\ page' = 0
  /\ UNCHANGED <<mem, free, tlb, lpage, data, sub, error, dropped>>

MapDone ==
  /\ pc = "map" /\ page = call.size
  /\ Goto("ok")
  /\ UNCHANGED <<mem, free, tlb, call, cursor, error, dropped>>

(* vaddr + page * MIN overflows, or alloc().unwrap() meets None.           *)
MapPanics ==
  /\ pc = "map" /\ page < call.size
  /\ call.vaddr + page >= Limit \/ free = {}
  /\ Panic

MapTake(f) ==
  /\ pc = "map" /\ page < call.size
  /\ call.vaddr + page < Limit
  /\ f \in free
  /\ free' = free \ {f}
  /\ data' = f
  /\ Goto("dir")
  /\ UNCHANGED <<mem, tlb, call, page, lpage, sub, error, dropped>>

(* map_page on the directory.                                              *)
VAddr == call.vaddr + page

MapOver ==
  /\ pc = "dir"
  /\ DirEntry(VAddr).p /\ DirEntry(VAddr).ps
  /\ Fail("MappingOver", {data})
  /\ UNCHANGED <<mem, free, tlb, call, cursor>>

MapDescend ==
  /\ pc = "dir"
  /\ IsLevel(DirEntry(VAddr))
  /\ sub' = DirEntry(VAddr).addr
  /\ Goto("leaf")
  /\ UNCHANGED <<mem, free, tlb, call, page, lpage, data, error, dropped>>

MapNoLevel ==
  /\ pc = "dir"
  /\ ~ DirEntry(VAddr).p
  /\ free = {}
  /\ Fail("PageAllocationFailed", {data})
  /\ UNCHANGED <<mem, free, tlb, call, cursor>>

(* Mutant: the new table is not cleared.                                   *)
NewTable_Uncleared(f) == mem[f]

NewTable(f) == [i \in Index |-> NullPTE]

NewSublevel(f) ==
  /\ pc = "dir"
  /\ ~ DirEntry(VAddr).p
  /\ f \in free
  /\ free' = free \ {f}
  /\ mem' = [mem EXCEPT ![f] = NewTable(f)]
  /\ sub' = f
  /\ Goto("link")
  /\ UNCHANGED <<tlb, call, page, lpage, data, error, dropped>>

MapLinkFails ==
  /\ pc = "link"
  /\ DirEntry(VAddr).ps
  /\ Fail("MappingOver", {data, sub})
  /\ UNCHANGED <<mem, free, tlb, call, cursor>>

MapLink ==
  /\ pc = "link"
  /\ ~ DirEntry(VAddr).ps
  /\ SetEntry(Root, VAddr \div Region, VAddr, NewPageTable(sub))
  /\ Goto("leaf")
  /\ UNCHANGED <<free, call, cursor, error, dropped>>

(* Mutant: off by one in the index.                                        *)
LeafIndex_Next(v) == (v + 1) % Region

LeafIndex(v) == v % Region

NewLeaf ==
  NewPage(data, FALSE, "PRESENT" \in call.flags, "GLOBAL" \in call.flags)

(* map_page on the table overwrites whatever is there.                     *)
MapLeaf ==
  /\ pc = "leaf"
  /\ SetEntry(sub, LeafIndex(VAddr), VAddr, NewLeaf)
  /\ dropped' = dropped \cup ({TableEntry(sub, VAddr).addr} \cap Frames)
  /\ page' = page + 1
  /\ Goto("map")
  /\ UNCHANGED <<free, call, lpage, data, sub, error>>

-----------------------------------------------------------------------------
(***************************************************************************)
(* unmap_free on the directory.                                            *)
(***************************************************************************)
AlignDown(v) == (v \div Region) * Region
AlignUp(v) == AlignDown(v + Region - 1)

(* (vaddr + size).align_up overflows in the last region.                   *)
UnmapFree(v, n) ==
  /\ pc = "idle"
  /\ Enter("unmap", v, n, {})
  /\ Goto(IF v + n + Region > Limit THEN "panic" ELSE "unmap")
  /\ page' = AlignDown(v)
  /\ UNCHANGED <<mem, free, tlb, lpage, data, sub, error, dropped>>

End == call.vaddr + call.size

Partial == page < call.vaddr \/ page + Region > End

UnmapDone ==
  /\ pc = "unmap" /\ page >= AlignUp(End)
  /\ Goto("ok")
  /\ UNCHANGED <<mem, free, tlb, call, cursor, error, dropped>>

(* Mutant: the loop does not go on.                                        *)
NextPage_Stuck == page

NextPage == page + Region

UnmapSkip ==
  /\ pc = "unmap" /\ page < AlignUp(End)
  /\ ~ DirEntry(page).p
  /\ page' = NextPage
  /\ UNCHANGED <<mem, free, tlb, call, pc, lpage, data, sub, error, dropped>>

UnmapPartOfLarge ==
  /\ pc = "unmap" /\ page < AlignUp(End)
  /\ DirEntry(page).p /\ DirEntry(page).ps /\ Partial
  /\ Fail("UnmappingPartOfLargePage", {})
  /\ UNCHANGED <<mem, free, tlb, call, cursor>>

(* alloc.free takes the 4 MiB of the boot page back if they lie in one     *)
(* zone (zoned_buddy.rs:89), whoever has them, and only then set_entry     *)
(* refuses to clear an entry with PS.                                      *)
UnmapLarge ==
  /\ pc = "unmap" /\ page < AlignUp(End)
  /\ DirEntry(page).p /\ DirEntry(page).ps /\ ~ Partial
  /\ free' = free \cup (IF BootZone THEN {FrameAt[u] : u \in LargePages} ELSE {})
  /\ Fail("MappingOver", {})
  /\ UNCHANGED <<mem, tlb, call, cursor>>

(* The range passed to the unmap_free of the sublevel.                     *)
SubStart == IF page < call.vaddr THEN call.vaddr ELSE page
(* Mutant: off by one in the size passed down.                             *)
SubEnd_Short ==
  IF page < call.vaddr \/ ~ Partial THEN page + Region - 1 ELSE End

SubEnd == IF page < call.vaddr \/ ~ Partial THEN page + Region ELSE End

UnmapDescend ==
  /\ pc = "unmap" /\ page < AlignUp(End)
  /\ IsLevel(DirEntry(page))
  /\ sub' = DirEntry(page).addr
  /\ lpage' = SubStart
  /\ Goto("unmapleaf")
  /\ UNCHANGED <<mem, free, tlb, call, page, data, error, dropped>>

LeafPresent == TableEntry(sub, lpage).p

(***************************************************************************)
(* The frames alloc.free takes back for the address of entry e: none if it *)
(* is memory of no zone.  address() keeps the G bit of a global page (bit  *)
(* 8), and 4 KiB from there on reach out of the zone of its last frame, so *)
(* that one is refused; any other is rounded down to its block.            *)
(***************************************************************************)
(* Mutants: the frame is not given back; free tests no range.              *)
Accepted_None(e) == {}
Accepted_Any(e) == {Phys(e.addr)}

Accepted(e) == {f \in {Phys(e.addr)} \cap Frames : ~ (e.g /\ f \in Last)}

(* unmap_free on the table: free first, clear second.                      *)
UnmapLeafSkip ==
  /\ pc = "unmapleaf" /\ lpage < SubEnd
  /\ ~ LeafPresent
  /\ lpage' = lpage + 1
  /\ UNCHANGED <<mem, free, tlb, call, pc, page, data, sub, error, dropped>>

UnmapLeafFree ==
  /\ pc = "unmapleaf" /\ lpage < SubEnd
  /\ LeafPresent
  /\ LET e == TableEntry(sub, lpage)
     IN  /\ free' = free \cup Accepted(e)
         /\ dropped' = dropped \cup {f \in {e.addr} \cap Last : e.g}
  /\ Goto("clearleaf")
  /\ UNCHANGED <<mem, tlb, call, cursor, error>>

UnmapLeafClear ==
  /\ pc = "clearleaf"
  /\ SetEntry(sub, lpage % Region, lpage, NewPage(None, FALSE, FALSE, FALSE))
  /\ lpage' = lpage + 1
  /\ Goto("unmapleaf")
  /\ UNCHANGED <<free, call, page, data, sub, error, dropped>>

(* A partly unmapped table is kept if any of its entries is mapped.        *)
SubMapped == \E i \in Index : Mapped(mem[sub][i])

UnmapKeep ==
  /\ pc = "unmapleaf" /\ lpage >= SubEnd
  /\ Partial /\ SubMapped
  /\ page' = NextPage
  /\ Goto("unmap")
  /\ UNCHANGED <<mem, free, tlb, call, lpage, data, sub, error, dropped>>

FreeSublevel ==
  /\ pc = "unmapleaf" /\ lpage >= SubEnd
  /\ ~ (Partial /\ SubMapped)
  /\ free' = free \cup ({sub} \cap Frames)
  /\ dropped' = dropped \cup ({mem[sub][i].addr : i \in Index} \cap Frames)
  /\ Goto("cleardir")
  /\ UNCHANGED <<mem, tlb, call, cursor, error>>

(* Mutant: the freed table stays linked.                                   *)
ClearedDir_Linked == DirEntry(page)

ClearedDir == NewPage(None, TRUE, FALSE, FALSE)

UnmapClear ==
  /\ pc = "cleardir"
  /\ SetEntry(Root, page \div Region, page, ClearedDir)
  /\ page' = NextPage
  /\ Goto("unmap")
  /\ UNCHANGED <<free, call, lpage, data, sub, error, dropped>>

-----------------------------------------------------------------------------
(* The caller takes the result.                                            *)
Return ==
  /\ pc \in {"ok", "err"}
  /\ call' = Idle
  /\ Goto("idle")
  /\ page' = 0 /\ lpage' = 0 /\ data' = None /\ sub' = None
  /\ error' = "none"
  /\ UNCHANGED <<mem, free, tlb, dropped>>

(* The processor caches a translation, one for the whole of a large page.  *)
TlbFill(v) ==
  /\ Walk(v) # None
  /\ DirEntry(v).ps => v % Region = 0
  /\ tlb' = [tlb EXCEPT ![v] = Walk(v)]
  /\ UNCHANGED <<mem, free, call, pc, cursor, error, dropped>>

Step ==
  \/ MapDone \/ MapPanics \/ MapOver \/ MapDescend \/ MapNoLevel
  \/ \E f \in Frames : MapTake(f) \/ NewSublevel(f)
  \/ MapLinkFails \/ MapLink \/ MapLeaf
  \/ UnmapDone \/ UnmapSkip \/ UnmapPartOfLarge \/ UnmapLarge \/ UnmapDescend
  \/ UnmapLeafSkip \/ UnmapLeafFree \/ UnmapLeafClear
  \/ UnmapKeep \/ FreeSublevel \/ UnmapClear
  \/ Return

Next ==
  \/ \E r \in MapRanges, fl \in Flags : MapAlloc(r[1], r[2], fl)
  \/ \E r \in UnmapRanges : UnmapFree(r[1], r[2])
  \/ Step
  \/ \E v \in Touched : TlbFill(v)

Spec == Init /\ [][Next]_vars

-----------------------------------------------------------------------------
(***************************************************************************)
(* Properties.                                                             *)
(***************************************************************************)
Labels == {"idle", "map", "dir", "link", "leaf", "unmap", "unmapleaf",
           "clearleaf", "cleardir", "ok", "err", "panic"}

(* Types of the variables.                                                 *)
TypeOK ==
  /\ mem \in [Frames \cup {Root, LowTable} -> [Index -> PTEntry]]
  /\ free \subseteq Frames
  /\ tlb \in [VPages -> Translations]
  /\ call.kind \in {"none", "map", "unmap"}
  /\ call.vaddr \in Nat /\ call.size \in Nat /\ call.flags \subseteq {"PRESENT", "GLOBAL"}
  /\ call.before \in [VPages -> Translations] /\ call.lost \subseteq Frames
  /\ pc \in Labels
  /\ page \in Nat /\ lpage \in Nat
  /\ data \in Frames \cup {None} /\ sub \in Frames \cup {None, LowTable}
  /\ error \in {"none", "MappingOver", "PageAllocationFailed",
                "UnmappingPartOfLargePage"}
  /\ dropped \subseteq Frames

AtRest == pc \in {"idle", "ok", "err"}

(***************************************************************************)
(* Every write of set_entry is followed by the invlpg its translation      *)
(* needs: whatever the processor caches between two writes, it never uses  *)
(* a translation the tables do not hold (address_space.rs:86-110).         *)
(***************************************************************************)
TlbCoherent == \A v \in VPages : tlb[v] \in {None, Walk(v)}

(* The tables in use, and the places that refer to a frame.                *)
Tables == { DirEntry(v).addr : v \in { u \in VPages : IsLevel(DirEntry(u)) } }

References(f) ==
  { r \in ({Root} \cup Tables) \X Index : mem[r[1]][r[2]].addr = f }

(***************************************************************************)
(* The callers are careful if they unmap no page of the bootstrap mapping  *)
(* whose memory alloc.free would take for its own: that memory was never   *)
(* allocated through the page, and may be anybody's.  Nothing in the code  *)
(* checks it (see FreedIsUnused).                                          *)
(***************************************************************************)
TakenBack(u) == IF u \in LowPages THEN FrameAt[u] \in Frames ELSE BootZone

Careful ==
  \A r \in UnmapRanges, u \in BootPages :
    r[1] <= u /\ u < AlignUp(r[1] + r[2]) => ~ TakenBack(u)

(***************************************************************************)
(* With careful callers, between calls every frame of the allocator is     *)
(* free, referred to by exactly one entry map_alloc wrote, or lost for     *)
(* good: no free frame is allocated to a page or a table, no frame is      *)
(* allocated twice, and the allocator lacks no frame but the ones dropped  *)
(* (nested_page_table.rs:64-185).                                          *)
(***************************************************************************)
FramesAccounted ==
  AtRest => \A f \in Frames :
    LET uses == Cardinality(References(f))
    IN  /\ f \in free => uses = 0 /\ f \notin dropped
        /\ f \in dropped => uses = 0
        /\ f \notin free \cup dropped => uses = 1

(***************************************************************************)
(* With careful callers, the processor reaches a free frame only through   *)
(* the pages the bootstrap code mapped, which reach the free memory below  *)
(* 8 MiB all the time, and in the window unmap_free leaves between freeing *)
(* a page or a table and clearing the entry that refers to it              *)
(* (nested_page_table.rs:124-144).                                         *)
(***************************************************************************)
BootMapped == {v \in VPages : Walk(v) \in BootPages}

FreedOnlyInWindow ==
  \A v \in VPages :
    /\ Phys(Walk(v)) \in free =>
         v \in BootMapped \/ (pc = "clearleaf" /\ v = lpage)
    /\ IsLevel(DirEntry(v)) /\ DirEntry(v).addr \in free =>
         pc = "cleardir" /\ AlignDown(v) = page

(***************************************************************************)
(* map_alloc returning Ok has mapped every page of its range, each to a    *)
(* frame of its own, or to none if PRESENT was not asked for.              *)
(***************************************************************************)
Asked == { v \in VPages : call.vaddr <= v /\ v < End }

MapOkMaps ==
  pc = "ok" /\ call.kind = "map" =>
    \A v \in Asked :
      IF "PRESENT" \in call.flags
        THEN Walk(v) \in Frames /\ \A u \in Asked : Walk(u) = Walk(v) => u = v
        ELSE Walk(v) = None

(* unmap_free returning Ok has left no page of its range mapped.           *)
UnmapOkUnmaps ==
  pc = "ok" /\ call.kind = "unmap" => \A v \in Asked : Walk(v) = None

(***************************************************************************)
(* With careful callers, the tables implement an address space: every      *)
(* write changes at most one translation, to none or to a frame no page    *)
(* has but those the bootstrap code mapped, and a call changes no page     *)
(* outside its range; an unmap may go on to the end of the region its      *)
(* range ends in (see UnmapOnlyAsked).                                     *)
(***************************************************************************)
Scope ==
  IF call.kind = "unmap"
    THEN { v \in VPages : call.vaddr <= v /\ v < AlignUp(End) }
    ELSE Asked

AS == INSTANCE AddressSpace
        WITH mapping <- [v \in VPages |-> Phys(Walk(v))],
             boot <- BootMapped, scope <- Scope, Fixed <- LargePages

ImplementsAddressSpace == AS!Spec

(***************************************************************************)
(* Calls end: while one is in progress it has a next step, and every step  *)
(* leaves less to do, although unmap_free computes the range of the level  *)
(* below anew and frees tables on the way (nested_page_table.rs:99-151).   *)
(***************************************************************************)
InCall == pc \notin {"idle", "ok", "err", "panic"}

Left ==
  LET round == 2 * Region + 3
      inRegion == 2 * (page + Region - lpage)
  IN  CASE pc = "map"       -> 4 * (call.size - page)
        [] pc = "dir"       -> 4 * (call.size - page) - 1
        [] pc = "link"      -> 4 * (call.size - page) - 2
        [] pc = "leaf"      -> 4 * (call.size - page) - 3
        [] pc = "unmap"     -> round * (AlignUp(End) - page)
        [] pc = "unmapleaf" -> round * (AlignUp(End) - page - 1) + inRegion + 2
        [] pc = "clearleaf" -> round * (AlignUp(End) - page - 1) + inRegion + 1
        [] pc = "cleardir"  -> round * (AlignUp(End) - page - 1) + 1

(* Every step of a call leaves less to do.                                 *)
LeavesLess == [][InCall /\ InCall' => Left' >= 0 /\ Left' < Left]_<<pc, page, lpage>>

(* And a call in progress has a next step.                                 *)
CallsEnd == [](InCall => ENABLED Step) /\ LeavesLess

-----------------------------------------------------------------------------
(***************************************************************************)
(* What the documentation says and the code does not do.                   *)
(***************************************************************************)

(* "Unmap a region of memory from the address space": only that region     *)
(* (address_space.rs:72).                                                  *)
UnmapOnlyAsked ==
  call.kind = "unmap" => \A v \in VPages \ Asked : Walk(v) = call.before[v]

(* "Unmap a region [...] and mark it as free" (address_space.rs:72): the   *)
(* frames map_alloc allocated for the region are free afterwards; none is  *)
(* lost by an unmap_free.                                                  *)
UnmapMarksFree == pc = "ok" /\ call.kind = "unmap" => dropped = call.lost

(* The same sentence: what unmap_free marks as free is the region it       *)
(* unmaps, never memory that is allocated to another page or a table.      *)
FreedIsUnused == AtRest => \A f \in free : References(f) = {}

(* The same sentence, of a region that ends within the address space and   *)
(* has a page mapped: the call returns.                                    *)
UnmapReturns ==
  /\ call.kind = "unmap" /\ End <= Limit
  /\ \E v \in Asked : call.before[v] # None
  => pc # "panic"

(* MappingOver means "Mapping over an already existing page"               *)
(* (address_space.rs:29): map_alloc that returns Ok replaced no page.      *)
NoMappingOver ==
  pc = "ok" /\ call.kind = "map" => \A v \in Asked : call.before[v] = None

(* And the error is returned only when there is a page already.            *)
MappingOverExists ==
  error = "MappingOver" /\ call.kind = "map" =>
    \E v \in Asked : call.before[v] # None

(* PageAllocationFailed is an error of mapping (address_space.rs:32): when *)
(* memory runs out map_alloc returns it.                                   *)
OutOfMemoryReturned == call.kind = "map" /\ End <= Limit => pc # "panic"
=============================================================================
