-------------------------- MODULE PageTableProofs ---------------------------
(***************************************************************************)
(* Proofs about PageTable: for every set of frames, every size of a table  *)
(* and all ranges, the page tables, the TLB and the frames stay consistent *)
(* and implement an address space.                                         *)
(***************************************************************************)
EXTENDS PageTable, FiniteSetTheorems, TLAPS

-----------------------------------------------------------------------------
(***************************************************************************)
(* Arithmetic of pages: a page is its index in the directory and its index *)
(* in a table.  Only these lemmas look into \div and %.                    *)
(***************************************************************************)

(* The sizes.                                                              *)
LEMMA Sizes ==
  /\ Region \in Nat \ {0}
  /\ Index = 0 .. Region - 1
  /\ VPages = 0 .. Limit - 1
  /\ Limit = Region * Region /\ Limit \in Nat
  BY ConstantsAssumption DEF Region, Index, VPages, Limit

(* The frames, the pages of the bootstrap code and the other addresses are *)
(* different.                                                              *)
LEMMA Names ==
  /\ Root \notin Frames /\ LowTable \notin Frames /\ None \notin Frames
  /\ Other \notin Frames /\ None \notin BootPages /\ Root # LowTable
  /\ None # LowTable /\ None # Other
  /\ \A f \in Frames : f \notin BootPages
  /\ \A a : a \notin BootPages => Phys(a) = a
  /\ \A a \in BootPages : Phys(a) \in Frames \cup {Other}
  BY ConstantsAssumption DEF Phys

(* A smaller multiple is smaller by the factor.                            *)
LEMMA Multiples ==
  ASSUME NEW r \in Nat \ {0}, NEW p \in Int, NEW q \in Int, p < q
  PROVE  r * p + r <= r * q
  OBVIOUS

(* The pages the bootstrap code has mapped, by their index.                *)
LEMMA BootIndex ==
  /\ 0 \in Index /\ 1 \in Index
  /\ Index = LowPages /\ BootPages = LowPages \cup LargePages
  /\ LowPages \cap LargePages = {} /\ BootPages \subseteq VPages
<1>1. Region \in Nat /\ Region >= 2 /\ Region = ENTRIES /\ Limit = Region * Region
  BY ConstantsAssumption DEF Region, Limit
<1>2. ASSUME NEW r \in Nat, r >= 2 PROVE 2 * r <= r * r
  <2>1. r * 1 + r <= r * r
    BY <1>2, Multiples
  <2> QED
    BY <2>1
<1>3. 2 * Region <= Limit /\ Limit \in Nat
  BY <1>1, <1>2, Sizes
<1> QED
  BY <1>1, <1>3 DEF Index, LowPages, LargePages, BootPages, VPages

(* Division with remainder.                                                *)
LEMMA DivMod ==
  ASSUME NEW v \in Nat
  PROVE  /\ v \div Region \in Nat /\ Region * (v \div Region) \in Nat
         /\ v % Region \in Index /\ v % Region \in 0 .. Region - 1
         /\ v = Region * (v \div Region) + (v % Region)
<1>1. Region \in Nat \ {0}
  BY Sizes
<1>2. ASSUME NEW r \in Nat \ {0}
      PROVE  v \div r \in Int /\ v % r \in 0 .. r - 1 /\ v % r = v - r * (v \div r)
  OBVIOUS
<1>3. ASSUME NEW r \in Nat \ {0}, NEW q \in Int, NEW m \in 0 .. r - 1, m = v - r * q
      PROVE  q \in Nat /\ r * q \in Nat /\ v = r * q + m
  <2>1. ~(q < 0)
    BY <1>3, Multiples
  <2> QED
    BY <1>3, <2>1
<1> QED
  BY <1>1, <1>2, <1>3, Sizes

(* A multiple has no remainder.                                            *)
LEMMA Aligned ==
  ASSUME NEW p \in Nat, p % Region = 0
  PROVE  p \div Region \in Nat /\ p = Region * (p \div Region)
  BY DivMod

(* Both are determined by the sum.                                         *)
LEMMA DivModOf ==
  ASSUME NEW q \in Nat, NEW m \in Index
  PROVE  /\ Region * q + m \in Nat
         /\ (Region * q + m) \div Region = q
         /\ (Region * q + m) % Region = m
<1>1. ASSUME NEW r \in Nat \ {0}, NEW n \in 0 .. r - 1
      PROVE  r * q + n \in Nat /\ (r * q + n) \div r = q /\ (r * q + n) % r = n
  OBVIOUS
<1> QED
  BY <1>1, Sizes

(* A page has an index in the directory and one in a table.                *)
LEMMA PageIndex ==
  ASSUME NEW v \in VPages
  PROVE  v \in Nat /\ v \div Region \in Index /\ v % Region \in Index
<1>1. v \in Nat /\ v < Region * Region /\ Region \in Nat \ {0}
  BY Sizes
<1>2. /\ v \div Region \in Nat /\ v % Region \in Index /\ v % Region \in Nat
      /\ v = Region * (v \div Region) + (v % Region)
  <2>1. v % Region \in 0 .. Region - 1
    BY <1>1, DivMod
  <2> QED
    BY <1>1, <2>1, DivMod
<1>3. ASSUME NEW r \in Nat \ {0}, NEW q \in Nat, NEW m \in Nat, r * q + m < r * r
      PROVE  q \in 0 .. r - 1
  <2>1. ~(r <= q)
    BY <1>3
  <2> QED
    BY <2>1
<1>4. v \div Region \in 0 .. Region - 1
  BY <1>1, <1>2, <1>3
<1> QED
  BY <1>1, <1>2, <1>4, Sizes

(* And no other page has both.                                             *)
LEMMA SamePage ==
  ASSUME NEW u \in Nat, NEW v \in Nat,
         u \div Region = v \div Region, u % Region = v % Region
  PROVE  u = v
  BY DivMod

(* Every pair of indexes is a page's.                                      *)
LEMMA PageAt ==
  ASSUME NEW i \in Index, NEW j \in Index
  PROVE  \E v \in VPages : v \div Region = i /\ v % Region = j
<1>1. ASSUME NEW r \in Nat \ {0}, NEW k \in 0 .. r - 1, NEW l \in 0 .. r - 1
      PROVE  r * k + l \in 0 .. r * r - 1
  <2>1. r * k + r <= r * r
    BY Multiples
  <2>2. r * k \in Nat /\ r * r \in Nat
    OBVIOUS
  <2> QED
    BY <2>1, <2>2
<1>2. Region * i + j \in VPages
  BY <1>1, Sizes
<1>3. i \in Nat
  BY Sizes
<1> QED
  BY <1>2, <1>3, DivModOf

(* The pages of the region of an aligned page.                             *)
LEMMA InRegion ==
  ASSUME NEW p \in Nat, NEW v \in Nat, p % Region = 0
  PROVE  v \div Region = p \div Region <=> p <= v /\ v < p + Region
<1>1. /\ p = Region * (p \div Region) /\ p \div Region \in Nat
      /\ v = Region * (v \div Region) + (v % Region) /\ v \div Region \in Nat
      /\ v % Region \in 0 .. Region - 1 /\ Region \in Nat \ {0}
  BY Aligned, DivMod, Sizes
<1>2. ASSUME NEW r \in Nat \ {0}, NEW q \in Nat, NEW k \in Nat, NEW m \in 0 .. r - 1,
             v = r * k + m, p = r * q
      PROVE  k = q <=> p <= v /\ v < p + r
  <2>1. k < q => v < p
    BY <1>2, Multiples
  <2>2. q < k => v >= p + r
    BY <1>2, Multiples
  <2> QED
    BY <1>2, <2>1, <2>2
<1> QED
  BY <1>1, <1>2

(* Aligned pages are a region apart.                                       *)
LEMMA AlignedGap ==
  ASSUME NEW p \in Nat, NEW q \in Nat, p % Region = 0, q % Region = 0
  PROVE  /\ (p + Region) % Region = 0
         /\ p < q => p + Region <= q
<1>1. p = Region * (p \div Region) /\ p \div Region \in Nat
  BY Aligned
<1>2. p + Region = Region * (p \div Region + 1) + 0
  <2>1. ASSUME NEW r \in Nat, NEW k \in Nat PROVE r * k + r = r * (k + 1) + 0
    OBVIOUS
  <2> QED
    BY <1>1, <2>1, Sizes
<1>3. 0 \in Index
  BY Sizes
<1>4. (p + Region) % Region = 0
  BY <1>1, <1>2, <1>3, DivModOf
<1>5. p < q => p + Region <= q
  <2>1. q = Region * (q \div Region) /\ q \div Region \in Nat
    BY Aligned
  <2>2. ASSUME NEW r \in Nat \ {0}, NEW k \in Nat, NEW l \in Nat, r * k < r * l
        PROVE  r * k + r <= r * l
    <3>1. ~(l <= k)
      BY <2>2
    <3> QED
      BY <3>1, Multiples
  <2> QED
    BY <1>1, <2>1, <2>2, Sizes
<1> QED
  BY <1>4, <1>5

(* align_down and align_up.                                                *)
LEMMA AlignDownOf ==
  ASSUME NEW v \in Nat
  PROVE  /\ AlignDown(v) \in Nat
         /\ AlignDown(v) % Region = 0
         /\ AlignDown(v) <= v /\ v < AlignDown(v) + Region
<1>1. AlignDown(v) = Region * (v \div Region) + 0
  <2>1. v \div Region \in Nat /\ Region \in Nat
    BY DivMod, Sizes
  <2>2. ASSUME NEW r \in Nat, NEW k \in Nat PROVE k * r = r * k + 0
    OBVIOUS
  <2> QED
    BY <2>1, <2>2 DEF AlignDown
<1>2. 0 \in Index
  BY Sizes
<1>3. AlignDown(v) \in Nat /\ AlignDown(v) % Region = 0
  BY <1>1, <1>2, DivMod, DivModOf
<1>4. v = AlignDown(v) + (v % Region) /\ v % Region \in 0 .. Region - 1
  <2>1. Region * (v \div Region) \in Nat
    BY DivMod
  <2> QED
    BY <1>1, <2>1, DivMod
<1> QED
  BY <1>3, <1>4, Sizes

(* A page rounded up.                                                      *)
LEMMA AlignUpOf ==
  ASSUME NEW v \in Nat
  PROVE  /\ AlignUp(v) \in Nat
         /\ AlignUp(v) % Region = 0
         /\ v <= AlignUp(v) /\ AlignUp(v) < v + Region
<1>1. v + Region - 1 \in Nat
  BY Sizes
<1> QED
  <2>1. AlignUp(v) = AlignDown(v + Region - 1)
    BY DEF AlignUp
  <2>2. /\ AlignUp(v) \in Nat /\ AlignUp(v) % Region = 0
        /\ AlignUp(v) <= v + Region - 1 /\ v + Region - 1 < AlignUp(v) + Region
    BY <1>1, <2>1, AlignDownOf
  <2>3. Region \in Nat
    BY Sizes
  <2> QED
    BY <2>2, <2>3

-----------------------------------------------------------------------------
(***************************************************************************)
(* The inductive invariant.                                                *)
(***************************************************************************)

(* The directory: whether an entry is a table, which, and the entries of   *)
(* that table.                                                             *)
Lvl(i) == IsLevel(mem[Root][i])
Tab(i) == mem[Root][i].addr
Ent(i, j) == mem[Tab(i)][j]

(* The boot page stays where it is; every other entry is a table or null.  *)
RootInv ==
  /\ mem[Root][1] = NewPage(Region, TRUE, TRUE, FALSE)
  /\ \A i \in Index : Lvl(i) => Tab(i) \in Frames \cup {LowTable}
  /\ \A i \in Index \ {1} : ~ Lvl(i) => ~ mem[Root][i].p /\ Tab(i) = None

(* Tables hold frames of the allocator, the first one what the bootstrap   *)
(* code has written too, and no present entry is null.                     *)
LeafInv ==
  \A i, j \in Index : Lvl(i) =>
    /\ Ent(i, j).addr \in Frames \cup {None} \/ (i = 0 /\ Ent(i, j).addr = j)
    /\ Ent(i, j).p => Ent(i, j).addr # None

(***************************************************************************)
(* Who has a frame: the directory, a table, the call in progress, the      *)
(* allocator, or nobody any more.  What unmap_free has given back and not  *)
(* cleared yet does not count as used, nor what the bootstrap code mapped. *)
(***************************************************************************)
MapIndex == VAddr \div Region
UnmapIndex == page \div Region
LeafOf == lpage % Region

Counts(i) == Lvl(i) /\ ~ (pc = "cleardir" /\ i = UnmapIndex)

Holds(i, j) ==
  /\ Counts(i)
  /\ Ent(i, j).addr \in Frames
  /\ ~ (pc = "clearleaf" /\ i = UnmapIndex /\ j = LeafOf)

InHand ==
  { f \in {data} : pc \in {"dir", "link", "leaf"} } \cup { f \in {sub} : pc = "link" }

Loose == free \cup dropped \cup InHand

(* Nobody has a frame twice, and no two have the same.                     *)
OneTable == \A i, k \in Index : Counts(i) /\ Counts(k) /\ Tab(i) = Tab(k) => i = k

OneEntry ==
  \A i, j, k, l \in Index :
    Holds(i, j) /\ Holds(k, l) /\ Ent(i, j).addr = Ent(k, l).addr => i = k /\ j = l

TableOrEntry ==
  \A i, k, l \in Index : Counts(i) /\ Holds(k, l) => Tab(i) # Ent(k, l).addr

UsedNotLoose ==
  /\ \A i \in Index : Counts(i) => Tab(i) \notin Loose
  /\ \A i, j \in Index : Holds(i, j) => Ent(i, j).addr \notin Loose

LooseApart ==
  /\ free \cap dropped = {} /\ free \cap InHand = {} /\ dropped \cap InHand = {}
  /\ pc = "link" => data # sub

(* And somebody has it.                                                    *)
Complete ==
  \A f \in Frames :
    \/ f \in Loose
    \/ \E i \in Index : Counts(i) /\ Tab(i) = f
    \/ \E i, j \in Index : Holds(i, j) /\ Ent(i, j).addr = f

Own == OneTable /\ OneEntry /\ TableOrEntry /\ UsedNotLoose /\ LooseApart /\ Complete

(* Where map_alloc is.                                                     *)
MapPlace ==
  /\ pc \in {"map", "dir", "link", "leaf"} => call.kind = "map" /\ page <= call.size
  /\ pc \in {"dir", "link", "leaf"} =>
       page < call.size /\ VAddr \in VPages /\ data \in Frames
  /\ pc = "link" =>
       /\ sub \in Frames /\ mem[sub] = [i \in Index |-> NullPTE]
       /\ ~ mem[Root][MapIndex].p
  /\ pc = "leaf" => Lvl(MapIndex) /\ sub = Tab(MapIndex)
  /\ pc = "ok" /\ call.kind = "map" => page = call.size

(* Where unmap_free is.                                                    *)
UnmapPlace ==
  /\ pc \in {"unmap", "unmapleaf", "clearleaf", "cleardir"} =>
       /\ call.kind = "unmap" /\ End + Region <= Limit
       /\ page % Region = 0 /\ call.vaddr < page + Region
  /\ pc \in {"unmapleaf", "clearleaf", "cleardir"} =>
       /\ page < AlignUp(End)
       /\ Lvl(UnmapIndex) /\ sub = Tab(UnmapIndex)
       /\ SubStart <= lpage /\ lpage <= SubEnd
  /\ pc = "clearleaf" => lpage < SubEnd
  /\ pc = "cleardir" => \A j \in Index : ~ Ent(UnmapIndex, j).p
  /\ pc = "ok" /\ call.kind = "unmap" => End <= page

(* Whom it may unmap, if the callers are careful.                          *)
CarefulCall ==
  call.kind = "unmap" =>
    \A u \in BootPages : call.vaddr <= u /\ u < AlignUp(End) => ~ TakenBack(u)

(* What map_alloc has mapped so far.                                       *)
MappedSoFar ==
  pc \in {"map", "dir", "link", "leaf", "ok"} /\ call.kind = "map" =>
    \A v \in VPages : call.vaddr <= v /\ v < call.vaddr + page =>
      IF "PRESENT" \in call.flags THEN Walk(v) \in Frames ELSE Walk(v) = None

(* What unmap_free has unmapped so far: the regions behind it, up to the   *)
(* end of its range, and in its region what the lower loop has passed.     *)
UnmappedSoFar ==
  /\ pc \in {"unmap", "unmapleaf", "clearleaf", "cleardir", "ok"} /\ call.kind = "unmap" =>
       \A v \in Asked : v < page => Walk(v) = None
  /\ pc \in {"unmapleaf", "clearleaf"} =>
       \A v \in VPages : SubStart <= v /\ v < lpage => Walk(v) = None

Inv ==
  /\ TypeOK /\ RootInv /\ LeafInv /\ Own /\ MapPlace /\ UnmapPlace
  /\ TlbCoherent /\ MappedSoFar /\ UnmappedSoFar /\ CarefulCall

-----------------------------------------------------------------------------
(***************************************************************************)
(* What the invariant says of the entries a step reads.                    *)
(***************************************************************************)

(* Entries are records.                                                    *)
LEMMA Entries ==
  ASSUME TypeOK, NEW t \in Frames \cup {Root, LowTable}, NEW i \in Index
  PROVE  /\ mem[t] \in [Index -> PTEntry]
         /\ mem[t][i].addr \in Translations \cup {LowTable}
         /\ mem[t][i].p \in BOOLEAN /\ mem[t][i].ps \in BOOLEAN
<1>1. mem[t] \in [Index -> PTEntry]
  BY DEF TypeOK
<1>2. mem[t][i] \in PTEntry
  BY <1>1
<1> QED
  BY <1>1, <1>2 DEF PTEntry

(* The walk of a page, by its indexes.                                     *)
LEMMA WalkOf ==
  ASSUME NEW v
  PROVE  LET i == v \div Region
             j == v % Region
         IN  Walk(v) = IF ~ mem[Root][i].p THEN None
                       ELSE IF mem[Root][i].ps THEN Tab(i) + j
                       ELSE IF Ent(i, j).p THEN Ent(i, j).addr ELSE None
  BY DEF Walk, DirEntry, TableEntry, Tab, Ent

(* The walk ends at the boot page, at nothing, or at an entry of a table;  *)
(* a page of the bootstrap code is mapped to itself.                       *)
LEMMA WalkCases ==
  ASSUME TypeOK, RootInv, LeafInv, NEW v \in VPages
  PROVE  LET i == v \div Region
             j == v % Region
         IN  /\ i \in Index /\ j \in Index
             /\ i = 1 => ~ Lvl(i) /\ Walk(v) = v /\ v \in LargePages
             /\ i # 1 /\ ~ Lvl(i) => Walk(v) = None
             /\ Lvl(i) =>
                  /\ i # 1
                  /\ Walk(v) = IF Ent(i, j).p THEN Ent(i, j).addr ELSE None
                  /\ Walk(v) \in Frames \cup {None} \/ (i = 0 /\ Walk(v) = v)
             /\ Walk(v) \in Translations
             /\ Walk(v) \in BootPages => Walk(v) = v
<1> DEFINE i == v \div Region
           j == v % Region
<1>1. i \in Index /\ j \in Index
  BY PageIndex
<1>a. v \in Nat /\ v = Region * i + j /\ j \in Nat /\ Region \in Nat
  <2>1. v \in Nat
    BY PageIndex
  <2>2. v = Region * i + j /\ j \in 0 .. Region - 1
    BY <2>1, DivMod
  <2> QED
    BY <2>1, <2>2, Sizes
<1>2. i = 1 => mem[Root][i].p /\ mem[Root][i].ps /\ Tab(i) = Region
  BY DEF RootInv, NewPage, Tab
<1>5. Walk(v) = IF ~ mem[Root][i].p THEN None
                ELSE IF mem[Root][i].ps THEN Tab(i) + j
                ELSE IF Ent(i, j).p THEN Ent(i, j).addr ELSE None
  BY WalkOf
<1> HIDE DEF i, j
<1>3. i # 1 /\ ~ Lvl(i) => ~ mem[Root][i].p
  BY <1>1 DEF RootInv
<1>4. Lvl(i) => mem[Root][i].p /\ ~ mem[Root][i].ps
  BY DEF Lvl, IsLevel
<1>6. Lvl(i) => Ent(i, j).addr \in Frames \cup {None} \/ (i = 0 /\ Ent(i, j).addr = j)
  BY <1>1 DEF LeafInv
<1>b. /\ i = 1 => Region + j = v
      /\ i = 0 => j = v
  BY <1>a
<1>c. /\ i = 1 => v \in LargePages
      /\ i = 0 => v \in LowPages
  BY <1>1, <1>a, <1>b, Sizes DEF LargePages, LowPages
<1>7. /\ i = 1 => ~ Lvl(i) /\ Walk(v) = v /\ v \in LargePages
      /\ i # 1 /\ ~ Lvl(i) => Walk(v) = None
      /\ Lvl(i) => i # 1 /\ Walk(v) = IF Ent(i, j).p THEN Ent(i, j).addr ELSE None
  BY <1>2, <1>3, <1>4, <1>5, <1>b, <1>c
<1>8. Lvl(i) => Walk(v) \in Frames \cup {None} \/ (i = 0 /\ Walk(v) = v)
  BY <1>6, <1>7, <1>b
<1>9. \/ Walk(v) \in Frames \cup {None}
      \/ Walk(v) = v /\ v \in BootPages
  BY <1>7, <1>8, <1>c, BootIndex
<1>10. Walk(v) \in Translations
  BY <1>9 DEF Translations
<1>11. Walk(v) \in BootPages => Walk(v) = v
  BY <1>9, Names
<1> QED
  BY <1>1, <1>7, <1>8, <1>10, <1>11 DEF i, j

(* A frame of the allocator is reached through a table.                    *)
LEMMA WalkInTable ==
  ASSUME TypeOK, RootInv, LeafInv, NEW v \in VPages, Walk(v) \in Frames
  PROVE  LET i == v \div Region
             j == v % Region
         IN  i \in Index /\ j \in Index /\ Lvl(i) /\ Ent(i, j).p /\ Walk(v) = Ent(i, j).addr
<1>1. Walk(v) # None /\ Walk(v) \notin BootPages
  BY Names
<1>2. v \div Region # 1
  BY <1>1, WalkCases, BootIndex
<1> QED
  BY <1>1, <1>2, WalkCases

(* The large page is at index 1.                                           *)
LEMMA OneIndex == 1 \in Index
  BY BootIndex

(* The page map_alloc is at.                                               *)
LEMMA MapIn ==
  ASSUME TypeOK, MapPlace, pc \in {"dir", "link", "leaf"}
  PROVE  /\ VAddr \in VPages /\ VAddr \in Nat
         /\ MapIndex \in Index /\ VAddr % Region \in Index
<1>1. VAddr \in VPages
  BY DEF MapPlace
<1> QED
  BY <1>1, PageIndex DEF MapIndex

(* The region unmap_free is in.                                            *)
LEMMA UnmapIn ==
  ASSUME TypeOK, UnmapPlace, pc \in {"unmap", "unmapleaf", "clearleaf", "cleardir"},
         page < AlignUp(End)
  PROVE  /\ End \in Nat /\ page \in VPages /\ UnmapIndex \in Index
         /\ page < End /\ page + Region <= Limit /\ page + Region <= AlignUp(End)
         /\ SubStart \in Nat /\ SubEnd \in Nat
         /\ page <= SubStart /\ SubStart <= SubEnd /\ SubEnd <= page + Region
<1>1. /\ page \in Nat /\ lpage \in Nat /\ call.vaddr \in Nat /\ call.size \in Nat
      /\ End = call.vaddr + call.size /\ End \in Nat
  BY DEF TypeOK, End
<1>2. page % Region = 0 /\ call.vaddr < page + Region /\ End + Region <= Limit
  BY DEF UnmapPlace
<1>3. /\ AlignUp(End) \in Nat /\ AlignUp(End) % Region = 0
      /\ AlignUp(End) < End + Region
  BY <1>1, AlignUpOf
<1>4. page + Region <= AlignUp(End)
  BY <1>1, <1>2, <1>3, AlignedGap
<1>5. Region \in Nat \ {0} /\ Limit \in Nat
  BY Sizes
<1>6. page < End /\ page + Region <= Limit
  BY <1>1, <1>2, <1>3, <1>4, <1>5
<1>7. page \in VPages
  BY <1>1, <1>5, <1>6, Sizes
<1>8. UnmapIndex \in Index
  BY <1>7, PageIndex DEF UnmapIndex
<1>9. /\ SubStart \in Nat /\ SubEnd \in Nat
      /\ page <= SubStart /\ SubStart <= SubEnd /\ SubEnd <= page + Region
  BY <1>1, <1>2, <1>5, <1>6 DEF SubStart, SubEnd, Partial
<1> QED
  BY <1>1, <1>4, <1>6, <1>7, <1>8, <1>9

(* The pages of that region.                                               *)
LEMMA InUnmapRegion ==
  ASSUME TypeOK, UnmapPlace, pc \in {"unmap", "unmapleaf", "clearleaf", "cleardir"},
         NEW v \in Nat
  PROVE  v \div Region = UnmapIndex <=> page <= v /\ v < page + Region
<1>1. page \in Nat /\ page % Region = 0
  BY DEF TypeOK, UnmapPlace
<1> QED
  BY <1>1, InRegion DEF UnmapIndex

(* The page the lower loop of unmap_free is at.                            *)
LEMMA LeafIn ==
  ASSUME TypeOK, UnmapPlace, pc \in {"unmapleaf", "clearleaf"}, lpage < SubEnd
  PROVE  /\ lpage \in VPages /\ lpage \div Region = UnmapIndex
         /\ UnmapIndex \in Index /\ LeafOf \in Index
<1>1. page < AlignUp(End) /\ SubStart <= lpage
  BY DEF UnmapPlace
<1>2. /\ UnmapIndex \in Index /\ page <= SubStart /\ SubEnd <= page + Region
      /\ SubStart \in Nat /\ SubEnd \in Nat /\ page + Region <= Limit
  BY <1>1, UnmapIn
<1>3. page \in Nat /\ lpage \in Nat /\ Region \in Nat /\ Limit \in Nat
  BY Sizes DEF TypeOK
<1>4. page <= lpage /\ lpage < page + Region /\ lpage \in VPages
  BY <1>1, <1>2, <1>3, Sizes
<1>5. lpage \div Region = UnmapIndex
  BY <1>3, <1>4, InUnmapRegion
<1> QED
  BY <1>2, <1>4, <1>5, PageIndex DEF LeafOf

-----------------------------------------------------------------------------
(***************************************************************************)
(* The invariant holds initially.                                          *)
(***************************************************************************)

(* What the bootstrap code has written.                                    *)
LEMMA InitWalk ==
  ASSUME Init
  PROVE  /\ mem[Root] = BootDirectory /\ mem[LowTable] = BootTable
         /\ Lvl(0) /\ Tab(0) = LowTable
         /\ \A i \in Index \ {0} : ~ Lvl(i)
         /\ mem[Root][1] = NewPage(Region, TRUE, TRUE, FALSE)
         /\ \A i \in Index \ {0, 1} : ~ mem[Root][i].p /\ Tab(i) = None
         /\ \A j \in Index : Ent(0, j) = NewPage(j, FALSE, TRUE, FALSE)
<1>1. mem[Root] = BootDirectory /\ mem[LowTable] = BootTable
  BY Names DEF Init
<1>2. /\ mem[Root][0] = NewPageTable(LowTable)
      /\ mem[Root][1] = NewPage(Region, TRUE, TRUE, FALSE)
      /\ \A i \in Index \ {0, 1} : mem[Root][i] = NullPTE
  <2>1. \A i \in Index :
          BootDirectory[i] = CASE i = 0 -> NewPageTable(LowTable)
                               [] i = 1 -> NewPage(Region, TRUE, TRUE, FALSE)
                               [] OTHER -> NullPTE
    BY DEF BootDirectory
  <2>2. 0 \in Index /\ 1 \in Index /\ 0 # 1
    BY BootIndex
  <2>3. BootDirectory[0] = NewPageTable(LowTable)
    BY <2>1, <2>2
  <2>4. BootDirectory[1] = NewPage(Region, TRUE, TRUE, FALSE)
    BY <2>1, <2>2
  <2>5. \A i \in Index \ {0, 1} : BootDirectory[i] = NullPTE
    BY <2>1
  <2> QED
    BY <1>1, <2>3, <2>4, <2>5
<1>3. Lvl(0) /\ Tab(0) = LowTable
  BY <1>2 DEF Lvl, Tab, IsLevel, NewPageTable
<1>4. \A i \in Index \ {0, 1} : ~ mem[Root][i].p /\ Tab(i) = None
  BY <1>2 DEF Tab, NullPTE
<1>5. ~ Lvl(1)
  BY <1>2 DEF Lvl, IsLevel, NewPage
<1>6. \A j \in Index : Ent(0, j) = NewPage(j, FALSE, TRUE, FALSE)
  BY <1>1, <1>3 DEF Ent, BootTable
<1> QED
  BY <1>1, <1>2, <1>3, <1>4, <1>5, <1>6 DEF Lvl, IsLevel

(* The invariant, initially.                                               *)
LEMMA InitInv == Init => Inv
<1> SUFFICES ASSUME Init PROVE Inv
  OBVIOUS
<1>1. TypeOK
  <2>1. Junk \in [Index -> PTEntry]
    <3>1. NewPage(0, FALSE, TRUE, FALSE) \in PTEntry
      BY BootIndex DEF NewPage, PTEntry, Translations
    <3> QED
      BY <3>1 DEF Junk
  <2>2. BootTable \in [Index -> PTEntry]
    <3>1. \A i \in Index : NewPage(i, FALSE, TRUE, FALSE) \in PTEntry
      BY BootIndex DEF NewPage, PTEntry, Translations
    <3> QED
      BY <3>1 DEF BootTable
  <2>3. BootDirectory \in [Index -> PTEntry]
    <3>1. Region \in BootPages
      BY Sizes DEF BootPages
    <3>2. NewPage(Region, TRUE, TRUE, FALSE) \in PTEntry
      BY <3>1 DEF NewPage, PTEntry, Translations
    <3>3. NewPageTable(LowTable) \in PTEntry /\ NullPTE \in PTEntry
      BY DEF NewPageTable, NullPTE, PTEntry, Translations
    <3> QED
      BY <3>2, <3>3 DEF BootDirectory
  <2>4. mem \in [Frames \cup {Root, LowTable} -> [Index -> PTEntry]]
    BY <2>1, <2>2, <2>3 DEF Init
  <2>5. [v \in VPages |-> None] \in [VPages -> Translations]
    BY DEF Translations
  <2> QED
    BY <2>4, <2>5 DEF Init, TypeOK, Idle, Labels
<1>2. RootInv /\ LeafInv
  <2>1. RootInv
    BY InitWalk DEF RootInv
  <2>2. \A j \in Index : Ent(0, j).addr = j /\ j # None
    BY InitWalk, BootIndex, Names DEF NewPage
  <2>3. LeafInv
    BY <2>2, InitWalk DEF LeafInv
  <2> QED
    BY <2>1, <2>3
<1>3. Own
  <2>1. \A i \in Index : Counts(i) => i = 0 /\ Tab(i) = LowTable
    BY InitWalk DEF Counts
  <2>2. \A i, j \in Index : ~ Holds(i, j)
    <3>1. \A j \in Index : Ent(0, j).addr = j /\ j \notin Frames
      BY InitWalk, BootIndex, Names DEF NewPage
    <3> QED
      BY <2>1, <3>1 DEF Holds
  <2>3. pc = "idle" /\ free = Frames /\ dropped = {} /\ InHand = {}
    BY DEF Init, InHand
  <2> QED
    BY <2>1, <2>2, <2>3, Names DEF Own, OneTable, OneEntry, TableOrEntry, UsedNotLoose,
                                   LooseApart, Complete, Loose
<1>4. MapPlace /\ UnmapPlace /\ MappedSoFar /\ UnmappedSoFar /\ CarefulCall
  BY DEF Init, MapPlace, UnmapPlace, MappedSoFar, UnmappedSoFar, CarefulCall, Idle
<1>5. TlbCoherent
  BY DEF Init, TlbCoherent
<1> QED
  BY <1>1, <1>2, <1>3, <1>4, <1>5 DEF Inv

-----------------------------------------------------------------------------
(***************************************************************************)
(* What each step does to the tables.                                      *)
(***************************************************************************)

(* All steps but five leave the tables alone, and all but these and        *)
(* TlbFill the TLB.                                                        *)
LEMMA Kinds ==
  ASSUME [Next]_vars
  PROVE  \/ UNCHANGED <<mem, tlb>>
         \/ \E v \in Touched : TlbFill(v)
         \/ \E f \in Frames : NewSublevel(f)
         \/ MapLink
         \/ MapLeaf
         \/ UnmapLeafClear
         \/ UnmapClear
<1>1. CASE UNCHANGED vars
  BY <1>1 DEF vars
<1>2. CASE \E r \in MapRanges, fl \in Flags : MapAlloc(r[1], r[2], fl)
  BY <1>2 DEF MapAlloc
<1>3. CASE \E r \in UnmapRanges : UnmapFree(r[1], r[2])
  BY <1>3 DEF UnmapFree
<1>4. CASE Step
  BY <1>4 DEF Step, MapDone, MapPanics, Panic, MapOver, MapDescend, MapNoLevel, MapTake,
      MapLinkFails, UnmapDone, UnmapSkip, UnmapPartOfLarge, UnmapLarge, UnmapDescend,
      UnmapLeafSkip, UnmapLeafFree, UnmapKeep, FreeSublevel, Return
<1>5. CASE \E v \in Touched : TlbFill(v)
  BY <1>5
<1> QED
  BY <1>1, <1>2, <1>3, <1>4, <1>5 DEF Next

(* Tables that do not change.                                              *)
LEMMA MemSame ==
  ASSUME UNCHANGED mem
  PROVE  /\ \A i : (Lvl(i)' <=> Lvl(i)) /\ Tab(i)' = Tab(i)
         /\ \A i, j : Ent(i, j)' = Ent(i, j)
         /\ \A v : Walk(v)' = Walk(v)
  BY DEF Lvl, Tab, Ent, Walk, DirEntry, TableEntry

(* new_sublevel clears a frame that is no table.                           *)
LEMMA NewSublevelMem ==
  ASSUME Inv, NEW f \in Frames, NewSublevel(f)
  PROVE  /\ mem'[Root] = mem[Root]
         /\ \A i \in Index : mem'[f][i] = NullPTE
         /\ \A i : (Lvl(i)' <=> Lvl(i)) /\ Tab(i)' = Tab(i)
         /\ \A i \in Index : Lvl(i) => Tab(i) # f
         /\ \A i, j \in Index : Lvl(i) => Ent(i, j)' = Ent(i, j)
<1>1. mem \in [Frames \cup {Root, LowTable} -> [Index -> PTEntry]]
  BY DEF Inv, TypeOK
<1>2. mem' = [mem EXCEPT ![f] = [i \in Index |-> NullPTE]] /\ f \in free /\ pc = "dir"
  BY DEF NewSublevel, NewTable
<1>3. f # Root
  BY Names
<1>4. \A t \in Frames \cup {Root, LowTable} : t # f => mem'[t] = mem[t]
  BY <1>1, <1>2
<1>5. mem'[Root] = mem[Root]
  BY <1>3, <1>4
<1>6. \A i \in Index : Lvl(i) => Tab(i) # f /\ Tab(i) \in Frames \cup {LowTable}
  BY <1>2 DEF Inv, Own, UsedNotLoose, Counts, Loose, RootInv
<1>7. \A i : (Lvl(i)' <=> Lvl(i)) /\ Tab(i)' = Tab(i)
  BY <1>5 DEF Lvl, Tab
<1>8. \A i, j \in Index : Lvl(i) => Ent(i, j)' = Ent(i, j)
  BY <1>4, <1>6, <1>7 DEF Ent
<1>9. \A i \in Index : mem'[f][i] = NullPTE
  BY <1>1, <1>2
<1> QED
  BY <1>5, <1>6, <1>7, <1>8, <1>9

(* A write to the directory.                                               *)
LEMMA DirWrite ==
  ASSUME Inv, NEW k \in Index, NEW e, mem' = [mem EXCEPT ![Root][k] = e]
  PROVE  /\ mem'[Root][k] = e
         /\ \A i \in Index \ {k} : /\ mem'[Root][i] = mem[Root][i]
                                   /\ (Lvl(i)' <=> Lvl(i)) /\ Tab(i)' = Tab(i)
         /\ \A t \in Frames \cup {LowTable} : mem'[t] = mem[t]
         /\ \A i \in Index \ {k}, j \in Index : Lvl(i) => Ent(i, j)' = Ent(i, j)
<1>1. mem \in [Frames \cup {Root, LowTable} -> [Index -> PTEntry]]
  BY DEF Inv, TypeOK
<1>2. mem'[Root][k] = e /\ \A i \in Index \ {k} : mem'[Root][i] = mem[Root][i]
  BY <1>1
<1>3. \A t \in Frames \cup {LowTable} : mem'[t] = mem[t]
  BY <1>1, Names
<1>4. \A i \in Index \ {k} : (Lvl(i)' <=> Lvl(i)) /\ Tab(i)' = Tab(i)
  BY <1>2 DEF Lvl, Tab
<1>5. \A i \in Index \ {k}, j \in Index : Lvl(i) => Ent(i, j)' = Ent(i, j)
  BY <1>3, <1>4 DEF Ent, Inv, RootInv
<1> QED
  BY <1>2, <1>3, <1>4, <1>5

(* A write to a table that no other directory entry refers to.             *)
LEMMA TableWrite ==
  ASSUME Inv, NEW k \in Index, NEW m \in Index, NEW e,
         Lvl(k), \A i \in Index \ {k} : Lvl(i) => Tab(i) # Tab(k),
         mem' = [mem EXCEPT ![Tab(k)][m] = e]
  PROVE  /\ mem'[Root] = mem[Root]
         /\ \A i : (Lvl(i)' <=> Lvl(i)) /\ Tab(i)' = Tab(i)
         /\ Ent(k, m)' = e
         /\ \A i, j \in Index : Lvl(i) /\ <<i, j>> # <<k, m>> => Ent(i, j)' = Ent(i, j)
<1>1. mem \in [Frames \cup {Root, LowTable} -> [Index -> PTEntry]]
  BY DEF Inv, TypeOK
<1>2. \A i \in Index : Lvl(i) => Tab(i) \in Frames \cup {LowTable}
  BY DEF Inv, RootInv
<1>3. mem'[Root] = mem[Root]
  BY <1>1, <1>2, Names
<1>4. \A i : (Lvl(i)' <=> Lvl(i)) /\ Tab(i)' = Tab(i)
  BY <1>3 DEF Lvl, Tab
<1>5. Ent(k, m)' = e
  BY <1>1, <1>2, <1>4 DEF Ent
<1>6. \A j \in Index \ {m} : Ent(k, j)' = Ent(k, j)
  BY <1>1, <1>2, <1>4 DEF Ent
<1>7. \A i \in Index \ {k}, j \in Index : Lvl(i) => Ent(i, j)' = Ent(i, j)
  BY <1>1, <1>2, <1>4 DEF Ent
<1> QED
  BY <1>3, <1>4, <1>5, <1>6, <1>7

(* At most one directory entry refers to a table.                          *)
LEMMA TableOnce ==
  ASSUME Inv, pc # "cleardir", NEW k \in Index, Lvl(k)
  PROVE  \A i \in Index \ {k} : Lvl(i) => Tab(i) # Tab(k)
  BY DEF Inv, Own, OneTable, Counts

(* Linking a new table: an empty one, where nothing was mapped.  The lemma *)
(* names the index, since VAddr is an expression of the state.             *)
LEMMA MapLinkMem ==
  ASSUME Inv, MapLink, NEW k, k = MapIndex
  PROVE  /\ k \in Index \ {1} /\ ~ mem[Root][k].p /\ ~ Lvl(k) /\ sub \in Frames
         /\ mem' = [mem EXCEPT ![Root][k] = NewPageTable(sub)]
         /\ Lvl(k)' /\ Tab(k)' = sub
         /\ \A j \in Index : Ent(k, j)' = NullPTE
<1>1. pc = "link" /\ TypeOK /\ MapPlace
  BY DEF MapLink, Inv
<1>2. k \in Index
  BY <1>1, MapIn
<1>3. ~ mem[Root][k].p /\ sub \in Frames /\ mem[sub] = [i \in Index |-> NullPTE]
  BY <1>1 DEF MapPlace
<1>4. k # 1
  <2>1. mem[Root][1].p
    BY DEF Inv, RootInv, NewPage
  <2> QED
    BY <1>3, <2>1
<1>5. mem' = [mem EXCEPT ![Root][k] = NewPageTable(sub)]
  BY DEF MapLink, SetEntry, MapIndex
<1>6. mem'[Root][k] = NewPageTable(sub) /\ mem'[sub] = mem[sub]
  BY <1>2, <1>3, <1>5, DirWrite
<1>7. Lvl(k)' /\ Tab(k)' = sub
  BY <1>6 DEF Lvl, Tab, IsLevel, NewPageTable
<1>8. \A j \in Index : Ent(k, j)' = NullPTE
  BY <1>3, <1>6, <1>7 DEF Ent
<1> QED
  BY <1>2, <1>3, <1>4, <1>5, <1>7, <1>8 DEF Lvl, IsLevel

(* Writing the entry of a page.                                            *)
LEMMA MapLeafMem ==
  ASSUME Inv, MapLeaf, NEW k, k = MapIndex, NEW m, m = VAddr % Region
  PROVE  /\ k \in Index /\ m \in Index /\ Lvl(k) /\ sub = Tab(k) /\ data \in Frames
         /\ \A i \in Index \ {k} : Lvl(i) => Tab(i) # Tab(k)
         /\ mem' = [mem EXCEPT ![Tab(k)][m] = NewLeaf]
         /\ TableEntry(sub, VAddr) = Ent(k, m)
<1>1. pc = "leaf" /\ TypeOK /\ MapPlace
  BY DEF MapLeaf, Inv
<1>2. k \in Index /\ m \in Index
  BY <1>1, MapIn
<1>3. Lvl(k) /\ sub = Tab(k) /\ data \in Frames
  BY <1>1 DEF MapPlace
<1>4. \A i \in Index \ {k} : Lvl(i) => Tab(i) # Tab(k)
  BY <1>1, <1>2, <1>3, TableOnce
<1>5. mem' = [mem EXCEPT ![Tab(k)][m] = NewLeaf]
  BY <1>3 DEF MapLeaf, SetEntry, LeafIndex
<1>6. TableEntry(sub, VAddr) = Ent(k, m)
  BY <1>3 DEF TableEntry, Ent
<1> QED
  BY <1>2, <1>3, <1>4, <1>5, <1>6

(* Clearing the entry of a page.                                           *)
LEMMA UnmapLeafMem ==
  ASSUME Inv, UnmapLeafClear, NEW k, k = UnmapIndex, NEW m, m = LeafOf
  PROVE  /\ k \in Index /\ m \in Index /\ Lvl(k)
         /\ \A i \in Index \ {k} : Lvl(i) => Tab(i) # Tab(k)
         /\ mem' = [mem EXCEPT ![Tab(k)][m] = NullPTE]
<1>1. pc = "clearleaf" /\ TypeOK /\ UnmapPlace
  BY DEF UnmapLeafClear, Inv
<1>2. k \in Index /\ m \in Index
  BY <1>1, LeafIn DEF UnmapPlace
<1>3. Lvl(k) /\ sub = Tab(k)
  BY <1>1 DEF UnmapPlace
<1>4. \A i \in Index \ {k} : Lvl(i) => Tab(i) # Tab(k)
  BY <1>1, <1>2, <1>3, TableOnce
<1>5. mem' = [mem EXCEPT ![Tab(k)][m] = NullPTE]
  BY <1>3 DEF UnmapLeafClear, SetEntry, LeafOf, NewPage, NullPTE
<1> QED
  BY <1>2, <1>3, <1>4, <1>5

(* Clearing the entry of a table in which nothing is present.              *)
LEMMA UnmapClearMem ==
  ASSUME Inv, UnmapClear, NEW k, k = UnmapIndex
  PROVE  /\ k \in Index \ {1} /\ Lvl(k) /\ \A j \in Index : ~ Ent(k, j).p
         /\ mem' = [mem EXCEPT ![Root][k] = NewPage(None, TRUE, FALSE, FALSE)]
         /\ ~ Lvl(k)' /\ ~ mem'[Root][k].p /\ Tab(k)' = None
<1>1. pc = "cleardir" /\ TypeOK /\ UnmapPlace
  BY DEF UnmapClear, Inv
<1>2. k \in Index
  BY <1>1, UnmapIn DEF UnmapPlace
<1>3. Lvl(k) /\ \A j \in Index : ~ Ent(k, j).p
  BY <1>1 DEF UnmapPlace
<1>4. k # 1
  <2>1. mem[Root][1].ps
    BY DEF Inv, RootInv, NewPage
  <2> QED
    BY <1>3, <2>1 DEF Lvl, IsLevel
<1>5. mem' = [mem EXCEPT ![Root][k] = NewPage(None, TRUE, FALSE, FALSE)]
  BY DEF UnmapClear, SetEntry, UnmapIndex, ClearedDir
<1>6. mem'[Root][k] = NewPage(None, TRUE, FALSE, FALSE)
  BY <1>2, <1>5, DirWrite
<1>7. ~ Lvl(k)' /\ ~ mem'[Root][k].p /\ Tab(k)' = None
  BY <1>6 DEF Lvl, Tab, IsLevel, NewPage
<1> QED
  BY <1>2, <1>3, <1>4, <1>5, <1>7

-----------------------------------------------------------------------------
(***************************************************************************)
(* The directory and the tables stay well-formed.                          *)
(***************************************************************************)

(* RootInv and LeafInv are preserved.                                      *)
LEMMA TablesStep ==
  ASSUME Inv, [Next]_vars
  PROVE  RootInv' /\ LeafInv'
<1> USE DEF Inv
<1>1. CASE UNCHANGED mem
  BY <1>1 DEF RootInv, LeafInv, Lvl, Tab, Ent
<1>2. CASE \E f \in Frames : NewSublevel(f)
  <2>1. PICK f \in Frames : NewSublevel(f)
    BY <1>2
  <2>2. /\ mem'[Root] = mem[Root]
        /\ \A i : (Lvl(i)' <=> Lvl(i)) /\ Tab(i)' = Tab(i)
        /\ \A i, j \in Index : Lvl(i) => Ent(i, j)' = Ent(i, j)
    BY <2>1, NewSublevelMem
  <2>3. RootInv'
    BY <2>2 DEF RootInv
  <2>4. LeafInv'
    BY <2>2 DEF LeafInv
  <2> QED
    BY <2>3, <2>4
<1>3. CASE MapLink
  <2>1. PICK k : k = MapIndex
    OBVIOUS
  <2>2. /\ k \in Index \ {1} /\ sub \in Frames
        /\ mem' = [mem EXCEPT ![Root][k] = NewPageTable(sub)]
        /\ Lvl(k)' /\ Tab(k)' = sub /\ \A j \in Index : Ent(k, j)' = NullPTE
    BY <1>3, <2>1, MapLinkMem
  <2>6. /\ \A i \in Index \ {k} : /\ mem'[Root][i] = mem[Root][i]
                                  /\ (Lvl(i)' <=> Lvl(i)) /\ Tab(i)' = Tab(i)
        /\ \A i \in Index \ {k}, j \in Index : Lvl(i) => Ent(i, j)' = Ent(i, j)
    BY <2>2, DirWrite
  <2>3. RootInv'
    BY <2>2, <2>6, OneIndex DEF RootInv
  <2>4. NullPTE.addr = None /\ ~ NullPTE.p
    BY DEF NullPTE
  <2>5. LeafInv'
    BY <2>2, <2>4, <2>6 DEF LeafInv
  <2> QED
    BY <2>3, <2>5
<1>4. CASE MapLeaf
  <2>1. PICK k, m : k = MapIndex /\ m = VAddr % Region
    OBVIOUS
  <2> DEFINE e == NewLeaf
  <2>2. /\ k \in Index /\ m \in Index /\ Lvl(k) /\ data \in Frames
        /\ \A i \in Index \ {k} : Lvl(i) => Tab(i) # Tab(k)
        /\ mem' = [mem EXCEPT ![Tab(k)][m] = e]
    BY <1>4, <2>1, MapLeafMem
  <2>3. e.addr \in Frames
    BY <2>2 DEF NewLeaf, NewPage
  <2> HIDE DEF e
  <2>4. /\ mem'[Root] = mem[Root] /\ Ent(k, m)' = e
        /\ \A i : (Lvl(i)' <=> Lvl(i)) /\ Tab(i)' = Tab(i)
        /\ \A i, j \in Index : Lvl(i) /\ <<i, j>> # <<k, m>> => Ent(i, j)' = Ent(i, j)
    BY <2>2, TableWrite
  <2>5. RootInv'
    BY <2>4 DEF RootInv
  <2>6. LeafInv'
    BY <2>2, <2>3, <2>4, Names DEF LeafInv
  <2> QED
    BY <2>5, <2>6
<1>5. CASE UnmapLeafClear
  <2>1. PICK k, m : k = UnmapIndex /\ m = LeafOf
    OBVIOUS
  <2>2. /\ k \in Index /\ m \in Index /\ Lvl(k)
        /\ \A i \in Index \ {k} : Lvl(i) => Tab(i) # Tab(k)
        /\ mem' = [mem EXCEPT ![Tab(k)][m] = NullPTE]
    BY <1>5, <2>1, UnmapLeafMem
  <2>3. NullPTE.addr = None /\ ~ NullPTE.p
    BY DEF NullPTE
  <2>4. /\ mem'[Root] = mem[Root] /\ Ent(k, m)' = NullPTE
        /\ \A i : (Lvl(i)' <=> Lvl(i)) /\ Tab(i)' = Tab(i)
        /\ \A i, j \in Index : Lvl(i) /\ <<i, j>> # <<k, m>> => Ent(i, j)' = Ent(i, j)
    BY <2>2, TableWrite
  <2>5. RootInv'
    BY <2>4 DEF RootInv
  <2>6. LeafInv'
    BY <2>2, <2>3, <2>4 DEF LeafInv
  <2> QED
    BY <2>5, <2>6
<1>6. CASE UnmapClear
  <2>1. PICK k : k = UnmapIndex
    OBVIOUS
  <2>2. /\ k \in Index \ {1} /\ mem' = [mem EXCEPT ![Root][k] = NewPage(None, TRUE, FALSE, FALSE)]
        /\ ~ Lvl(k)' /\ ~ mem'[Root][k].p /\ Tab(k)' = None
    BY <1>6, <2>1, UnmapClearMem
  <2>6. /\ \A i \in Index \ {k} : /\ mem'[Root][i] = mem[Root][i]
                                  /\ (Lvl(i)' <=> Lvl(i)) /\ Tab(i)' = Tab(i)
        /\ \A i \in Index \ {k}, j \in Index : Lvl(i) => Ent(i, j)' = Ent(i, j)
    BY <2>2, DirWrite
  <2>3. RootInv'
    BY <2>2, <2>6, OneIndex DEF RootInv
  <2>4. LeafInv'
    BY <2>2, <2>6 DEF LeafInv
  <2> QED
    BY <2>3, <2>4
<1> QED
  BY <1>1, <1>2, <1>3, <1>4, <1>5, <1>6, Kinds DEF TlbFill

-----------------------------------------------------------------------------
(***************************************************************************)
(* Types.                                                                  *)
(***************************************************************************)

(* Writing an entry keeps the type of the memory.                          *)
LEMMA SetEntryType ==
  ASSUME TypeOK, NEW t \in Frames \cup {Root, LowTable}, NEW i, NEW v, NEW e \in PTEntry,
         SetEntry(t, i, v, e)
  PROVE  /\ mem' \in [Frames \cup {Root, LowTable} -> [Index -> PTEntry]]
         /\ tlb' \in [VPages -> Translations]
<1>1. mem \in [Frames \cup {Root, LowTable} -> [Index -> PTEntry]] /\ tlb \in [VPages -> Translations]
  BY DEF TypeOK
<1>2. mem' = [mem EXCEPT ![t] = [mem[t] EXCEPT ![i] = e]]
  BY DEF SetEntry
<1>3. [mem[t] EXCEPT ![i] = e] \in [Index -> PTEntry]
  BY <1>1
<1> QED
  BY <1>1, <1>2, <1>3 DEF SetEntry, FlushTlb, Translations

(* TypeOK is preserved.                                                    *)
LEMMA TypeStep ==
  ASSUME Inv, [Next]_vars
  PROVE  TypeOK'
<1> USE DEF TypeOK, Labels, Goto, cursor
<1>0. TypeOK
  BY DEF Inv
<1>a. \A v \in VPages : Walk(v) \in Translations
  BY WalkCases DEF Inv
<1>1. CASE UNCHANGED vars
  BY <1>0, <1>1 DEF vars
<1>2. ASSUME NEW r \in MapRanges, NEW fl \in Flags, MapAlloc(r[1], r[2], fl)
      PROVE  TypeOK'
  <2>1. r[1] \in Nat /\ r[2] \in Nat /\ fl \subseteq {"PRESENT", "GLOBAL"}
    BY ConstantsAssumption
  <2>2. /\ call'.kind = "map" /\ call'.vaddr = r[1] /\ call'.size = r[2] /\ call'.flags = fl
        /\ call'.before = [u \in VPages |-> Walk(u)] /\ call'.lost = dropped
    BY <1>2 DEF MapAlloc, Enter
  <2>3. call'.before \in [VPages -> Translations]
    BY <1>a, <2>2
  <2> QED
    BY <1>0, <1>2, <2>1, <2>2, <2>3 DEF MapAlloc
<1>3. ASSUME NEW r \in UnmapRanges, UnmapFree(r[1], r[2])
      PROVE  TypeOK'
  <2>1. r[1] \in Nat /\ r[2] \in Nat
    BY ConstantsAssumption
  <2>2. /\ call'.kind = "unmap" /\ call'.vaddr = r[1] /\ call'.size = r[2] /\ call'.flags = {}
        /\ call'.before = [u \in VPages |-> Walk(u)] /\ call'.lost = dropped
    BY <1>3 DEF UnmapFree, Enter
  <2>3. call'.before \in [VPages -> Translations]
    BY <1>a, <2>2
  <2>4. page' \in Nat
    BY <1>3, <2>1, AlignDownOf DEF UnmapFree
  <2> QED
    BY <1>0, <1>3, <2>1, <2>2, <2>3, <2>4 DEF UnmapFree
<1>4. CASE MapDone \/ MapPanics
  BY <1>0, <1>4 DEF MapDone, MapPanics, Panic
<1>5. ASSUME NEW f \in Frames, MapTake(f)
      PROVE  TypeOK'
  BY <1>0, <1>5 DEF MapTake
<1>6. CASE MapOver \/ MapNoLevel \/ MapLinkFails
  <2>1. data \in Frames /\ (pc = "link" => sub \in Frames)
    BY <1>6 DEF Inv, MapPlace, MapOver, MapNoLevel, MapLinkFails
  <2> QED
    BY <1>0, <1>6, <2>1 DEF MapOver, MapNoLevel, MapLinkFails, Fail
<1>7. CASE MapDescend
  <2>1. DirEntry(VAddr).addr \in Frames \cup {LowTable}
    BY <1>7, MapIn DEF MapDescend, Inv, RootInv, Lvl, Tab, DirEntry, MapIndex
  <2> QED
    BY <1>0, <1>7, <2>1 DEF MapDescend
<1>8. ASSUME NEW f \in Frames, NewSublevel(f)
      PROVE  TypeOK'
  <2>1. [i \in Index |-> NullPTE] \in [Index -> PTEntry]
    BY DEF PTEntry, NullPTE, Translations
  <2>2. mem' \in [Frames \cup {Root, LowTable} -> [Index -> PTEntry]]
    BY <1>0, <1>8, <2>1 DEF NewSublevel, NewTable
  <2> QED
    BY <1>0, <1>8, <2>2 DEF NewSublevel
<1>9. CASE MapLink
  <2>1. sub \in Frames
    BY <1>9 DEF Inv, MapPlace, MapLink
  <2>2. NewPageTable(sub) \in PTEntry
    BY <2>1 DEF PTEntry, NewPageTable, Translations
  <2>3. /\ mem' \in [Frames \cup {Root, LowTable} -> [Index -> PTEntry]]
        /\ tlb' \in [VPages -> Translations]
    BY <1>0, <1>9, <2>2, SetEntryType DEF MapLink
  <2> QED
    BY <1>0, <1>9, <2>3 DEF MapLink
<1>10. CASE MapLeaf
  <2>1. PICK k, m : k = MapIndex /\ m = VAddr % Region
    OBVIOUS
  <2>2. k \in Index /\ m \in Index /\ Lvl(k) /\ sub = Tab(k) /\ data \in Frames
    BY <1>10, <2>1, MapLeafMem
  <2>3. sub \in Frames \cup {LowTable}
    BY <2>2 DEF Inv, RootInv
  <2>5. NewLeaf \in PTEntry
    <3>1. ("PRESENT" \in call.flags) \in BOOLEAN /\ ("GLOBAL" \in call.flags) \in BOOLEAN
      OBVIOUS
    <3> QED
      BY <2>2, <3>1, Zenon DEF PTEntry, NewLeaf, NewPage, Translations
  <2>6. /\ mem' \in [Frames \cup {Root, LowTable} -> [Index -> PTEntry]]
        /\ tlb' \in [VPages -> Translations]
    BY <1>0, <1>10, <2>3, <2>5, SetEntryType DEF MapLeaf
  <2> QED
    BY <1>0, <1>10, <2>6 DEF MapLeaf
<1>b. CASE UnmapLarge
  <2>1. free' \subseteq Frames
    BY <1>0, <1>b, ConstantsAssumption DEF UnmapLarge
  <2> QED
    BY <1>0, <1>b, <2>1 DEF UnmapLarge, Fail
<1>11. CASE UnmapDone \/ UnmapSkip \/ UnmapPartOfLarge \/ UnmapLeafSkip \/ UnmapKeep
  <2>1. page + Region \in Nat /\ lpage + 1 \in Nat
    BY <1>0, Sizes
  <2> QED
    BY <1>0, <1>11, <2>1 DEF UnmapDone, UnmapSkip, UnmapPartOfLarge, UnmapLeafSkip,
       UnmapKeep, NextPage, Fail
<1>12. CASE UnmapDescend
  <2>1. page < AlignUp(End) /\ pc = "unmap"
    BY <1>12 DEF UnmapDescend
  <2>2. UnmapIndex \in Index /\ SubStart \in Nat
    BY <1>0, <2>1, UnmapIn DEF Inv
  <2>3. DirEntry(page).addr \in Frames \cup {LowTable}
    BY <1>12, <2>2 DEF UnmapDescend, Inv, RootInv, Lvl, Tab, DirEntry, UnmapIndex
  <2> QED
    BY <1>0, <1>12, <2>2, <2>3 DEF UnmapDescend
<1>13. CASE UnmapLeafFree
  <2>1. free' \subseteq Frames /\ dropped' \subseteq Frames
    BY <1>0, <1>13, ConstantsAssumption DEF UnmapLeafFree, Accepted
  <2> QED
    BY <1>0, <1>13, <2>1 DEF UnmapLeafFree
<1>14. CASE UnmapLeafClear
  <2>1. sub \in Frames \cup {LowTable}
    BY <1>14, UnmapLeafMem DEF UnmapLeafClear, Inv, UnmapPlace, RootInv
  <2>2. NewPage(None, FALSE, FALSE, FALSE) \in PTEntry
    BY DEF PTEntry, NewPage, Translations
  <2>3. /\ mem' \in [Frames \cup {Root, LowTable} -> [Index -> PTEntry]]
        /\ tlb' \in [VPages -> Translations]
    BY <1>0, <1>14, <2>1, <2>2, SetEntryType DEF UnmapLeafClear
  <2> QED
    BY <1>0, <1>14, <2>3 DEF UnmapLeafClear
<1>15. CASE FreeSublevel
  BY <1>0, <1>15 DEF FreeSublevel
<1>16. CASE UnmapClear
  <2>1. NewPage(None, TRUE, FALSE, FALSE) \in PTEntry
    BY DEF PTEntry, NewPage, Translations
  <2>2. /\ mem' \in [Frames \cup {Root, LowTable} -> [Index -> PTEntry]]
        /\ tlb' \in [VPages -> Translations]
    BY <1>0, <1>16, <2>1, SetEntryType DEF UnmapClear, ClearedDir
  <2>3. page + Region \in Nat
    BY <1>0, Sizes
  <2> QED
    BY <1>0, <1>16, <2>2, <2>3 DEF UnmapClear, NextPage
<1>17. CASE Return
  <2>1. [v \in VPages |-> None] \in [VPages -> Translations]
    BY DEF Translations
  <2> QED
    BY <1>0, <1>17, <2>1 DEF Return, Idle
<1>18. ASSUME NEW v \in Touched, TlbFill(v)
       PROVE  TypeOK'
  <2>1. tlb' \in [VPages -> Translations]
    BY <1>0, <1>18, <1>a, ConstantsAssumption DEF TlbFill
  <2> QED
    BY <1>0, <1>18, <2>1 DEF TlbFill
<1> HIDE DEF TypeOK
<1> QED
  BY <1>1, <1>2, <1>3, <1>4, <1>5, <1>6, <1>7, <1>8, <1>9, <1>10, <1>11, <1>12, <1>13, <1>14,
     <1>15, <1>16, <1>17, <1>18, <1>b DEF Next, Step

-----------------------------------------------------------------------------
(***************************************************************************)
(* How the translations change: by a write to a table, those of one page.  *)
(***************************************************************************)

(* The walk of a page after a step.                                        *)
LEMMA WalkCasesNext ==
  ASSUME Inv, [Next]_vars, NEW v \in VPages
  PROVE  LET i == v \div Region
             j == v % Region
         IN  /\ i = 1 => Walk(v)' = v
             /\ i # 1 /\ ~ Lvl(i)' => Walk(v)' = None
             /\ Lvl(i)' => Walk(v)' = IF Ent(i, j).p' THEN Ent(i, j).addr' ELSE None
<1>1. TypeOK' /\ RootInv' /\ LeafInv'
  BY TypeStep, TablesStep
<1>2. (TypeOK /\ RootInv /\ LeafInv =>
         LET i == v \div Region
             j == v % Region
         IN  /\ i = 1 => Walk(v) = v
             /\ i # 1 /\ ~ Lvl(i) => Walk(v) = None
             /\ Lvl(i) => Walk(v) = IF Ent(i, j).p THEN Ent(i, j).addr ELSE None)'
  BY WalkCases, PTL
<1> QED
  BY <1>1, <1>2

(* All steps but two leave every translation alone.                        *)
LEMMA WalkSame ==
  ASSUME Inv, [Next]_vars, ~ MapLeaf, ~ UnmapLeafClear
  PROVE  \A v \in VPages : Walk(v)' = Walk(v)
<1>1. CASE UNCHANGED mem
  BY <1>1, MemSame
<1> SUFFICES ASSUME mem' # mem, NEW v \in VPages
             PROVE  Walk(v)' = Walk(v)
  BY <1>1
<1>2. PICK i, j : i = v \div Region /\ j = v % Region
  OBVIOUS
<1>3. /\ i \in Index /\ j \in Index
      /\ i = 1 => Walk(v) = v
      /\ i # 1 /\ ~ Lvl(i) => Walk(v) = None
      /\ Lvl(i) => Walk(v) = IF Ent(i, j).p THEN Ent(i, j).addr ELSE None
  BY <1>2, WalkCases DEF Inv
<1>4. /\ i = 1 => Walk(v)' = v
      /\ i # 1 /\ ~ Lvl(i)' => Walk(v)' = None
      /\ Lvl(i)' => Walk(v)' = IF Ent(i, j).p' THEN Ent(i, j).addr' ELSE None
  BY <1>2, WalkCasesNext
<1>5. ASSUME NEW f \in Frames, NewSublevel(f)
      PROVE  Walk(v)' = Walk(v)
  <2>1. (Lvl(i)' <=> Lvl(i)) /\ (Lvl(i) => Ent(i, j)' = Ent(i, j))
    BY <1>3, <1>5, NewSublevelMem
  <2> QED
    BY <1>3, <1>4, <2>1
<1>6. CASE MapLink
  <2>1. PICK k : k = MapIndex
    OBVIOUS
  <2>2. /\ k \in Index \ {1} /\ ~ Lvl(k) /\ sub \in Frames
        /\ mem' = [mem EXCEPT ![Root][k] = NewPageTable(sub)]
        /\ Lvl(k)' /\ \A l \in Index : Ent(k, l)' = NullPTE
    BY <1>6, <2>1, MapLinkMem
  <2>3. CASE i = k
    <3>1. ~ Ent(i, j).p'
      BY <1>3, <2>2, <2>3 DEF NullPTE
    <3> QED
      BY <1>3, <1>4, <2>2, <2>3, <3>1
  <2>4. CASE i # k
    <3>1. (Lvl(i)' <=> Lvl(i)) /\ (Lvl(i) => Ent(i, j)' = Ent(i, j))
      BY <1>3, <2>2, <2>4, DirWrite
    <3> QED
      BY <1>3, <1>4, <3>1
  <2> QED
    BY <2>3, <2>4
<1>7. CASE UnmapClear
  <2>1. PICK k : k = UnmapIndex
    OBVIOUS
  <2>2. /\ k \in Index \ {1} /\ Lvl(k) /\ \A l \in Index : ~ Ent(k, l).p
        /\ mem' = [mem EXCEPT ![Root][k] = NewPage(None, TRUE, FALSE, FALSE)] /\ ~ Lvl(k)'
    BY <1>7, <2>1, UnmapClearMem
  <2>3. CASE i = k
    BY <1>3, <1>4, <2>2, <2>3
  <2>4. CASE i # k
    <3>1. (Lvl(i)' <=> Lvl(i)) /\ (Lvl(i) => Ent(i, j)' = Ent(i, j))
      BY <1>3, <2>2, <2>4, DirWrite
    <3> QED
      BY <1>3, <1>4, <3>1
  <2> QED
    BY <2>3, <2>4
<1> QED
  BY <1>5, <1>6, <1>7, Kinds DEF TlbFill

(* A write to a table changes the translation of its page.                 *)
LEMMA WalkTableWrite ==
  ASSUME Inv, [Next]_vars, NEW w \in VPages, NEW e,
         LET k == w \div Region
             m == w % Region
         IN  /\ Lvl(k) /\ \A i \in Index \ {k} : Lvl(i) => Tab(i) # Tab(k)
             /\ mem' = [mem EXCEPT ![Tab(k)][m] = e]
  PROVE  /\ w \div Region # 1
         /\ Walk(w)' = IF e.p THEN e.addr ELSE None
         /\ \A v \in VPages \ {w} : Walk(v)' = Walk(v)
<1>1. PICK k, m : k = w \div Region /\ m = w % Region
  OBVIOUS
<1>2. k \in Index /\ m \in Index /\ Lvl(k) /\ k # 1
  BY <1>1, WalkCases DEF Inv
<1>3. /\ \A i : Lvl(i)' <=> Lvl(i)
      /\ Ent(k, m)' = e
      /\ \A i, j \in Index : Lvl(i) /\ <<i, j>> # <<k, m>> => Ent(i, j)' = Ent(i, j)
  <2>1. /\ \A i \in Index \ {k} : Lvl(i) => Tab(i) # Tab(k)
        /\ mem' = [mem EXCEPT ![Tab(k)][m] = e]
    BY <1>1
  <2> QED
    BY <1>2, <2>1, TableWrite
<1>4. Walk(w)' = IF e.p THEN e.addr ELSE None
  <2>1. Walk(w)' = IF Ent(k, m).p' THEN Ent(k, m).addr' ELSE None
    BY <1>1, <1>2, <1>3, WalkCasesNext
  <2> QED
    BY <1>3, <2>1
<1>5. ASSUME NEW v \in VPages \ {w}
      PROVE  Walk(v)' = Walk(v)
  <2>1. PICK i, j : i = v \div Region /\ j = v % Region
    OBVIOUS
  <2>2. /\ i \in Index /\ j \in Index
        /\ i = 1 => Walk(v) = v
        /\ i # 1 /\ ~ Lvl(i) => Walk(v) = None
        /\ Lvl(i) => Walk(v) = IF Ent(i, j).p THEN Ent(i, j).addr ELSE None
    BY <2>1, WalkCases DEF Inv
  <2>3. /\ i = 1 => Walk(v)' = v
        /\ i # 1 /\ ~ Lvl(i)' => Walk(v)' = None
        /\ Lvl(i)' => Walk(v)' = IF Ent(i, j).p' THEN Ent(i, j).addr' ELSE None
    BY <2>1, WalkCasesNext
  <2>4. <<i, j>> # <<k, m>>
    <3>1. v \in Nat /\ w \in Nat
      BY PageIndex
    <3> QED
      BY <1>1, <2>1, <3>1, SamePage
  <2>5. Lvl(i) => Ent(i, j)' = Ent(i, j)
    BY <1>3, <2>2, <2>4
  <2> QED
    BY <1>3, <2>2, <2>3, <2>5
<1> QED
  BY <1>1, <1>2, <1>4, <1>5

(* map_page sets the translation of its page.                              *)
LEMMA WalkMapLeaf ==
  ASSUME Inv, MapLeaf, [Next]_vars, NEW w, w = VAddr
  PROVE  /\ w \in VPages /\ w \div Region # 1 /\ data \in Frames
         /\ Walk(w)' = IF "PRESENT" \in call.flags THEN data ELSE None
         /\ \A v \in VPages \ {w} : Walk(v)' = Walk(v)
<1>1. w \in VPages
  BY MapIn DEF Inv, MapLeaf
<1>2. PICK k, m : k = w \div Region /\ m = w % Region
  OBVIOUS
<1>3. /\ Lvl(k) /\ \A i \in Index \ {k} : Lvl(i) => Tab(i) # Tab(k)
      /\ mem' = [mem EXCEPT ![Tab(k)][m] = NewLeaf]
      /\ data \in Frames
  BY <1>2, MapLeafMem DEF MapIndex
<1>4. PICK e : e = NewLeaf
  OBVIOUS
<1>5. e.addr = data /\ e.p = ("PRESENT" \in call.flags)
  BY <1>4 DEF NewLeaf, NewPage
<1>6. /\ w \div Region # 1
      /\ Walk(w)' = IF e.p THEN e.addr ELSE None
      /\ \A v \in VPages \ {w} : Walk(v)' = Walk(v)
  BY <1>1, <1>2, <1>3, <1>4, WalkTableWrite
<1> QED
  BY <1>1, <1>3, <1>5, <1>6

(* Clearing an entry removes the translation of its page.                  *)
LEMMA WalkUnmapLeaf ==
  ASSUME Inv, UnmapLeafClear, [Next]_vars, NEW w, w = lpage
  PROVE  /\ w \in VPages /\ w \div Region # 1
         /\ Walk(w)' = None
         /\ \A v \in VPages \ {w} : Walk(v)' = Walk(v)
<1>1. w \in VPages /\ w \div Region = UnmapIndex
  BY LeafIn DEF Inv, UnmapLeafClear, UnmapPlace
<1>2. PICK k, m : k = w \div Region /\ m = w % Region
  OBVIOUS
<1>3. /\ Lvl(k) /\ \A i \in Index \ {k} : Lvl(i) => Tab(i) # Tab(k)
      /\ mem' = [mem EXCEPT ![Tab(k)][m] = NullPTE]
  BY <1>1, <1>2, UnmapLeafMem DEF LeafOf
<1>4. NullPTE.p = FALSE
  BY DEF NullPTE
<1>5. /\ w \div Region # 1
      /\ Walk(w)' = IF NullPTE.p THEN NullPTE.addr ELSE None
      /\ \A v \in VPages \ {w} : Walk(v)' = Walk(v)
  BY <1>1, <1>2, <1>3, WalkTableWrite
<1> QED
  BY <1>1, <1>4, <1>5

(* The processor never uses a translation the tables do not hold: every    *)
(* write that changes one is followed by its invlpg.                       *)
LEMMA TlbStep ==
  ASSUME Inv, [Next]_vars
  PROVE  TlbCoherent'
<1> USE DEF TlbCoherent
<1>0. /\ tlb \in [VPages -> Translations]
      /\ \A v \in VPages : tlb[v] \in {None, Walk(v)}
  BY DEF Inv, TypeOK
<1>1. CASE MapLeaf
  <2>1. PICK w : w = VAddr
    OBVIOUS
  <2>2. tlb' = [tlb EXCEPT ![w] = None]
    BY <1>1, <2>1 DEF MapLeaf, SetEntry, FlushTlb
  <2> QED
    BY <1>0, <1>1, <2>1, <2>2, WalkMapLeaf
<1>2. CASE UnmapLeafClear
  <2>1. PICK w : w = lpage
    OBVIOUS
  <2>2. tlb' = [tlb EXCEPT ![w] = None]
    BY <1>2, <2>1 DEF UnmapLeafClear, SetEntry, FlushTlb
  <2> QED
    BY <1>0, <1>2, <2>1, <2>2, WalkUnmapLeaf
<1>3. CASE ~ MapLeaf /\ ~ UnmapLeafClear
  <2>1. \A v \in VPages : Walk(v)' = Walk(v)
    BY <1>3, WalkSame
  <2>2. \A v \in VPages : tlb'[v] \in {None, tlb[v], Walk(v)}
    <3>1. CASE UNCHANGED tlb
      BY <3>1
    <3>2. CASE \E v \in Touched : TlbFill(v)
      BY <1>0, <3>2 DEF TlbFill
    <3>3. CASE MapLink
      BY <1>0, <3>3 DEF MapLink, SetEntry, FlushTlb
    <3>4. CASE UnmapClear
      BY <1>0, <3>4 DEF UnmapClear, SetEntry, FlushTlb
    <3> QED
      BY <1>3, <3>1, <3>2, <3>3, <3>4, Kinds DEF NewSublevel
  <2> QED
    BY <1>0, <2>1, <2>2
<1> QED
  BY <1>1, <1>2, <1>3

-----------------------------------------------------------------------------
(***************************************************************************)
(* Where the calls are.                                                    *)
(***************************************************************************)

(* The steps of the unmap_free side leave the places of map_alloc.         *)
LEMMA UnmapSide ==
  ASSUME Inv,
         \/ UnmapDone \/ UnmapSkip \/ UnmapPartOfLarge \/ UnmapLarge \/ UnmapDescend
         \/ UnmapLeafSkip \/ UnmapLeafFree \/ UnmapLeafClear
         \/ UnmapKeep \/ FreeSublevel \/ UnmapClear
  PROVE  /\ call' = call /\ call.kind = "unmap"
         /\ pc \in {"unmap", "unmapleaf", "clearleaf", "cleardir"}
         /\ pc' \in {"unmap", "unmapleaf", "clearleaf", "cleardir", "ok", "err"}
         /\ pc' = "ok" <=> UnmapDone
<1>1. /\ pc \in {"unmap", "unmapleaf", "clearleaf", "cleardir"}
      /\ call' = call
      /\ pc' \in {"unmap", "unmapleaf", "clearleaf", "cleardir", "ok", "err"}
      /\ pc' = "ok" <=> UnmapDone
  BY DEF UnmapDone, UnmapSkip, UnmapPartOfLarge, UnmapLarge, UnmapDescend, UnmapLeafSkip,
         UnmapLeafFree, UnmapLeafClear, UnmapKeep, FreeSublevel, UnmapClear, Fail, Goto
<1> QED
  BY <1>1 DEF Inv, UnmapPlace

(* And the steps of the map_alloc side those of unmap_free.                *)
LEMMA MapSide ==
  ASSUME Inv,
         \/ MapDone \/ MapPanics \/ MapOver \/ MapDescend \/ MapNoLevel
         \/ \E f \in Frames : MapTake(f) \/ NewSublevel(f)
         \/ MapLinkFails \/ MapLink \/ MapLeaf
  PROVE  /\ call' = call /\ call.kind = "map"
         /\ pc \in {"map", "dir", "link", "leaf"}
         /\ pc' \in {"map", "dir", "link", "leaf", "ok", "err", "panic"}
         /\ page' = page \/ MapLeaf
<1>1. /\ pc \in {"map", "dir", "link", "leaf"}
      /\ call' = call
      /\ pc' \in {"map", "dir", "link", "leaf", "ok", "err", "panic"}
      /\ page' = page \/ MapLeaf
  BY DEF MapDone, MapPanics, MapOver, MapDescend, MapNoLevel, MapTake, NewSublevel,
         MapLinkFails, MapLink, MapLeaf, Fail, Goto, Panic, cursor
<1> QED
  BY <1>1 DEF Inv, MapPlace

(* MapPlace is preserved.                                                  *)
LEMMA MapPlaceStep ==
  ASSUME Inv, [Next]_vars
  PROVE  MapPlace'
<1>0. TypeOK /\ MapPlace
  BY DEF Inv
<1>t. page \in Nat /\ call.size \in Nat /\ call.vaddr \in Nat
  BY <1>0 DEF TypeOK
<1>1. CASE UNCHANGED vars \/ \E v \in Touched : TlbFill(v)
  <2>1. UNCHANGED <<mem, call, pc, page, data, sub>>
    BY <1>1 DEF vars, TlbFill, cursor
  <2> QED
    BY <1>0, <2>1 DEF MapPlace, VAddr, MapIndex, Lvl, Tab
<1>2. ASSUME NEW r \in MapRanges, NEW fl \in Flags, MapAlloc(r[1], r[2], fl)
      PROVE  MapPlace'
  <2>1. r[2] \in Nat
    BY ConstantsAssumption
  <2>2. call'.kind = "map" /\ call'.size = r[2] /\ pc' = "map" /\ page' = 0
    BY <1>2 DEF MapAlloc, Enter, Goto
  <2> QED
    BY <2>1, <2>2 DEF MapPlace
<1>3. ASSUME NEW r \in UnmapRanges, UnmapFree(r[1], r[2])
      PROVE  MapPlace'
  <2>1. pc' \in {"unmap", "panic"}
    BY <1>3 DEF UnmapFree, Goto
  <2> QED
    BY <2>1 DEF MapPlace
<1>4. CASE MapDone \/ MapPanics
  BY <1>0, <1>4 DEF MapDone, MapPanics, Panic, Goto, cursor, MapPlace
<1>5. ASSUME NEW f \in Frames, MapTake(f)
      PROVE  MapPlace'
  <2>1. /\ pc' = "dir" /\ page' = page /\ call' = call /\ data' = f
        /\ call.kind = "map" /\ page < call.size /\ call.vaddr + page < Limit
    BY <1>0, <1>5 DEF MapTake, Goto, MapPlace
  <2>2. VAddr' \in VPages
    BY <1>t, <2>1, Sizes DEF VAddr
  <2> QED
    BY <1>t, <2>1, <2>2 DEF MapPlace
<1>6. CASE MapOver \/ MapNoLevel \/ MapLinkFails
  <2>1. pc' = "err"
    BY <1>6 DEF MapOver, MapNoLevel, MapLinkFails, Fail, Goto
  <2> QED
    BY <2>1 DEF MapPlace
<1>7. CASE MapDescend
  <2>1. /\ pc = "dir" /\ pc' = "leaf" /\ UNCHANGED <<mem, call, page, data>>
        /\ Lvl(MapIndex) /\ sub' = Tab(MapIndex)
    BY <1>7 DEF MapDescend, Goto, Lvl, Tab, DirEntry, MapIndex
  <2>2. VAddr' = VAddr /\ MapIndex' = MapIndex
    BY <2>1 DEF VAddr, MapIndex
  <2>3. Lvl(MapIndex)' /\ sub' = Tab(MapIndex)'
    BY <2>1, <2>2 DEF Lvl, Tab
  <2> QED
    BY <1>0, <2>1, <2>2, <2>3 DEF MapPlace
<1>8. ASSUME NEW f \in Frames, NewSublevel(f)
      PROVE  MapPlace'
  <2>1. /\ pc = "dir" /\ pc' = "link" /\ UNCHANGED <<call, page, data>> /\ sub' = f
        /\ mem' = [mem EXCEPT ![f] = [i \in Index |-> NullPTE]]
        /\ ~ mem[Root][MapIndex].p
    BY <1>8 DEF NewSublevel, Goto, NewTable, DirEntry, MapIndex
  <2>2. VAddr' = VAddr /\ MapIndex' = MapIndex
    BY <2>1 DEF VAddr, MapIndex
  <2>3. mem'[Root] = mem[Root] /\ mem'[f] = [i \in Index |-> NullPTE]
    BY <1>0, <2>1, Names DEF TypeOK
  <2> QED
    BY <1>0, <2>1, <2>2, <2>3 DEF MapPlace
<1>9. CASE MapLink
  <2>1. PICK k : k = MapIndex
    OBVIOUS
  <2>2. pc = "link" /\ pc' = "leaf" /\ UNCHANGED <<call, page, data, sub>>
    BY <1>9 DEF MapLink, Goto, cursor
  <2>3. VAddr' = VAddr /\ MapIndex' = k
    BY <2>1, <2>2 DEF VAddr, MapIndex
  <2>4. Lvl(k)' /\ sub' = Tab(k)'
    BY <1>9, <2>1, <2>2, MapLinkMem
  <2>5. Lvl(MapIndex)' /\ sub' = Tab(MapIndex)'
    BY <2>3, <2>4 DEF Lvl, Tab
  <2> QED
    BY <1>0, <2>2, <2>3, <2>5 DEF MapPlace
<1>10. CASE MapLeaf
  <2>1. /\ pc = "leaf" /\ pc' = "map" /\ call' = call /\ page' = page + 1
        /\ page < call.size /\ call.kind = "map"
    BY <1>0, <1>10 DEF MapLeaf, Goto, MapPlace
  <2> QED
    BY <1>t, <2>1 DEF MapPlace
<1>11. CASE \/ UnmapDone \/ UnmapSkip \/ UnmapPartOfLarge \/ UnmapLarge \/ UnmapDescend
            \/ UnmapLeafSkip \/ UnmapLeafFree \/ UnmapLeafClear
            \/ UnmapKeep \/ FreeSublevel \/ UnmapClear
  <2>1. /\ call'.kind = "unmap"
        /\ pc' \in {"unmap", "unmapleaf", "clearleaf", "cleardir", "ok", "err"}
    BY <1>11, UnmapSide
  <2> QED
    BY <2>1 DEF MapPlace
<1>12. CASE Return
  BY <1>12 DEF Return, Goto, MapPlace
<1> QED
  BY <1>1, <1>2, <1>3, <1>4, <1>5, <1>6, <1>7, <1>8, <1>9, <1>10, <1>11, <1>12 DEF Next, Step

(* The table that unmap_free empties stays the table of its region.        *)
LEMMA UnmapHere ==
  ASSUME UNCHANGED <<call, page>>
  PROVE  /\ End' = End /\ UnmapIndex' = UnmapIndex /\ AlignUp(End)' = AlignUp(End)
         /\ SubStart' = SubStart /\ SubEnd' = SubEnd /\ Partial' = Partial
  BY DEF End, UnmapIndex, AlignUp, AlignDown, SubStart, SubEnd, Partial

(* UnmapPlace is preserved.                                                *)
LEMMA UnmapPlaceStep ==
  ASSUME Inv, [Next]_vars
  PROVE  UnmapPlace'
<1>0. TypeOK /\ UnmapPlace
  BY DEF Inv
<1>t. /\ page \in Nat /\ lpage \in Nat /\ call.size \in Nat /\ call.vaddr \in Nat
      /\ End \in Nat /\ Region \in Nat \ {0} /\ Limit \in Nat
  BY <1>0, Sizes DEF TypeOK, End
<1>1. CASE UNCHANGED vars \/ \E v \in Touched : TlbFill(v)
  <2>1. UNCHANGED <<mem, call, pc, page, lpage, sub>>
    BY <1>1 DEF vars, TlbFill, cursor
  <2>2. UnmapPlace' <=> UnmapPlace
    BY <2>1, UnmapHere DEF UnmapPlace, Lvl, Tab, Ent
  <2> QED
    BY <1>0, <2>2
<1>2. ASSUME NEW r \in MapRanges, NEW fl \in Flags, MapAlloc(r[1], r[2], fl)
      PROVE  UnmapPlace'
  <2>1. pc' = "map"
    BY <1>2 DEF MapAlloc, Goto
  <2> QED
    BY <2>1 DEF UnmapPlace
<1>3. ASSUME NEW r \in UnmapRanges, UnmapFree(r[1], r[2])
      PROVE  UnmapPlace'
  <2>1. r[1] \in Nat /\ r[2] \in Nat
    BY ConstantsAssumption
  <2>2. /\ call'.kind = "unmap" /\ call'.vaddr = r[1] /\ call'.size = r[2]
        /\ pc' = (IF r[1] + r[2] + Region > Limit THEN "panic" ELSE "unmap")
        /\ page' = AlignDown(r[1])
    BY <1>3 DEF UnmapFree, Enter, Goto
  <2>3. page' % Region = 0 /\ call'.vaddr < page' + Region
    BY <2>1, <2>2, AlignDownOf
  <2>4. pc' = "unmap" => End' + Region <= Limit
    BY <1>t, <2>1, <2>2 DEF End
  <2>5. pc' \in {"unmap", "panic"}
    BY <2>2
  <2> QED
    BY <2>2, <2>3, <2>4, <2>5 DEF UnmapPlace
<1>4. CASE \/ MapDone \/ MapPanics \/ MapOver \/ MapDescend \/ MapNoLevel
           \/ \E f \in Frames : MapTake(f) \/ NewSublevel(f)
           \/ MapLinkFails \/ MapLink \/ MapLeaf
  <2>1. /\ call'.kind = "map"
        /\ pc' \in {"map", "dir", "link", "leaf", "ok", "err", "panic"}
    BY <1>4, MapSide
  <2> QED
    BY <2>1 DEF UnmapPlace
<1>5. CASE UnmapDone
  <2>1. pc' = "ok" /\ UNCHANGED <<call, page>> /\ page >= AlignUp(End)
    BY <1>5 DEF UnmapDone, Goto, cursor
  <2>2. End' <= page'
    BY <1>t, <2>1, AlignUpOf, UnmapHere
  <2> QED
    BY <2>1, <2>2 DEF UnmapPlace
<1>6. CASE UnmapPartOfLarge \/ UnmapLarge
  <2>1. pc' = "err"
    BY <1>6 DEF UnmapPartOfLarge, UnmapLarge, Fail, Goto
  <2> QED
    BY <2>1 DEF UnmapPlace
<1>7. CASE UnmapSkip \/ UnmapKeep \/ UnmapClear
  <2>1. /\ pc \in {"unmap", "unmapleaf", "cleardir"} /\ pc' = "unmap"
        /\ call' = call /\ page' = page + Region
    BY <1>7 DEF UnmapSkip, UnmapKeep, UnmapClear, NextPage, Goto
  <2>2. /\ call.kind = "unmap" /\ End + Region <= Limit
        /\ page % Region = 0 /\ call.vaddr < page + Region
    BY <1>0, <2>1 DEF UnmapPlace
  <2>3. page' % Region = 0
    BY <1>t, <2>1, <2>2, AlignedGap
  <2>4. call'.vaddr < page' + Region /\ End' = End
    BY <1>t, <2>1, <2>2 DEF End
  <2> QED
    BY <2>1, <2>2, <2>3, <2>4 DEF UnmapPlace
<1>8. CASE UnmapDescend
  <2>1. /\ pc = "unmap" /\ pc' = "unmapleaf" /\ UNCHANGED <<mem, call, page>>
        /\ page < AlignUp(End) /\ lpage' = SubStart
        /\ Lvl(UnmapIndex) /\ sub' = Tab(UnmapIndex)
    BY <1>8 DEF UnmapDescend, Goto, Lvl, Tab, DirEntry, UnmapIndex
  <2>2. SubStart <= SubEnd /\ SubStart \in Nat
    BY <1>0, <2>1, UnmapIn
  <2>3. Lvl(UnmapIndex)' /\ sub' = Tab(UnmapIndex)'
    BY <2>1 DEF Lvl, Tab, UnmapIndex
  <2>4. SubStart' <= lpage' /\ lpage' <= SubEnd'
    BY <2>1, <2>2, UnmapHere
  <2> QED
    BY <1>0, <2>1, <2>3, <2>4, UnmapHere DEF UnmapPlace
<1>9. CASE UnmapLeafSkip
  <2>1. /\ pc = "unmapleaf" /\ pc' = pc /\ UNCHANGED <<mem, call, page, sub>>
        /\ lpage < SubEnd /\ lpage' = lpage + 1
    BY <1>9 DEF UnmapLeafSkip
  <2>2. page < AlignUp(End) /\ SubStart <= lpage
    BY <1>0, <2>1 DEF UnmapPlace
  <2>3. SubStart' <= lpage' /\ lpage' <= SubEnd'
    BY <1>0, <1>t, <2>1, <2>2, UnmapHere, UnmapIn
  <2>4. Lvl(UnmapIndex)' /\ sub' = Tab(UnmapIndex)'
    BY <1>0, <2>1 DEF Lvl, Tab, UnmapIndex, UnmapPlace
  <2> QED
    BY <1>0, <2>1, <2>2, <2>3, <2>4, UnmapHere DEF UnmapPlace
<1>10. CASE UnmapLeafFree
  <2>1. /\ pc = "unmapleaf" /\ pc' = "clearleaf" /\ UNCHANGED <<mem, call, page, lpage, sub>>
        /\ lpage < SubEnd
    BY <1>10 DEF UnmapLeafFree, Goto, cursor
  <2>2. Lvl(UnmapIndex)' /\ sub' = Tab(UnmapIndex)'
    BY <1>0, <2>1 DEF Lvl, Tab, UnmapIndex, UnmapPlace
  <2> QED
    BY <1>0, <2>1, <2>2, UnmapHere DEF UnmapPlace
<1>11. CASE UnmapLeafClear
  <2>0. PICK k, m : k = UnmapIndex /\ m = LeafOf
    OBVIOUS
  <2>1. /\ pc = "clearleaf" /\ pc' = "unmapleaf" /\ UNCHANGED <<call, page, sub>>
        /\ lpage' = lpage + 1
    BY <1>11 DEF UnmapLeafClear, Goto
  <2>2. lpage < SubEnd /\ page < AlignUp(End) /\ SubStart <= lpage
    BY <1>0, <2>1 DEF UnmapPlace
  <2>3. SubStart' <= lpage' /\ lpage' <= SubEnd'
    BY <1>0, <1>t, <2>1, <2>2, UnmapHere, UnmapIn
  <2>4. Lvl(k)' /\ sub' = Tab(k)'
    <3>1. /\ k \in Index /\ m \in Index /\ Lvl(k)
          /\ \A i \in Index \ {k} : Lvl(i) => Tab(i) # Tab(k)
          /\ mem' = [mem EXCEPT ![Tab(k)][m] = NullPTE]
      BY <1>11, <2>0, UnmapLeafMem
    <3>2. (Lvl(k)' <=> Lvl(k)) /\ Tab(k)' = Tab(k)
      BY <3>1, TableWrite
    <3>3. sub = Tab(k)
      BY <1>0, <2>0, <2>1 DEF UnmapPlace
    <3> QED
      BY <2>1, <3>1, <3>2, <3>3
  <2>5. UnmapIndex' = k
    BY <2>0, <2>1, UnmapHere
  <2>6. Lvl(UnmapIndex)' /\ sub' = Tab(UnmapIndex)'
    BY <2>4, <2>5 DEF Lvl, Tab
  <2> QED
    BY <1>0, <2>1, <2>2, <2>3, <2>6, UnmapHere DEF UnmapPlace
<1>12. CASE FreeSublevel
  <2>1. /\ pc = "unmapleaf" /\ pc' = "cleardir" /\ UNCHANGED <<mem, call, page, lpage, sub>>
        /\ lpage >= SubEnd /\ ~ (Partial /\ SubMapped)
    BY <1>12 DEF FreeSublevel, Goto, cursor
  <2>2. Lvl(UnmapIndex) /\ sub = Tab(UnmapIndex) /\ page < AlignUp(End)
    BY <1>0, <2>1 DEF UnmapPlace
  <2>3. UnmapIndex \in Index
    BY <1>0, <2>1, <2>2, UnmapIn
  <2>4. \A j \in Index : ~ Ent(UnmapIndex, j).p
    <3>1. CASE ~ SubMapped
      BY <2>2, <3>1 DEF SubMapped, Mapped, Ent
    <3>2. CASE ~ Partial
      <4> SUFFICES ASSUME NEW j \in Index, Ent(UnmapIndex, j).p PROVE FALSE
        OBVIOUS
      <4>1. PICK v \in VPages : v \div Region = UnmapIndex /\ v % Region = j
        BY <2>3, PageAt
      <4>2. v \in Nat /\ page <= v /\ v < page + Region
        BY <1>0, <2>1, <4>1, PageIndex, InUnmapRegion
      <4>3. SubStart <= v /\ v < lpage
        BY <1>t, <2>1, <3>2, <4>2 DEF SubStart, SubEnd, Partial
      <4>4. Walk(v) = None
        BY <2>1, <4>3 DEF Inv, UnmappedSoFar
      <4>5. Walk(v) = Ent(UnmapIndex, j).addr
        BY <2>2, <4>1, WalkCases DEF Inv
      <4>6. Ent(UnmapIndex, j).addr # None
        BY <2>2, <2>3 DEF Inv, LeafInv
      <4> QED
        BY <4>4, <4>5, <4>6
    <3> QED
      BY <2>1, <3>1, <3>2
  <2>5. UnmapIndex' = UnmapIndex
    BY <2>1, UnmapHere
  <2>6. /\ Lvl(UnmapIndex)' /\ sub' = Tab(UnmapIndex)'
        /\ \A j \in Index : ~ Ent(UnmapIndex, j).p'
    BY <2>1, <2>2, <2>4, <2>5 DEF Lvl, Tab, Ent
  <2> QED
    BY <1>0, <2>1, <2>6, UnmapHere DEF UnmapPlace
<1>13. CASE Return
  BY <1>13 DEF Return, Goto, UnmapPlace
<1> QED
  BY <1>1, <1>2, <1>3, <1>4, <1>5, <1>6, <1>7, <1>8, <1>9, <1>10, <1>11, <1>12, <1>13 DEF Next, Step

-----------------------------------------------------------------------------
(***************************************************************************)
(* What the calls have done so far.                                        *)
(***************************************************************************)

(* MappedSoFar is preserved.                                               *)
LEMMA MappedStep ==
  ASSUME Inv, [Next]_vars
  PROVE  MappedSoFar'
<1>0. TypeOK /\ MappedSoFar
  BY DEF Inv
<1>t. page \in Nat /\ call.vaddr \in Nat
  BY <1>0 DEF TypeOK
<1>1. CASE MapLeaf
  <2>1. PICK w : w = VAddr
    OBVIOUS
  <2>2. /\ w \in VPages /\ data \in Frames
        /\ Walk(w)' = IF "PRESENT" \in call.flags THEN data ELSE None
        /\ \A v \in VPages \ {w} : Walk(v)' = Walk(v)
    BY <1>1, <2>1, WalkMapLeaf
  <2>3. call' = call /\ page' = page + 1 /\ pc = "leaf" /\ call.kind = "map"
    BY <1>1 DEF MapLeaf, Inv, MapPlace
  <2>4. \A v \in VPages : call.vaddr <= v /\ v < call.vaddr + page =>
          IF "PRESENT" \in call.flags THEN Walk(v) \in Frames ELSE Walk(v) = None
    BY <1>0, <2>3 DEF MappedSoFar
  <2>5. ASSUME NEW v \in VPages, call.vaddr <= v, v < call.vaddr + (page + 1)
        PROVE  IF "PRESENT" \in call.flags THEN Walk(v)' \in Frames ELSE Walk(v)' = None
    <3>1. v \in Nat
      BY PageIndex
    <3>2. v < call.vaddr + page \/ v = w
      BY <1>t, <2>1, <2>5, <3>1 DEF VAddr
    <3>3. CASE v = w
      BY <2>2, <3>3
    <3>4. CASE v # w
      BY <2>2, <2>4, <2>5, <3>2, <3>4
    <3> QED
      BY <3>3, <3>4
  <2> QED
    BY <2>3, <2>5 DEF MappedSoFar
<1>2. CASE pc' \notin {"map", "dir", "link", "leaf", "ok"} \/ call'.kind # "map"
  BY <1>2 DEF MappedSoFar
<1>3. CASE /\ call' = call /\ page' = page /\ ~ MapLeaf /\ ~ UnmapLeafClear
           /\ pc \in {"map", "dir", "link", "leaf", "ok"} \/ call.kind # "map"
  <2>1. \A v \in VPages : Walk(v)' = Walk(v)
    BY <1>3, WalkSame
  <2> QED
    BY <1>0, <1>3, <2>1 DEF MappedSoFar
<1>4. ASSUME NEW r \in MapRanges, NEW fl \in Flags, MapAlloc(r[1], r[2], fl)
      PROVE  MappedSoFar'
  <2>1. page' = 0 /\ call'.vaddr = r[1] /\ r[1] \in Nat
    BY <1>4, ConstantsAssumption DEF MapAlloc, Enter
  <2>2. \A v \in VPages : ~ (r[1] <= v /\ v < r[1] + 0)
    BY <2>1, PageIndex
  <2> QED
    BY <2>1, <2>2 DEF MappedSoFar
<1>5. ASSUME NEW r \in UnmapRanges, UnmapFree(r[1], r[2])
      PROVE  MappedSoFar'
  BY <1>2, <1>5 DEF UnmapFree, Enter
<1>6. CASE \/ MapDone \/ MapPanics \/ MapOver \/ MapDescend \/ MapNoLevel
           \/ \E f \in Frames : MapTake(f) \/ NewSublevel(f)
           \/ MapLinkFails \/ MapLink \/ MapLeaf
  <2>1. pc # "clearleaf" /\ call' = call /\ (page' = page \/ MapLeaf) /\ pc \in {"map", "dir", "link", "leaf"}
    BY <1>6, MapSide
  <2> QED
    BY <1>1, <1>3, <2>1 DEF UnmapLeafClear
<1>7. CASE \/ UnmapDone \/ UnmapSkip \/ UnmapPartOfLarge \/ UnmapLarge \/ UnmapDescend
            \/ UnmapLeafSkip \/ UnmapLeafFree \/ UnmapLeafClear
            \/ UnmapKeep \/ FreeSublevel \/ UnmapClear
  <2>1. call'.kind = "unmap"
    BY <1>7, UnmapSide
  <2> QED
    BY <1>2, <2>1
<1>8. CASE Return
  BY <1>2, <1>8 DEF Return, Goto
<1>9. CASE UNCHANGED vars \/ \E v \in Touched : TlbFill(v)
  <2>1. UNCHANGED <<mem, call, page, pc>>
    BY <1>9 DEF vars, TlbFill, cursor
  <2>2. \A v \in VPages : Walk(v)' = Walk(v)
    BY <2>1, MemSame
  <2> QED
    BY <1>0, <2>1, <2>2 DEF MappedSoFar
<1> QED
  BY <1>4, <1>5, <1>6, <1>7, <1>8, <1>9 DEF Next, Step

(* What is asked for and lies in the region is what is asked of the table. *)
LEMMA AskedInRegion ==
  ASSUME TypeOK, UnmapPlace, pc \in {"unmap", "unmapleaf", "clearleaf", "cleardir"},
         page < AlignUp(End), NEW v \in Asked, page <= v, v < page + Region
  PROVE  SubStart <= v /\ v < SubEnd
<1>1. v \in VPages /\ v \in Nat /\ call.vaddr <= v /\ v < End
  BY PageIndex DEF Asked
<1>2. page \in Nat /\ call.vaddr \in Nat /\ End \in Nat /\ Region \in Nat
  BY UnmapIn, Sizes DEF TypeOK
<1> QED
  BY <1>1, <1>2 DEF SubStart, SubEnd, Partial

(* UnmappedSoFar is preserved.                                             *)
LEMMA UnmappedStep ==
  ASSUME Inv, [Next]_vars
  PROVE  UnmappedSoFar'
<1>0. TypeOK /\ UnmapPlace /\ UnmappedSoFar
  BY DEF Inv
<1>t. page \in Nat /\ lpage \in Nat /\ call.vaddr \in Nat /\ call.size \in Nat /\ Region \in Nat
  BY <1>0, Sizes DEF TypeOK
<1>a. ASSUME NEW v \in Asked PROVE v \in VPages /\ v \in Nat
  BY PageIndex DEF Asked
<1>1. CASE UNCHANGED vars \/ \E v \in Touched : TlbFill(v)
  <2>1. UNCHANGED <<mem, call, page, lpage, pc>>
    BY <1>1 DEF vars, TlbFill, cursor
  <2>2. \A v \in VPages : Walk(v)' = Walk(v)
    BY <2>1, MemSame
  <2> QED
    BY <1>0, <1>a, <2>1, <2>2, UnmapHere DEF UnmappedSoFar, Asked
<1>2. ASSUME NEW r \in MapRanges, NEW fl \in Flags, MapAlloc(r[1], r[2], fl)
      PROVE  UnmappedSoFar'
  BY <1>2 DEF UnmappedSoFar, MapAlloc, Goto
<1>3. ASSUME NEW r \in UnmapRanges, UnmapFree(r[1], r[2])
      PROVE  UnmappedSoFar'
  <2>1. /\ pc' \in {"panic", "unmap"} /\ page' = AlignDown(r[1]) /\ call'.vaddr = r[1]
        /\ r[1] \in Nat
    BY <1>3, ConstantsAssumption DEF UnmapFree, Enter, Goto
  <2>2. page' \in Nat /\ page' <= call'.vaddr
    BY <2>1, AlignDownOf
  <2>3. \A v \in Asked' : ~ (v < page')
    BY <2>1, <2>2, PageIndex DEF Asked
  <2> QED
    BY <2>1, <2>3 DEF UnmappedSoFar
<1>4. CASE \/ MapDone \/ MapPanics \/ MapOver \/ MapDescend \/ MapNoLevel
           \/ \E f \in Frames : MapTake(f) \/ NewSublevel(f)
           \/ MapLinkFails \/ MapLink \/ MapLeaf
  <2>1. call'.kind = "map" /\ pc' \in {"map", "dir", "link", "leaf", "ok", "err", "panic"}
    BY <1>4, MapSide
  <2> QED
    BY <2>1 DEF UnmappedSoFar
<1>5. CASE UnmapPartOfLarge \/ UnmapLarge \/ Return
  BY <1>5 DEF UnmapPartOfLarge, UnmapLarge, Return, Fail, Goto, UnmappedSoFar
<1>6. CASE UnmapDone \/ UnmapDescend \/ UnmapLeafSkip \/ UnmapLeafFree \/ FreeSublevel
  <2>1. UNCHANGED <<mem, call, page>> /\ pc \in {"unmap", "unmapleaf"} /\ call.kind = "unmap"
    BY <1>6, UnmapSide DEF UnmapDone, UnmapDescend, UnmapLeafSkip, UnmapLeafFree, FreeSublevel, cursor
  <2>2. \A v \in VPages : Walk(v)' = Walk(v)
    BY <2>1, MemSame
  <2>3. \A v \in Asked : v < page => Walk(v) = None
    BY <1>0, <2>1 DEF UnmappedSoFar
  <2>4. \A v \in Asked' : v < page' => Walk(v)' = None
    BY <1>a, <2>1, <2>2, <2>3, UnmapHere DEF Asked
  <2>5. ASSUME pc' \in {"unmapleaf", "clearleaf"}, NEW v \in VPages, SubStart <= v, v < lpage'
        PROVE  Walk(v) = None
    <3>0. v \in Nat
      BY PageIndex
    <3>1. CASE UnmapDescend
      <4>1. lpage' = SubStart /\ SubStart \in Nat
        BY <1>t, <3>1 DEF UnmapDescend, SubStart
      <4> QED
        BY <2>5, <3>0, <4>1
    <3>2. CASE UnmapLeafSkip
      <4>1. pc = "unmapleaf" /\ lpage' = lpage + 1 /\ lpage < SubEnd /\ ~ TableEntry(sub, lpage).p
        BY <3>2 DEF UnmapLeafSkip, LeafPresent
      <4>2. CASE v = lpage
        <5>1. lpage \in VPages /\ lpage \div Region = UnmapIndex /\ Lvl(UnmapIndex) /\ sub = Tab(UnmapIndex)
          BY <1>0, <4>1, LeafIn DEF UnmapPlace
        <5>2. ~ Ent(UnmapIndex, lpage % Region).p
          BY <4>1, <5>1 DEF TableEntry, Ent
        <5> QED
          BY <4>2, <5>1, <5>2, WalkCases DEF Inv
      <4>3. CASE v # lpage
        BY <1>0, <1>t, <2>5, <3>0, <4>1, <4>3 DEF UnmappedSoFar
      <4> QED
        BY <4>2, <4>3
    <3>3. CASE UnmapLeafFree
      BY <1>0, <2>5, <3>3 DEF UnmapLeafFree, UnmappedSoFar, cursor
    <3> QED
      BY <1>6, <2>5, <3>1, <3>2, <3>3 DEF UnmapDone, FreeSublevel, Goto
  <2> QED
    BY <2>1, <2>2, <2>4, <2>5, UnmapHere DEF UnmappedSoFar
<1>7. CASE UnmapLeafClear
  <2>0. PICK w : w = lpage
    OBVIOUS
  <2>1. UNCHANGED <<call, page>> /\ pc = "clearleaf" /\ call.kind = "unmap" /\ lpage' = lpage + 1
    BY <1>7, UnmapSide DEF UnmapLeafClear
  <2>2. Walk(w)' = None /\ \A v \in VPages \ {w} : Walk(v)' = Walk(v)
    BY <1>7, <2>0, WalkUnmapLeaf
  <2>3. \A v \in Asked : v < page => Walk(v)' = None
    BY <1>0, <1>a, <2>1, <2>2 DEF UnmappedSoFar
  <2>4. ASSUME NEW v \in VPages, SubStart <= v, v < lpage + 1
        PROVE  Walk(v)' = None
    <3>0. v \in Nat
      BY PageIndex
    <3>1. v = w \/ v < lpage
      BY <1>t, <2>0, <2>4, <3>0
    <3> QED
      BY <1>0, <2>1, <2>2, <2>4, <3>1 DEF UnmappedSoFar
  <2>5. Asked' = Asked
    BY <2>1, UnmapHere DEF Asked
  <2> QED
    BY <2>1, <2>3, <2>4, <2>5, UnmapHere DEF UnmappedSoFar
<1>8. CASE UnmapSkip \/ UnmapKeep \/ UnmapClear
  <2>1. /\ call' = call /\ call.kind = "unmap" /\ page' = page + Region /\ pc' = "unmap"
        /\ pc \in {"unmap", "unmapleaf", "cleardir"} /\ page < AlignUp(End)
    BY <1>0, <1>8, UnmapSide DEF UnmapSkip, UnmapKeep, UnmapClear, NextPage, Goto, UnmapPlace
  <2>2. \A v \in VPages : Walk(v)' = Walk(v)
    BY <1>8, WalkSame DEF UnmapSkip, UnmapKeep, UnmapClear, MapLeaf, UnmapLeafClear
  <2>3. ASSUME NEW v \in Asked, page <= v, v < page + Region
        PROVE  Walk(v) = None
    <3>0. v \in VPages /\ v \in Nat
      BY <1>a
    <3>1. v \div Region = UnmapIndex
      BY <1>0, <2>1, <2>3, <3>0, InUnmapRegion
    <3>2. CASE UnmapSkip
      <4>1. ~ mem[Root][v \div Region].p
        BY <3>1, <3>2 DEF UnmapSkip, DirEntry, UnmapIndex
      <4> QED
        BY <4>1, WalkOf
    <3>3. CASE UnmapKeep
      <4>1. SubStart <= v /\ v < SubEnd
        BY <1>0, <2>1, <2>3, AskedInRegion
      <4>2. pc = "unmapleaf" /\ lpage >= SubEnd
        BY <3>3 DEF UnmapKeep
      <4>3. SubEnd \in Nat
        BY <1>0, <2>1, UnmapIn
      <4>4. v < lpage
        BY <1>t, <3>0, <4>1, <4>2, <4>3
      <4> QED
        BY <1>0, <3>0, <4>1, <4>2, <4>4 DEF UnmappedSoFar
    <3>4. CASE UnmapClear
      <4>1. Lvl(UnmapIndex) /\ \A j \in Index : ~ Ent(UnmapIndex, j).p
        BY <3>4, UnmapClearMem
      <4> QED
        BY <3>0, <3>1, <4>1, WalkCases DEF Inv
    <3> QED
      BY <1>8, <3>2, <3>3, <3>4
  <2>4. \A v \in Asked : v < page => Walk(v) = None
    BY <1>0, <2>1 DEF UnmappedSoFar
  <2>5. ASSUME NEW v \in Asked, v < page + Region
        PROVE  Walk(v)' = None
    BY <1>a, <1>t, <2>2, <2>3, <2>4, <2>5
  <2>6. Asked' = Asked
    BY <2>1 DEF Asked, End
  <2> QED
    BY <2>1, <2>5, <2>6 DEF UnmappedSoFar
<1> QED
  BY <1>1, <1>2, <1>3, <1>4, <1>5, <1>6, <1>7, <1>8 DEF Next, Step

-----------------------------------------------------------------------------
(***************************************************************************)
(* Who has the frames.                                                     *)
(***************************************************************************)

(* What the call has in hand, by its place.                                *)
LEMMA HandOf ==
  /\ pc \in {"dir", "leaf"} => InHand = {data}
  /\ pc = "link" => InHand = {data, sub}
  /\ pc \notin {"dir", "link", "leaf"} => InHand = {}
  BY DEF InHand

(* And after a step.                                                       *)
LEMMA HandNext ==
  /\ pc' \in {"dir", "leaf"} => InHand' = {data'}
  /\ pc' = "link" => InHand' = {data', sub'}
  /\ pc' \notin {"dir", "link", "leaf"} => InHand' = {}
  BY DEF InHand

(* The tables keep their frames: what changes hands is loose.              *)
LEMMA OwnSame ==
  ASSUME Own,
         \A i \in Index : (Counts(i)' <=> Counts(i)) /\ (Counts(i) => Tab(i)' = Tab(i)),
         \A i, j \in Index : /\ Holds(i, j)' <=> Holds(i, j)
                             /\ Holds(i, j) => Ent(i, j).addr' = Ent(i, j).addr,
         Loose' = Loose, LooseApart'
  PROVE  Own'
<1>1. OneTable'
  BY DEF Own, OneTable
<1>2. OneEntry'
  BY DEF Own, OneEntry
<1>3. TableOrEntry'
  BY DEF Own, TableOrEntry
<1>4. UsedNotLoose'
  BY DEF Own, UsedNotLoose
<1>5. Complete'
  BY DEF Own, Complete
<1> QED
  BY <1>1, <1>2, <1>3, <1>4, <1>5 DEF Own

(* Outside the windows of unmap_free, every table and entry counts.        *)
LEMMA CountsOf ==
  ASSUME pc \notin {"clearleaf", "cleardir"}
  PROVE  /\ \A i : Counts(i) <=> Lvl(i)
         /\ \A i, j : Holds(i, j) <=> Lvl(i) /\ Ent(i, j).addr \in Frames
  BY DEF Counts, Holds

(* And after a step.                                                       *)
LEMMA CountsNext ==
  ASSUME pc' \notin {"clearleaf", "cleardir"}
  PROVE  /\ \A i : Counts(i)' <=> Lvl(i)'
         /\ \A i, j : Holds(i, j)' <=> Lvl(i)' /\ Ent(i, j).addr' \in Frames
  BY DEF Counts, Holds

(* Steps that leave the tables alone, outside the windows.                 *)
LEMMA OwnQuiet ==
  ASSUME Own, UNCHANGED mem, Loose' = Loose, LooseApart',
         pc \notin {"clearleaf", "cleardir"}, pc' \notin {"clearleaf", "cleardir"}
  PROVE  Own'
<1>1. /\ \A i \in Index : (Counts(i)' <=> Counts(i)) /\ Tab(i)' = Tab(i)
      /\ \A i, j \in Index : (Holds(i, j)' <=> Holds(i, j)) /\ Ent(i, j).addr' = Ent(i, j).addr
  BY CountsOf, CountsNext, MemSame
<1> QED
  BY <1>1, OwnSame

(* unmap_free gives a page back to the allocator, or loses it; it has no   *)
(* frame to give back for a page of the bootstrap code.                    *)
LEMMA FreedLeaf ==
  ASSUME Inv, UnmapLeafFree, NEW a, a = Ent(UnmapIndex, LeafOf).addr
  PROVE  IF a \in Frames
           THEN \/ free' = free \cup {a} /\ dropped' = dropped
                \/ free' = free /\ dropped' = dropped \cup {a}
           ELSE free' = free /\ dropped' = dropped
<1>0. PICK e : e = TableEntry(sub, lpage)
  OBVIOUS
<1>1. /\ pc = "unmapleaf" /\ lpage < SubEnd /\ e.p
      /\ free' = free \cup Accepted(e)
      /\ dropped' = dropped \cup {f \in {e.addr} \cap Last : e.g}
  BY <1>0 DEF UnmapLeafFree, LeafPresent
<1>2. /\ UnmapIndex \in Index /\ LeafOf \in Index /\ Lvl(UnmapIndex)
      /\ sub = Tab(UnmapIndex) /\ lpage \in VPages /\ lpage \div Region = UnmapIndex
  BY <1>1, LeafIn DEF Inv, UnmapPlace
<1>3. e = Ent(UnmapIndex, LeafOf) /\ e.addr = a
  BY <1>0, <1>2 DEF TableEntry, Ent, LeafOf
<1>4. CASE a \in Frames
  <2>1. Phys(a) = a
    BY <1>4, Names
  <2>2. Accepted(e) = {f \in {a} : ~ (e.g /\ f \in Last)}
    BY <1>3, <1>4, <2>1 DEF Accepted
  <2> QED
    BY <1>1, <1>3, <1>4, <2>2
<1>5. CASE a \notin Frames
  <2>1. a = lpage /\ lpage \in LowPages
    <3>1. UnmapIndex = 0 /\ a = LeafOf
      BY <1>1, <1>2, <1>3, <1>5 DEF Inv, LeafInv
    <3>2. lpage \in Nat /\ lpage = Region * 0 + (lpage % Region)
      BY <1>2, <3>1, PageIndex, DivMod
    <3>3. Region \in Nat /\ lpage % Region \in Index /\ Index \subseteq Nat
      BY <1>2, PageIndex, Sizes
    <3>4. lpage = lpage % Region
      <4>1. ASSUME NEW n \in Nat, NEW c \in Nat PROVE n * 0 + c = c
        OBVIOUS
      <4> QED
        BY <3>2, <3>3, <4>1
    <3> QED
      BY <3>1, <3>3, <3>4, BootIndex DEF LeafOf
  <2>2. call.vaddr <= lpage /\ lpage < AlignUp(End)
    <3>1. page < AlignUp(End) /\ SubStart <= lpage
      BY <1>1 DEF Inv, UnmapPlace
    <3>2. /\ SubEnd <= page + Region /\ page + Region <= AlignUp(End)
          /\ SubEnd \in Nat /\ End \in Nat
      BY <1>1, <3>1, UnmapIn DEF Inv
    <3>3. /\ page \in Nat /\ lpage \in Nat /\ Region \in Nat /\ AlignUp(End) \in Nat
          /\ call.vaddr \in Nat
      BY <3>2, AlignUpOf, Sizes DEF Inv, TypeOK
    <3>4. call.vaddr <= SubStart /\ SubStart \in Nat
      BY <3>3 DEF SubStart
    <3> QED
      BY <1>1, <3>1, <3>2, <3>3, <3>4
  <2>3. ~ TakenBack(lpage)
    BY <1>1, <2>1, <2>2, BootIndex DEF Inv, CarefulCall, UnmapPlace
  <2>4. Phys(a) \notin Frames
    BY <2>1, <2>3, BootIndex DEF TakenBack, Phys
  <2>5. Accepted(e) = {} /\ {e.addr} \cap Last = {}
    BY <1>3, <1>5, <2>4, ConstantsAssumption DEF Accepted
  <2> QED
    BY <1>1, <1>5, <2>5
<1> QED
  BY <1>4, <1>5

(* What it gives back or loses was the page's alone.                       *)
LEMMA OwnLeafFree ==
  ASSUME Inv, [Next]_vars, UnmapLeafFree
  PROVE  Own'
<1>0. PICK k, m, a : k = UnmapIndex /\ m = LeafOf /\ a = Ent(k, m).addr
  OBVIOUS
<1>1. pc = "unmapleaf" /\ pc' = "clearleaf" /\ UNCHANGED <<mem, page, lpage>>
  BY DEF UnmapLeafFree, Goto, cursor
<1>2. k \in Index /\ m \in Index /\ Lvl(k)
  BY <1>0, LeafIn DEF UnmapLeafFree, Inv, UnmapPlace
<1>3. IF a \in Frames
        THEN \/ free' = free \cup {a} /\ dropped' = dropped
             \/ free' = free /\ dropped' = dropped \cup {a}
        ELSE free' = free /\ dropped' = dropped
  BY <1>0, FreedLeaf
<1>5. a = Ent(k, m).addr
  BY <1>0
<1>6. /\ \A i : Counts(i)' <=> Counts(i)
      /\ \A i : Tab(i)' = Tab(i)
      /\ \A i, j : Ent(i, j)' = Ent(i, j)
  BY <1>1, MemSame DEF Counts
<1>7. \A i, j \in Index : Holds(i, j)' <=> Holds(i, j) /\ ~ (i = k /\ j = m)
  BY <1>0, <1>1, <1>6 DEF Holds, UnmapIndex, LeafOf
<1>8. InHand = {} /\ InHand' = {}
  BY <1>1, HandOf, HandNext
<1>10. Own
  BY DEF Inv
<1>a. CASE a \notin Frames
  <2>1. ~ Holds(k, m)
    BY <1>5, <1>a DEF Holds
  <2>2. Loose' = Loose /\ LooseApart'
    BY <1>1, <1>3, <1>8, <1>10, <1>a DEF Loose, LooseApart, Own
  <2> QED
    BY <1>6, <1>7, <1>10, <2>1, <2>2, OwnSame
<1> SUFFICES ASSUME a \in Frames PROVE Own'
  BY <1>a
<1>4. Holds(k, m)
  BY <1>1, <1>2, <1>5 DEF Holds, Counts
<1>9. Loose' = Loose \cup {a} /\ a \notin Loose
  BY <1>2, <1>3, <1>4, <1>5, <1>8 DEF Loose, Inv, Own, UsedNotLoose
<1>11. OneTable' /\ OneEntry' /\ TableOrEntry'
  BY <1>6, <1>7, <1>10 DEF Own, OneTable, OneEntry, TableOrEntry
<1>12. UsedNotLoose'
  <2>1. \A i \in Index : Counts(i) => Tab(i) \notin Loose /\ Tab(i) # a
    BY <1>2, <1>4, <1>5, <1>10 DEF Own, UsedNotLoose, TableOrEntry
  <2>2. \A i, j \in Index : Holds(i, j) /\ ~ (i = k /\ j = m) =>
          Ent(i, j).addr \notin Loose /\ Ent(i, j).addr # a
    BY <1>2, <1>4, <1>5, <1>10 DEF Own, UsedNotLoose, OneEntry
  <2> QED
    BY <1>6, <1>7, <1>9, <2>1, <2>2 DEF UsedNotLoose
<1>13. LooseApart'
  BY <1>1, <1>3, <1>8, <1>9, <1>10 DEF Own, LooseApart, Loose
<1>14. Complete'
  <2> SUFFICES ASSUME NEW f \in Frames, f \notin Loose', ~ \E i \in Index : Counts(i)' /\ Tab(i)' = f
               PROVE  \E i, j \in Index : Holds(i, j)' /\ Ent(i, j).addr' = f
    BY DEF Complete
  <2>1. PICK i \in Index, j \in Index : Holds(i, j) /\ Ent(i, j).addr = f
    BY <1>6, <1>9, <1>10 DEF Own, Complete
  <2>2. f # a
    BY <1>9
  <2> QED
    BY <1>5, <1>6, <1>7, <2>1, <2>2
<1> QED
  BY <1>11, <1>12, <1>13, <1>14 DEF Own

(* unmap_free gives a table back, and forgets what it still refers to.     *)
LEMMA OwnFreeSublevel ==
  ASSUME Inv, [Next]_vars, FreeSublevel
  PROVE  Own'
<1>0. PICK k : k = UnmapIndex
  OBVIOUS
<1>1. /\ pc = "unmapleaf" /\ pc' = "cleardir" /\ UNCHANGED <<mem, page>>
      /\ free' = free \cup ({sub} \cap Frames)
      /\ dropped' = dropped \cup ({mem[sub][i].addr : i \in Index} \cap Frames)
  BY DEF FreeSublevel, Goto, cursor
<1>2. k \in Index /\ Lvl(k) /\ sub = Tab(k)
  BY <1>0, <1>1, UnmapIn DEF Inv, UnmapPlace
<1>3. PICK S : S = {Ent(k, j).addr : j \in Index} \cap Frames
  OBVIOUS
<1>4. dropped' = dropped \cup S
  BY <1>1, <1>2, <1>3 DEF Ent
<1>5. /\ \A i : Tab(i)' = Tab(i)
      /\ \A i, j : Ent(i, j)' = Ent(i, j)
      /\ \A i : Counts(i)' <=> Counts(i) /\ i # k
  BY <1>0, <1>1, MemSame DEF Counts, UnmapIndex
<1>6. \A i, j \in Index : Holds(i, j)' <=> Holds(i, j) /\ i # k
  BY <1>1, <1>5 DEF Holds
<1>7. Counts(k) /\ \A a \in S : \E j \in Index : Holds(k, j) /\ Ent(k, j).addr = a
  BY <1>1, <1>2, <1>3 DEF Counts, Holds
<1>8. \A j \in Index : Holds(k, j) => Ent(k, j).addr \in S
  BY <1>3 DEF Holds
<1>9. InHand = {} /\ InHand' = {}
  BY <1>1, HandOf, HandNext
<1>10. Loose' = Loose \cup ({sub} \cap Frames) \cup S
  BY <1>1, <1>4, <1>9 DEF Loose
<1>11. Own
  BY DEF Inv
<1>12. OneTable' /\ OneEntry' /\ TableOrEntry'
  BY <1>5, <1>6, <1>11 DEF Own, OneTable, OneEntry, TableOrEntry
<1>13. sub \notin Loose /\ sub \notin S /\ \A a \in S : a \notin Loose
  BY <1>2, <1>7, <1>11 DEF Own, UsedNotLoose, TableOrEntry
<1>14. UsedNotLoose'
  <2>1. \A i \in Index : Counts(i) /\ i # k => Tab(i) \notin Loose /\ Tab(i) # sub /\ Tab(i) \notin S
    BY <1>2, <1>7, <1>11 DEF Own, UsedNotLoose, OneTable, TableOrEntry
  <2>2. \A i, j \in Index : Holds(i, j) /\ i # k =>
          Ent(i, j).addr \notin Loose /\ Ent(i, j).addr # sub /\ Ent(i, j).addr \notin S
    BY <1>2, <1>7, <1>11 DEF Own, UsedNotLoose, OneEntry, TableOrEntry
  <2> QED
    BY <1>5, <1>6, <1>10, <2>1, <2>2 DEF UsedNotLoose
<1>15. LooseApart'
  BY <1>1, <1>4, <1>9, <1>11, <1>13 DEF Own, LooseApart, Loose
<1>16. Complete'
  <2> SUFFICES ASSUME NEW f \in Frames, f \notin Loose'
               PROVE  \/ \E i \in Index : Counts(i)' /\ Tab(i)' = f
                      \/ \E i, j \in Index : Holds(i, j)' /\ Ent(i, j).addr' = f
    BY DEF Complete
  <2>1. f \notin Loose /\ f # sub /\ f \notin S
    BY <1>10
  <2>2. CASE \E i \in Index : Counts(i) /\ Tab(i) = f
    BY <1>2, <1>5, <2>1, <2>2
  <2>3. CASE \E i, j \in Index : Holds(i, j) /\ Ent(i, j).addr = f
    BY <1>5, <1>6, <1>8, <2>1, <2>3
  <2> QED
    BY <1>11, <2>1, <2>2, <2>3 DEF Own, Complete
<1> QED
  BY <1>12, <1>14, <1>15, <1>16 DEF Own

(* map_page links the table it has made.                                   *)
LEMMA OwnMapLink ==
  ASSUME Inv, [Next]_vars, MapLink
  PROVE  Own'
<1>0. PICK k : k = MapIndex
  OBVIOUS
<1>1. pc = "link" /\ pc' = "leaf" /\ UNCHANGED <<free, data, sub, dropped>>
  BY DEF MapLink, Goto, cursor
<1>2. /\ k \in Index /\ ~ Lvl(k) /\ sub \in Frames
      /\ mem' = [mem EXCEPT ![Root][k] = NewPageTable(sub)]
      /\ Lvl(k)' /\ Tab(k)' = sub /\ \A j \in Index : Ent(k, j)' = NullPTE
  BY <1>0, MapLinkMem
<1>3. /\ \A i \in Index \ {k} : (Lvl(i)' <=> Lvl(i)) /\ Tab(i)' = Tab(i)
      /\ \A i \in Index \ {k}, j \in Index : Lvl(i) => Ent(i, j)' = Ent(i, j)
  BY <1>2, DirWrite
<1>4. NullPTE.addr \notin Frames
  BY Names DEF NullPTE
<1>5. /\ \A i \in Index : Counts(i)' <=> Counts(i) \/ i = k
      /\ \A i, j \in Index : Holds(i, j)' <=> Holds(i, j)
      /\ \A i \in Index : Counts(i) => i # k /\ Tab(i)' = Tab(i)
      /\ \A i, j \in Index : Holds(i, j) => Ent(i, j).addr' = Ent(i, j).addr
  BY <1>1, <1>2, <1>3, <1>4, CountsOf, CountsNext
<1>6. InHand = {data, sub} /\ InHand' = {data}
  BY <1>1, HandOf, HandNext
<1>7. Own /\ data # sub
  BY <1>1 DEF Inv, Own, LooseApart
<1>8. Loose = Loose' \cup {sub} /\ sub \notin Loose'
  BY <1>1, <1>6, <1>7 DEF Loose, Own, LooseApart
<1>9. \A i \in Index : Counts(i) => Tab(i) \notin Loose
  BY <1>7 DEF Own, UsedNotLoose
<1>10. \A i, j \in Index : Holds(i, j) => Ent(i, j).addr \notin Loose
  BY <1>7 DEF Own, UsedNotLoose
<1>11. OneTable'
  BY <1>2, <1>5, <1>7, <1>8, <1>9 DEF Own, OneTable
<1>12. OneEntry'
  BY <1>5, <1>7 DEF Own, OneEntry
<1>13. TableOrEntry'
  BY <1>2, <1>5, <1>7, <1>8, <1>10 DEF Own, TableOrEntry
<1>14. UsedNotLoose'
  BY <1>2, <1>5, <1>8, <1>9, <1>10 DEF UsedNotLoose
<1>15. LooseApart'
  BY <1>1, <1>6, <1>7 DEF Own, LooseApart
<1>16. Complete'
  BY <1>2, <1>5, <1>7, <1>8 DEF Own, Complete
<1> QED
  BY <1>7, <1>11, <1>12, <1>13, <1>14, <1>15, <1>16 DEF Own

(* map_page writes the frame into the table; what was there is lost.       *)
LEMMA OwnMapLeaf ==
  ASSUME Inv, [Next]_vars, MapLeaf
  PROVE  Own'
<1>0. PICK k, m : k = MapIndex /\ m = VAddr % Region
  OBVIOUS
<1>1. pc = "leaf" /\ pc' = "map" /\ free' = free
  BY DEF MapLeaf, Goto
<1>2. /\ k \in Index /\ m \in Index /\ Lvl(k) /\ data \in Frames
      /\ \A i \in Index \ {k} : Lvl(i) => Tab(i) # Tab(k)
      /\ mem' = [mem EXCEPT ![Tab(k)][m] = NewLeaf]
      /\ TableEntry(sub, VAddr) = Ent(k, m)
  BY <1>0, MapLeafMem
<1>3. PICK a : a = Ent(k, m).addr
  OBVIOUS
<1>4. dropped' = dropped \cup ({a} \cap Frames)
  BY <1>2, <1>3 DEF MapLeaf
<1>5. PICK e : e = NewLeaf
  OBVIOUS
<1>6. e.addr = data
  BY <1>5 DEF NewLeaf, NewPage
<1>7. /\ \A i : (Lvl(i)' <=> Lvl(i)) /\ Tab(i)' = Tab(i)
      /\ Ent(k, m)' = e
      /\ \A i, j \in Index : Lvl(i) /\ <<i, j>> # <<k, m>> => Ent(i, j)' = Ent(i, j)
  BY <1>2, <1>5, TableWrite
<1>8. /\ \A i \in Index : (Counts(i)' <=> Counts(i)) /\ Tab(i)' = Tab(i)
      /\ Holds(k, m)' /\ Ent(k, m).addr' = data
      /\ \A i, j \in Index : <<i, j>> # <<k, m>> => (Holds(i, j)' <=> Holds(i, j))
      /\ \A i, j \in Index : <<i, j>> # <<k, m>> /\ Holds(i, j) => Ent(i, j).addr' = Ent(i, j).addr
      /\ a \in Frames <=> Holds(k, m)
  BY <1>1, <1>2, <1>3, <1>6, <1>7, CountsOf, CountsNext
<1>9. InHand = {data} /\ InHand' = {}
  BY <1>1, HandOf, HandNext
<1>10. Own
  BY DEF Inv
<1>11. /\ a \in Frames => a \notin Loose
       /\ \A i \in Index : Counts(i) => Tab(i) \notin Loose /\ (a \in Frames => Tab(i) # a)
       /\ \A i, j \in Index : Holds(i, j) => Ent(i, j).addr \notin Loose
       /\ \A i, j \in Index : Holds(i, j) /\ <<i, j>> # <<k, m>> => (a \in Frames => Ent(i, j).addr # a)
  BY <1>2, <1>3, <1>8, <1>10 DEF Own, UsedNotLoose, TableOrEntry, OneEntry
<1>12. data \in Loose /\ data \notin free /\ data \notin dropped
  BY <1>9, <1>10 DEF Own, LooseApart, Loose
<1>13. Loose' = (Loose \ {data}) \cup ({a} \cap Frames) /\ data \notin Loose'
  BY <1>1, <1>4, <1>9, <1>11, <1>12 DEF Loose
<1>14. OneTable'
  BY <1>8, <1>10 DEF Own, OneTable
<1>15. OneEntry'
  <2> SUFFICES ASSUME NEW i \in Index, NEW j \in Index, NEW p \in Index, NEW q \in Index,
                      Holds(i, j)', Holds(p, q)', Ent(i, j).addr' = Ent(p, q).addr'
               PROVE  i = p /\ j = q
    BY DEF OneEntry
  <2>1. CASE <<i, j>> = <<k, m>> /\ <<p, q>> # <<k, m>>
    BY <1>8, <1>11, <1>12, <2>1
  <2>2. CASE <<i, j>> # <<k, m>> /\ <<p, q>> = <<k, m>>
    BY <1>8, <1>11, <1>12, <2>2
  <2>3. CASE <<i, j>> # <<k, m>> /\ <<p, q>> # <<k, m>>
    BY <1>8, <1>10, <2>3 DEF Own, OneEntry
  <2> QED
    BY <2>1, <2>2, <2>3
<1>16. TableOrEntry'
  <2> SUFFICES ASSUME NEW i \in Index, NEW p \in Index, NEW q \in Index, Counts(i)', Holds(p, q)'
               PROVE  Tab(i)' # Ent(p, q).addr'
    BY DEF TableOrEntry
  <2>1. CASE <<p, q>> = <<k, m>>
    BY <1>8, <1>11, <1>12, <2>1
  <2>2. CASE <<p, q>> # <<k, m>>
    BY <1>8, <1>10, <2>2 DEF Own, TableOrEntry
  <2> QED
    BY <2>1, <2>2
<1>17. UsedNotLoose'
  <2>1. \A i \in Index : Counts(i)' => Tab(i)' \notin Loose'
    BY <1>8, <1>11, <1>13
  <2>2. ASSUME NEW i \in Index, NEW j \in Index, Holds(i, j)'
        PROVE  Ent(i, j).addr' \notin Loose'
    <3>1. CASE <<i, j>> = <<k, m>>
      BY <1>8, <1>13, <3>1
    <3>2. CASE <<i, j>> # <<k, m>>
      BY <1>8, <1>11, <1>13, <2>2, <3>2
    <3> QED
      BY <3>1, <3>2
  <2> QED
    BY <2>1, <2>2 DEF UsedNotLoose
<1>18. LooseApart'
  BY <1>1, <1>4, <1>9, <1>10, <1>11 DEF Own, LooseApart, Loose
<1>19. Complete'
  <2> SUFFICES ASSUME NEW f \in Frames, f \notin Loose', ~ \E i \in Index : Counts(i)' /\ Tab(i)' = f
               PROVE  \E i, j \in Index : Holds(i, j)' /\ Ent(i, j).addr' = f
    BY DEF Complete
  <2>1. CASE f = data
    BY <1>2, <1>8, <2>1
  <2>2. CASE f # data
    <3>1. f \notin Loose /\ f # a
      BY <1>13, <2>2, Names
    <3>2. PICK i \in Index, j \in Index : Holds(i, j) /\ Ent(i, j).addr = f
      BY <1>8, <1>10, <3>1 DEF Own, Complete
    <3>3. <<i, j>> # <<k, m>>
      BY <1>3, <3>1, <3>2
    <3> QED
      BY <1>8, <3>2, <3>3
  <2> QED
    BY <2>1, <2>2
<1> QED
  BY <1>14, <1>15, <1>16, <1>17, <1>18, <1>19 DEF Own

(* Clearing the entry of a page already given back.                        *)
LEMMA OwnLeafClear ==
  ASSUME Inv, [Next]_vars, UnmapLeafClear
  PROVE  Own'
<1>0. PICK k, m : k = UnmapIndex /\ m = LeafOf
  OBVIOUS
<1>1. pc = "clearleaf" /\ pc' = "unmapleaf" /\ UNCHANGED <<free, dropped>>
  BY DEF UnmapLeafClear, Goto
<1>2. /\ k \in Index /\ m \in Index /\ Lvl(k)
      /\ \A i \in Index \ {k} : Lvl(i) => Tab(i) # Tab(k)
      /\ mem' = [mem EXCEPT ![Tab(k)][m] = NullPTE]
  BY <1>0, UnmapLeafMem
<1>3. /\ \A i : (Lvl(i)' <=> Lvl(i)) /\ Tab(i)' = Tab(i)
      /\ Ent(k, m)' = NullPTE
      /\ \A i, j \in Index : Lvl(i) /\ <<i, j>> # <<k, m>> => Ent(i, j)' = Ent(i, j)
  BY <1>2, TableWrite
<1>4. NullPTE.addr \notin Frames
  BY Names DEF NullPTE
<1>5. \A i \in Index : Counts(i) <=> Lvl(i)
  BY <1>1 DEF Counts
<1>6. \A i, j \in Index : Holds(i, j) <=> Lvl(i) /\ Ent(i, j).addr \in Frames /\ <<i, j>> # <<k, m>>
  BY <1>0, <1>1, <1>5 DEF Holds
<1>7. /\ \A i \in Index : (Counts(i)' <=> Counts(i)) /\ Tab(i)' = Tab(i)
      /\ \A i, j \in Index : /\ Holds(i, j)' <=> Holds(i, j)
                             /\ Holds(i, j) => Ent(i, j).addr' = Ent(i, j).addr
  BY <1>1, <1>3, <1>4, <1>5, <1>6, CountsNext
<1>8. InHand = {} /\ InHand' = {}
  BY <1>1, HandOf, HandNext
<1>9. Own
  BY DEF Inv
<1>10. Loose' = Loose /\ LooseApart'
  BY <1>1, <1>8, <1>9 DEF Loose, Own, LooseApart
<1> QED
  BY <1>7, <1>9, <1>10, OwnSame

(* Clearing the entry of a table already given back.                       *)
LEMMA OwnUnmapClear ==
  ASSUME Inv, [Next]_vars, UnmapClear
  PROVE  Own'
<1>0. PICK k : k = UnmapIndex
  OBVIOUS
<1>1. pc = "cleardir" /\ pc' = "unmap" /\ UNCHANGED <<free, dropped>>
  BY DEF UnmapClear, Goto
<1>2. /\ k \in Index /\ Lvl(k) /\ ~ Lvl(k)'
      /\ mem' = [mem EXCEPT ![Root][k] = NewPage(None, TRUE, FALSE, FALSE)]
  BY <1>0, UnmapClearMem
<1>3. /\ \A i \in Index \ {k} : (Lvl(i)' <=> Lvl(i)) /\ Tab(i)' = Tab(i)
      /\ \A i \in Index \ {k}, j \in Index : Lvl(i) => Ent(i, j)' = Ent(i, j)
  BY <1>2, DirWrite
<1>4. \A i \in Index : Counts(i) <=> Lvl(i) /\ i # k
  BY <1>0, <1>1 DEF Counts
<1>5. \A i, j \in Index : Holds(i, j) <=> Counts(i) /\ Ent(i, j).addr \in Frames
  BY <1>1 DEF Holds
<1>6. /\ \A i \in Index : (Counts(i)' <=> Counts(i)) /\ (Counts(i) => Tab(i)' = Tab(i))
      /\ \A i, j \in Index : /\ Holds(i, j)' <=> Holds(i, j)
                             /\ Holds(i, j) => Ent(i, j).addr' = Ent(i, j).addr
  BY <1>1, <1>2, <1>3, <1>4, <1>5, CountsNext
<1>7. InHand = {} /\ InHand' = {}
  BY <1>1, HandOf, HandNext
<1>8. Own
  BY DEF Inv
<1>9. Loose' = Loose /\ LooseApart'
  BY <1>1, <1>7, <1>8 DEF Loose, Own, LooseApart
<1> QED
  BY <1>6, <1>8, <1>9, OwnSame

(* A careful caller does not reach the large page if its memory would be   *)
(* taken for the allocator's.                                              *)
LEMMA LargeNotTaken ==
  ASSUME Inv, UnmapLarge
  PROVE  UNCHANGED <<free, dropped>>
<1>1. /\ pc = "unmap" /\ page < AlignUp(End) /\ ~ Partial
      /\ mem[Root][UnmapIndex].p /\ mem[Root][UnmapIndex].ps
      /\ free' = free \cup (IF BootZone THEN {FrameAt[u] : u \in LargePages} ELSE {})
      /\ dropped' = dropped \cup {}
  BY DEF UnmapLarge, Fail, DirEntry, UnmapIndex
<1>2. TypeOK /\ UnmapPlace /\ RootInv /\ CarefulCall
  BY DEF Inv
<1>3. UnmapIndex \in Index /\ page \in Nat /\ page % Region = 0 /\ call.kind = "unmap"
  BY <1>1, <1>2, UnmapIn DEF UnmapPlace, TypeOK
<1>4. UnmapIndex = 1
  BY <1>1, <1>2, <1>3 DEF RootInv, Lvl, IsLevel
<1>5. page = Region
  <2>1. page = Region * 1
    BY <1>3, <1>4, Aligned DEF UnmapIndex
  <2> QED
    BY <2>1, Sizes
<1>6. call.vaddr <= page
  BY <1>1, <1>2, <1>3 DEF Partial, TypeOK
<1>7. Region \in LargePages /\ Region \in BootPages /\ Region \notin LowPages
  BY Sizes DEF LargePages, BootPages, LowPages
<1>8. ~ TakenBack(Region)
  BY <1>1, <1>2, <1>3, <1>5, <1>6, <1>7 DEF CarefulCall
<1>9. ~ BootZone
  BY <1>7, <1>8 DEF TakenBack
<1> QED
  BY <1>1, <1>9

(* Own is preserved.                                                       *)
LEMMA OwnStep ==
  ASSUME Inv, [Next]_vars
  PROVE  Own'
<1>0. Own
  BY DEF Inv
<1>1. CASE UNCHANGED vars \/ \E v \in Touched : TlbFill(v)
  <2>1. UNCHANGED <<mem, free, dropped, pc, page, lpage, data, sub>>
    BY <1>1 DEF vars, TlbFill, cursor
  <2>2. /\ \A i \in Index : (Counts(i)' <=> Counts(i)) /\ Tab(i)' = Tab(i)
        /\ \A i, j \in Index : (Holds(i, j)' <=> Holds(i, j)) /\ Ent(i, j).addr' = Ent(i, j).addr
    BY <2>1 DEF Counts, Holds, Lvl, Tab, Ent, UnmapIndex, LeafOf
  <2>3. InHand' = InHand
    BY <2>1 DEF InHand
  <2>4. Loose' = Loose /\ LooseApart'
    BY <1>0, <2>1, <2>3 DEF Loose, LooseApart, Own
  <2> QED
    BY <1>0, <2>2, <2>4, OwnSame
<1>2. CASE /\ UNCHANGED <<mem, free, dropped>>
           /\ pc \notin {"dir", "link", "leaf", "clearleaf", "cleardir"}
           /\ pc' \notin {"dir", "link", "leaf", "clearleaf", "cleardir"}
  <2>1. InHand = {} /\ InHand' = {}
    BY <1>2, HandOf, HandNext
  <2>2. Loose' = Loose /\ LooseApart'
    BY <1>0, <1>2, <2>1 DEF Loose, LooseApart, Own
  <2> QED
    BY <1>0, <1>2, <2>2, OwnQuiet
<1>3. ASSUME NEW r \in MapRanges, NEW fl \in Flags, MapAlloc(r[1], r[2], fl)
      PROVE  Own'
  BY <1>2, <1>3 DEF MapAlloc, Goto
<1>4. ASSUME NEW r \in UnmapRanges, UnmapFree(r[1], r[2])
      PROVE  Own'
  BY <1>2, <1>4 DEF UnmapFree, Goto
<1>5. CASE \/ MapDone \/ MapPanics \/ UnmapDone \/ UnmapSkip \/ UnmapPartOfLarge
           \/ UnmapDescend \/ UnmapLeafSkip \/ UnmapKeep \/ Return
  BY <1>2, <1>5 DEF MapDone, MapPanics, Panic, UnmapDone, UnmapSkip, UnmapPartOfLarge,
     UnmapDescend, UnmapLeafSkip, UnmapKeep, Return, Goto, Fail
<1>a. CASE UnmapLarge
  BY <1>2, <1>a, LargeNotTaken DEF UnmapLarge, Goto, Fail
<1>6. ASSUME NEW f \in Frames, MapTake(f)
      PROVE  Own'
  <2>1. /\ pc = "map" /\ pc' = "dir" /\ UNCHANGED <<mem, dropped>> /\ data' = f
        /\ f \in free /\ free' = free \ {f}
    BY <1>6 DEF MapTake, Goto
  <2>2. InHand = {} /\ InHand' = {f}
    BY <2>1, HandOf, HandNext
  <2>3. Loose' = Loose /\ LooseApart'
    BY <1>0, <2>1, <2>2 DEF Loose, LooseApart, Own
  <2> QED
    BY <1>0, <2>1, <2>3, OwnQuiet
<1>7. CASE MapDescend
  <2>1. pc = "dir" /\ pc' = "leaf" /\ UNCHANGED <<mem, free, dropped, data>>
    BY <1>7 DEF MapDescend, Goto
  <2>2. InHand' = InHand
    BY <2>1, HandOf, HandNext
  <2>3. Loose' = Loose /\ LooseApart'
    BY <1>0, <2>1, <2>2 DEF Loose, LooseApart, Own
  <2> QED
    BY <1>0, <2>1, <2>3, OwnQuiet
<1>8. CASE MapOver \/ MapNoLevel \/ MapLinkFails
  <2>1. /\ pc \in {"dir", "link"} /\ pc' = "err" /\ UNCHANGED <<mem, free>>
        /\ dropped' = dropped \cup (IF pc = "link" THEN {data, sub} ELSE {data})
    BY <1>8 DEF MapOver, MapNoLevel, MapLinkFails, Fail, Goto
  <2>2. InHand = (IF pc = "link" THEN {data, sub} ELSE {data}) /\ InHand' = {}
    BY <2>1, HandOf, HandNext
  <2>3. Loose' = Loose /\ LooseApart'
    BY <1>0, <2>1, <2>2 DEF Loose, LooseApart, Own
  <2> QED
    BY <1>0, <2>1, <2>3, OwnQuiet
<1>9. ASSUME NEW f \in Frames, NewSublevel(f)
      PROVE  Own'
  <2>1. /\ pc = "dir" /\ pc' = "link" /\ UNCHANGED <<dropped, data>> /\ sub' = f
        /\ f \in free /\ free' = free \ {f}
    BY <1>9 DEF NewSublevel, Goto
  <2>2. /\ \A i \in Index : (Lvl(i)' <=> Lvl(i)) /\ Tab(i)' = Tab(i)
        /\ \A i, j \in Index : Lvl(i) => Ent(i, j)' = Ent(i, j)
    BY <1>9, NewSublevelMem
  <2>3. /\ \A i \in Index : (Counts(i)' <=> Counts(i)) /\ Tab(i)' = Tab(i)
        /\ \A i, j \in Index : /\ Holds(i, j)' <=> Holds(i, j)
                               /\ Holds(i, j) => Ent(i, j).addr' = Ent(i, j).addr
    BY <2>1, <2>2, CountsOf, CountsNext
  <2>4. InHand = {data} /\ InHand' = {data, f}
    BY <2>1, HandOf, HandNext
  <2>5. Loose' = Loose /\ LooseApart'
    BY <1>0, <2>1, <2>4 DEF Loose, LooseApart, Own
  <2> QED
    BY <1>0, <2>3, <2>5, OwnSame
<1> QED
  BY <1>1, <1>3, <1>4, <1>5, <1>6, <1>7, <1>8, <1>9, <1>a, OwnMapLink, OwnMapLeaf, OwnLeafFree,
     OwnLeafClear, OwnFreeSublevel, OwnUnmapClear DEF Next, Step

-----------------------------------------------------------------------------
(***************************************************************************)
(* The invariant is inductive.                                             *)
(***************************************************************************)

(* CarefulCall is what Careful says of the call in progress.               *)
LEMMA CarefulStep ==
  ASSUME Careful, Inv, [Next]_vars
  PROVE  CarefulCall'
<1>0. CarefulCall
  BY DEF Inv
<1>1. CASE UNCHANGED call
  <2>1. AlignUp(End)' = AlignUp(End)
    BY <1>1 DEF AlignUp, AlignDown, End
  <2> QED
    BY <1>0, <1>1, <2>1 DEF CarefulCall, TakenBack
<1>2. ASSUME NEW r \in MapRanges, NEW fl \in Flags, MapAlloc(r[1], r[2], fl)
      PROVE  CarefulCall'
  BY <1>2 DEF MapAlloc, Enter, CarefulCall
<1>3. ASSUME NEW r \in UnmapRanges, UnmapFree(r[1], r[2])
      PROVE  CarefulCall'
  <2>1. call'.vaddr = r[1] /\ call'.size = r[2]
    BY <1>3 DEF UnmapFree, Enter
  <2>2. AlignUp(End)' = AlignUp(r[1] + r[2])
    BY <2>1 DEF AlignUp, AlignDown, End
  <2> QED
    BY <2>1, <2>2 DEF CarefulCall, TakenBack, Careful
<1>4. CASE Return
  BY <1>4 DEF Return, Idle, CarefulCall
<1>5. CASE \E v \in Touched : TlbFill(v)
  BY <1>1, <1>5 DEF TlbFill
<1>6. CASE Step
  <2>1. Return \/ UNCHANGED call
    BY <1>6, MapSide, UnmapSide DEF Step
  <2> QED
    BY <1>1, <1>4, <2>1
<1> QED
  BY <1>1, <1>2, <1>3, <1>5, <1>6 DEF Next, vars

(* Every step preserves it.                                                *)
LEMMA InvStep == Careful /\ Inv /\ [Next]_vars => Inv'
<1> SUFFICES ASSUME Careful, Inv, [Next]_vars PROVE Inv'
  OBVIOUS
<1>1. TypeOK' /\ RootInv' /\ LeafInv' /\ Own'
  BY TypeStep, TablesStep, OwnStep
<1>2. MapPlace' /\ UnmapPlace' /\ TlbCoherent'
  BY MapPlaceStep, UnmapPlaceStep, TlbStep
<1>3. MappedSoFar' /\ UnmappedSoFar' /\ CarefulCall'
  BY MappedStep, UnmappedStep, CarefulStep
<1> QED
  BY <1>1, <1>2, <1>3 DEF Inv

(* It holds always, if the callers are careful.                            *)
LEMMA InvThm == Careful => (Spec => []Inv)
<1> SUFFICES ASSUME Careful PROVE Spec => []Inv
  OBVIOUS
<1>1. Inv /\ [Next]_vars => Inv'
  BY InvStep
<1> QED
  BY <1>1, InitInv, PTL DEF Spec

-----------------------------------------------------------------------------
(***************************************************************************)
(* Theorems.                                                               *)
(***************************************************************************)

(* The variables of the page table code keep their types.                  *)
THEOREM TypeOKThm == Careful => (Spec => []TypeOK)
<1> SUFFICES ASSUME Careful PROVE Spec => []TypeOK
  OBVIOUS
<1>1. Inv => TypeOK
  BY DEF Inv
<1> QED
  BY <1>1, InvThm, PTL

(* The TLB never holds a translation the tables do not hold, whatever the  *)
(* processor caches between two writes of set_entry                        *)
(* (address_space.rs:86-110).                                              *)
THEOREM TlbCoherentThm == Careful => (Spec => []TlbCoherent)
<1> SUFFICES ASSUME Careful PROVE Spec => []TlbCoherent
  OBVIOUS
<1>1. Inv => TlbCoherent
  BY DEF Inv
<1> QED
  BY <1>1, InvThm, PTL

(* The tables in use are those of the directory.                           *)
LEMMA TablesAre == Tables = { Tab(i) : i \in { k \in Index : Lvl(k) } }
<1> SUFFICES ASSUME NEW t
             PROVE  t \in Tables <=> \E i \in Index : Lvl(i) /\ t = Tab(i)
  OBVIOUS
<1>1. ASSUME t \in Tables PROVE \E i \in Index : Lvl(i) /\ t = Tab(i)
  <2>1. PICK v \in VPages : IsLevel(DirEntry(v)) /\ t = DirEntry(v).addr
    BY <1>1 DEF Tables
  <2>2. v \div Region \in Index
    BY PageIndex
  <2> QED
    BY <2>1, <2>2 DEF DirEntry, Lvl, Tab
<1>2. ASSUME NEW i \in Index, Lvl(i), t = Tab(i) PROVE t \in Tables
  <2>1. PICK v \in VPages : v \div Region = i
    BY BootIndex, PageAt
  <2>2. IsLevel(DirEntry(v)) /\ t = DirEntry(v).addr
    BY <1>2, <2>1 DEF DirEntry, Lvl, Tab
  <2> QED
    BY <2>2 DEF Tables
<1> QED
  BY <1>1, <1>2

(* What refers to a frame of the allocator.                                *)
LEMMA ReferencesAre ==
  ASSUME Inv, NEW f \in Frames, NEW r
  PROVE  r \in References(f) <=>
           \/ \E i \in Index : Lvl(i) /\ Tab(i) = f /\ r = <<Root, i>>
           \/ \E i, j \in Index : Lvl(i) /\ Ent(i, j).addr = f /\ r = <<Tab(i), j>>
<1>1. \A i \in Index : Tab(i) = f => Lvl(i)
  <2>1. Tab(1) = Region
    BY DEF Inv, RootInv, NewPage, Tab
  <2>2. Region \in BootPages
    BY Sizes DEF BootPages
  <2> QED
    BY <2>1, <2>2, Names DEF Inv, RootInv
<1>2. ASSUME r \in References(f)
      PROVE  \/ \E i \in Index : Lvl(i) /\ Tab(i) = f /\ r = <<Root, i>>
             \/ \E i, j \in Index : Lvl(i) /\ Ent(i, j).addr = f /\ r = <<Tab(i), j>>
  <2>1. PICK t \in {Root} \cup Tables, j \in Index : r = <<t, j>> /\ mem[t][j].addr = f
    BY <1>2 DEF References
  <2>2. CASE t = Root
    BY <1>1, <2>1, <2>2 DEF Tab
  <2>3. CASE t \in Tables
    BY <2>1, <2>3, TablesAre DEF Ent
  <2> QED
    BY <2>1, <2>2, <2>3
<1>3. ASSUME NEW i \in Index, Tab(i) = f, r = <<Root, i>>
      PROVE  r \in References(f)
  BY <1>3 DEF References, Tab
<1>4. ASSUME NEW i \in Index, NEW j \in Index, Lvl(i), Ent(i, j).addr = f, r = <<Tab(i), j>>
      PROVE  r \in References(f)
  <2>1. Tab(i) \in Tables
    BY <1>4, TablesAre
  <2> QED
    BY <1>4, <2>1 DEF References, Ent
<1> QED
  BY <1>2, <1>3, <1>4

(* With careful callers, between calls every frame is free, referred to by *)
(* one entry, or lost for good: no free frame is allocated to a page or a  *)
(* table, and none is allocated twice (nested_page_table.rs:64-185).       *)
THEOREM FramesAccountedThm == Careful => (Spec => []FramesAccounted)
<1> SUFFICES ASSUME Careful PROVE Spec => []FramesAccounted
  OBVIOUS
<1>1. ASSUME Inv, AtRest, NEW f \in Frames
      PROVE  LET uses == Cardinality(References(f))
             IN  /\ f \in free => uses = 0 /\ f \notin dropped
                 /\ f \in dropped => uses = 0
                 /\ f \notin free \cup dropped => uses = 1
  <2>1. InHand = {} /\ Loose = free \cup dropped
    BY <1>1, HandOf DEF AtRest, Loose
  <2>2. /\ \A i : Counts(i) <=> Lvl(i)
        /\ \A i, j : Holds(i, j) <=> Lvl(i) /\ Ent(i, j).addr \in Frames
    BY <1>1, CountsOf DEF AtRest
  <2>3. f # None
    BY Names
  <2>4. Own
    BY <1>1 DEF Inv
  <2>5. CASE f \in free \cup dropped
    <3>1. \A r : r \notin References(f)
      BY <1>1, <2>1, <2>2, <2>3, <2>4, <2>5, ReferencesAre DEF Own, UsedNotLoose
    <3>2. Cardinality(References(f)) = 0
      BY <3>1, FS_EmptySet
    <3>3. f \in free => f \notin dropped
      BY <2>4 DEF Own, LooseApart
    <3> QED
      BY <2>5, <3>2, <3>3
  <2>6. CASE f \notin free \cup dropped
    <3>1. \E s : References(f) = {s}
      <4>1. CASE \E i \in Index : Counts(i) /\ Tab(i) = f
        <5>1. PICK i \in Index : Lvl(i) /\ Tab(i) = f
          BY <2>2, <4>1
        <5>2. \A k, l \in Index : Lvl(k) => Ent(k, l).addr # f
          BY <2>2, <2>3, <2>4, <5>1 DEF Own, TableOrEntry
        <5>3. \A k \in Index : Lvl(k) /\ Tab(k) = f => k = i
          BY <2>2, <2>4, <5>1 DEF Own, OneTable
        <5>4. \A r : r \in References(f) <=> r = <<Root, i>>
          BY <1>1, <5>1, <5>2, <5>3, ReferencesAre
        <5>5. References(f) = {<<Root, i>>}
          BY <5>4
        <5> QED
          BY <5>5
      <4>2. CASE \E i, j \in Index : Holds(i, j) /\ Ent(i, j).addr = f
        <5>1. PICK i \in Index, j \in Index : Lvl(i) /\ Ent(i, j).addr = f
          BY <2>2, <4>2
        <5>2. \A k \in Index : Lvl(k) => Tab(k) # f
          BY <2>2, <2>3, <2>4, <5>1 DEF Own, TableOrEntry
        <5>3. \A k, l \in Index : Lvl(k) /\ Ent(k, l).addr = f => k = i /\ l = j
          BY <2>2, <2>3, <2>4, <5>1 DEF Own, OneEntry
        <5>4. \A r : r \in References(f) <=> r = <<Tab(i), j>>
          BY <1>1, <5>1, <5>2, <5>3, ReferencesAre
        <5>5. References(f) = {<<Tab(i), j>>}
          BY <5>4
        <5> QED
          BY <5>5
      <4> QED
        BY <2>1, <2>4, <2>6, <4>1, <4>2 DEF Own, Complete
    <3>2. Cardinality(References(f)) = 1
      BY <3>1, FS_Singleton
    <3> QED
      BY <2>6, <3>2
  <2> QED
    BY <2>5, <2>6
<1>2. Inv => FramesAccounted
  BY <1>1 DEF FramesAccounted
<1> QED
  BY <1>2, InvThm, PTL

(* With careful callers, the processor reaches a free frame only through   *)
(* the pages of the bootstrap code and in the window unmap_free leaves     *)
(* between freeing it and clearing its entry                               *)
(* (nested_page_table.rs:124-144).                                         *)
THEOREM FreedOnlyInWindowThm == Careful => (Spec => []FreedOnlyInWindow)
<1> SUFFICES ASSUME Careful PROVE Spec => []FreedOnlyInWindow
  OBVIOUS
<1>1. ASSUME Inv, NEW v \in VPages, Phys(Walk(v)) \in free, v \notin BootMapped
      PROVE  pc = "clearleaf" /\ v = lpage
  <2>1. PICK i, j : i = v \div Region /\ j = v % Region
    OBVIOUS
  <2>a. Walk(v) \notin BootPages /\ Phys(Walk(v)) = Walk(v)
    BY <1>1, Names DEF BootMapped
  <2>2. Walk(v) \in Frames /\ Walk(v) \in free /\ Walk(v) # None
    BY <1>1, <2>a, Names DEF Inv, TypeOK
  <2>3. i \in Index /\ j \in Index /\ Lvl(i) /\ Ent(i, j).p /\ Walk(v) = Ent(i, j).addr
    BY <1>1, <2>1, <2>2, <2>a, WalkInTable DEF Inv
  <2>4. ~ Holds(i, j)
    BY <1>1, <2>2, <2>3 DEF Inv, Own, UsedNotLoose, Loose
  <2>5. ~ (pc = "cleardir" /\ i = UnmapIndex)
    BY <1>1, <2>3 DEF Inv, UnmapPlace
  <2>6. pc = "clearleaf" /\ i = UnmapIndex /\ j = LeafOf
    BY <2>2, <2>3, <2>4, <2>5 DEF Holds, Counts
  <2>7. lpage \in VPages /\ lpage \div Region = UnmapIndex
    BY <1>1, <2>6, LeafIn DEF Inv, UnmapPlace
  <2>8. v \in Nat /\ lpage \in Nat
    BY <2>7, PageIndex
  <2>9. v = lpage
    BY <2>1, <2>6, <2>7, <2>8, SamePage DEF LeafOf
  <2> QED
    BY <2>6, <2>9
<1>2. ASSUME Inv, NEW v \in VPages, IsLevel(DirEntry(v)), DirEntry(v).addr \in free
      PROVE  pc = "cleardir" /\ AlignDown(v) = page
  <2>1. PICK i : i = v \div Region
    OBVIOUS
  <2>2. i \in Index /\ Lvl(i) /\ Tab(i) \in free
    BY <1>2, <2>1, PageIndex DEF DirEntry, Lvl, Tab
  <2>3. ~ Counts(i)
    BY <1>2, <2>2 DEF Inv, Own, UsedNotLoose, Loose
  <2>4. pc = "cleardir" /\ i = UnmapIndex
    BY <2>2, <2>3 DEF Counts
  <2>5. page \in Nat /\ page % Region = 0
    BY <1>2, <2>4 DEF Inv, TypeOK, UnmapPlace
  <2>6. page = Region * i /\ i \in Nat /\ Region \in Nat
    BY <2>4, <2>5, Aligned, Sizes DEF UnmapIndex
  <2>7. AlignDown(v) = page
    BY <2>1, <2>6 DEF AlignDown
  <2> QED
    BY <2>4, <2>7
<1>3. Inv => FreedOnlyInWindow
  BY <1>1, <1>2 DEF FreedOnlyInWindow
<1> QED
  BY <1>3, InvThm, PTL

(* No frame of the allocator is mapped at two pages outside the window.    *)
LEMMA WalkOnce ==
  ASSUME Inv, pc # "clearleaf", NEW u \in VPages, NEW v \in VPages,
         Walk(u) \in Frames, Walk(u) = Walk(v)
  PROVE  u = v
<1>1. PICK i, j, k, l : /\ i = u \div Region /\ j = u % Region
                        /\ k = v \div Region /\ l = v % Region
  OBVIOUS
<1>3. i \in Index /\ j \in Index /\ Lvl(i) /\ Ent(i, j).p /\ Walk(u) = Ent(i, j).addr
  BY <1>1, WalkInTable DEF Inv
<1>4. k \in Index /\ l \in Index /\ Lvl(k) /\ Ent(k, l).p /\ Walk(v) = Ent(k, l).addr
  BY <1>1, WalkInTable DEF Inv
<1>5. Holds(i, j) /\ Holds(k, l)
  BY <1>3, <1>4 DEF Holds, Counts, Inv, UnmapPlace
<1>6. i = k /\ j = l
  BY <1>3, <1>4, <1>5 DEF Inv, Own, OneEntry
<1>7. u \in Nat /\ v \in Nat
  BY PageIndex
<1> QED
  BY <1>1, <1>6, <1>7, SamePage

(* map_alloc returning Ok has mapped every page of its range, each to a    *)
(* frame of its own, or to none without PRESENT                            *)
(* (nested_page_table.rs:64-97).                                           *)
THEOREM MapOkMapsThm == Careful => (Spec => []MapOkMaps)
<1> SUFFICES ASSUME Careful PROVE Spec => []MapOkMaps
  OBVIOUS
<1>1. ASSUME Inv, pc = "ok", call.kind = "map", NEW v \in Asked
      PROVE  IF "PRESENT" \in call.flags
               THEN Walk(v) \in Frames /\ \A u \in Asked : Walk(u) = Walk(v) => u = v
               ELSE Walk(v) = None
  <2>1. page = call.size /\ End = call.vaddr + page
    BY <1>1 DEF Inv, MapPlace, End
  <2>2. v \in VPages /\ call.vaddr <= v /\ v < call.vaddr + page
    BY <2>1 DEF Asked
  <2>3. IF "PRESENT" \in call.flags THEN Walk(v) \in Frames ELSE Walk(v) = None
    BY <1>1, <2>2 DEF Inv, MappedSoFar
  <2>4. ASSUME Walk(v) \in Frames, NEW u \in Asked, Walk(u) = Walk(v)
        PROVE  u = v
    BY <1>1, <2>2, <2>4, WalkOnce DEF Asked
  <2> QED
    BY <2>3, <2>4
<1>2. Inv => MapOkMaps
  BY <1>1 DEF MapOkMaps
<1> QED
  BY <1>2, InvThm, PTL

(* unmap_free returning Ok has left no page of its range mapped            *)
(* (nested_page_table.rs:99-151).                                          *)
THEOREM UnmapOkUnmapsThm == Careful => (Spec => []UnmapOkUnmaps)
<1> SUFFICES ASSUME Careful PROVE Spec => []UnmapOkUnmaps
  OBVIOUS
<1>1. ASSUME Inv, pc = "ok", call.kind = "unmap", NEW v \in Asked
      PROVE  Walk(v) = None
  <2>1. End <= page /\ page \in Nat /\ End \in Nat
    BY <1>1 DEF Inv, UnmapPlace, TypeOK, End
  <2>2. v \in Nat /\ v < End
    BY PageIndex DEF Asked
  <2>3. v < page
    BY <2>1, <2>2
  <2> QED
    BY <1>1, <2>3 DEF Inv, UnmappedSoFar
<1>2. Inv => UnmapOkUnmaps
  BY <1>1 DEF UnmapOkUnmaps
<1> QED
  BY <1>2, InvThm, PTL

-----------------------------------------------------------------------------
(***************************************************************************)
(* Calls come to an end: every step of a call leaves less to do.           *)
(***************************************************************************)

(* A product with a smaller factor is smaller, by as much.                 *)
LEMMA Products ==
  ASSUME NEW r \in Nat, NEW d \in Int, NEW e \in Int, 0 <= e, e <= d
  PROVE  0 <= r * e /\ r * e <= r * d /\ r * e \in Nat /\ r * d \in Nat
  OBVIOUS

(* In map_alloc.                                                           *)
LEMMA MapLess ==
  ASSUME Inv, InCall,
         \/ MapDone \/ MapPanics \/ MapOver \/ MapDescend \/ MapNoLevel
         \/ \E f \in Frames : MapTake(f) \/ NewSublevel(f)
         \/ MapLinkFails \/ MapLink \/ MapLeaf
  PROVE  InCall' => Left' >= 0 /\ Left' < Left
<1>1. page \in Nat /\ call.size \in Nat
  BY DEF Inv, TypeOK
<1>2. pc \in {"dir", "link", "leaf"} => page < call.size
  BY DEF Inv, MapPlace
<1>3. CASE MapDone \/ MapPanics \/ MapOver \/ MapNoLevel \/ MapLinkFails
  BY <1>3 DEF MapDone, MapPanics, Panic, MapOver, MapNoLevel, MapLinkFails, Fail, Goto, InCall
<1>4. CASE \E f \in Frames : MapTake(f)
  <2>1. pc = "map" /\ pc' = "dir" /\ page' = page /\ call' = call /\ page < call.size
    BY <1>4 DEF MapTake, Goto
  <2>2. Left = 4 * (call.size - page) /\ Left' = 4 * (call.size - page) - 1
    BY <2>1 DEF Left
  <2> QED
    BY <1>1, <2>1, <2>2
<1>5. CASE MapDescend
  <2>1. pc = "dir" /\ pc' = "leaf" /\ page' = page /\ call' = call
    BY <1>5 DEF MapDescend, Goto
  <2>2. Left = 4 * (call.size - page) - 1 /\ Left' = 4 * (call.size - page) - 3
    BY <2>1 DEF Left
  <2> QED
    BY <1>1, <1>2, <2>1, <2>2
<1>6. CASE \E f \in Frames : NewSublevel(f)
  <2>1. pc = "dir" /\ pc' = "link" /\ page' = page /\ call' = call
    BY <1>6 DEF NewSublevel, Goto
  <2>2. Left = 4 * (call.size - page) - 1 /\ Left' = 4 * (call.size - page) - 2
    BY <2>1 DEF Left
  <2> QED
    BY <1>1, <1>2, <2>1, <2>2
<1>7. CASE MapLink
  <2>1. pc = "link" /\ pc' = "leaf" /\ page' = page /\ call' = call
    BY <1>7 DEF MapLink, Goto, cursor
  <2>2. Left = 4 * (call.size - page) - 2 /\ Left' = 4 * (call.size - page) - 3
    BY <2>1 DEF Left
  <2> QED
    BY <1>1, <1>2, <2>1, <2>2
<1>8. CASE MapLeaf
  <2>1. pc = "leaf" /\ pc' = "map" /\ page' = page + 1 /\ call' = call
    BY <1>8 DEF MapLeaf, Goto
  <2>2. Left = 4 * (call.size - page) - 3 /\ Left' = 4 * (call.size - (page + 1))
    BY <2>1 DEF Left
  <2> QED
    BY <1>1, <1>2, <2>1, <2>2
<1> QED
  BY <1>3, <1>4, <1>5, <1>6, <1>7, <1>8

(* In unmap_free.                                                          *)
LEMMA UnmapLess ==
  ASSUME Inv, InCall,
         \/ UnmapDone \/ UnmapSkip \/ UnmapPartOfLarge \/ UnmapLarge \/ UnmapDescend
         \/ UnmapLeafSkip \/ UnmapLeafFree \/ UnmapLeafClear
         \/ UnmapKeep \/ FreeSublevel \/ UnmapClear
  PROVE  InCall' => Left' >= 0 /\ Left' < Left
<1>0. CASE UnmapDone \/ UnmapPartOfLarge \/ UnmapLarge
  BY <1>0 DEF UnmapDone, UnmapPartOfLarge, UnmapLarge, Fail, Goto, InCall
<1> SUFFICES ASSUME \/ UnmapSkip \/ UnmapDescend \/ UnmapLeafSkip \/ UnmapLeafFree
                    \/ UnmapLeafClear \/ UnmapKeep \/ FreeSublevel \/ UnmapClear
             PROVE  Left' >= 0 /\ Left' < Left
  BY <1>0
<1>1. /\ TypeOK /\ UnmapPlace /\ call' = call
      /\ pc \in {"unmap", "unmapleaf", "clearleaf", "cleardir"}
  BY UnmapSide DEF Inv
<1>2. page < AlignUp(End)
  BY <1>1 DEF UnmapPlace, UnmapSkip, UnmapDescend, UnmapLeafSkip, UnmapLeafFree,
              UnmapLeafClear, UnmapKeep, FreeSublevel, UnmapClear
<1>3. /\ page \in Nat /\ lpage \in Nat /\ Region \in Nat \ {0} /\ End \in Nat
      /\ SubStart \in Nat /\ SubEnd \in Nat /\ page <= SubStart /\ SubEnd <= page + Region
      /\ SubStart <= SubEnd
  BY <1>1, <1>2, UnmapIn, Sizes DEF TypeOK
<1>4. /\ pc \in {"unmapleaf", "clearleaf", "cleardir"} => SubStart <= lpage /\ lpage <= SubEnd
      /\ pc = "clearleaf" => lpage < SubEnd
      /\ page % Region = 0
  BY <1>1 DEF UnmapPlace
<1>5. PICK a, r : a = AlignUp(End) /\ r = 2 * Region + 3
  OBVIOUS
<1>6. a \in Nat /\ page + Region <= a /\ r \in Nat
  <2>1. a \in Nat /\ a % Region = 0
    BY <1>3, <1>5, AlignUpOf
  <2>2. page + Region <= a
    BY <1>2, <1>3, <1>4, <1>5, <2>1, AlignedGap
  <2> QED
    BY <1>3, <1>5, <2>1, <2>2
<1>7. /\ r * (a - page) \in Nat /\ r * (a - page - 1) \in Nat /\ r * (a - (page + Region)) \in Nat
      /\ r * (a - (page + Region)) <= r * (a - page - 1)
      /\ r * (a - page - 1) + r <= r * (a - page)
  <2>1. a - page \in Int /\ a - page - 1 \in Int /\ a - (page + Region) \in Int
    BY <1>3, <1>6
  <2>2. /\ 0 <= a - (page + Region) /\ a - (page + Region) <= a - page - 1
        /\ 0 <= a - page - 1 /\ a - page - 1 <= a - page
    BY <1>3, <1>6
  <2>3. /\ r * (a - (page + Region)) <= r * (a - page - 1)
        /\ r * (a - page - 1) <= r * (a - page) /\ r * (a - page) \in Nat
        /\ r * (a - page - 1) \in Nat /\ r * (a - (page + Region)) \in Nat
    BY <1>6, <2>1, <2>2, Products
  <2>4. r * (a - page - 1) + r <= r * (a - page)
    BY <1>3, <1>5, <1>6, <2>1, <2>2, Multiples
  <2> QED
    BY <2>3, <2>4
<1>8. PICK x, y, z : /\ x = r * (a - page) /\ y = r * (a - page - 1)
                     /\ z = r * (a - (page + Region))
  OBVIOUS
<1>9. /\ x \in Nat /\ y \in Nat /\ z \in Nat /\ z <= y /\ y + r <= x
  BY <1>7, <1>8
<1>10. /\ pc = "unmap" => Left = x
       /\ pc = "unmapleaf" => Left = y + 2 * (page + Region - lpage) + 2
       /\ pc = "clearleaf" => Left = y + 2 * (page + Region - lpage) + 1
       /\ pc = "cleardir" => Left = y + 1
  BY <1>5, <1>8 DEF Left
<1>11. /\ page' = page /\ pc' = "unmapleaf" => Left' = y + 2 * (page + Region - lpage') + 2
       /\ page' = page /\ pc' = "clearleaf" => Left' = y + 2 * (page + Region - lpage') + 1
       /\ page' = page /\ pc' = "cleardir" => Left' = y + 1
       /\ page' = page + Region /\ pc' = "unmap" => Left' = z
  <2>1. AlignUp(End)' = a
    BY <1>1, <1>5 DEF AlignUp, AlignDown, End
  <2> QED
    BY <1>5, <1>8, <2>1 DEF Left
<1>12. CASE UnmapSkip \/ UnmapKeep \/ UnmapClear
  <2>1. page' = page + Region /\ pc' = "unmap" /\ pc \in {"unmap", "unmapleaf", "cleardir"}
    BY <1>12 DEF UnmapSkip, UnmapKeep, UnmapClear, Goto, NextPage
  <2> QED
    BY <1>3, <1>4, <1>5, <1>9, <1>10, <1>11, <2>1
<1>13. CASE UnmapDescend
  <2>1. page' = page /\ pc' = "unmapleaf" /\ pc = "unmap" /\ lpage' = SubStart
    BY <1>13 DEF UnmapDescend, Goto
  <2> QED
    BY <1>3, <1>5, <1>9, <1>10, <1>11, <2>1
<1>14. CASE UnmapLeafSkip \/ UnmapLeafClear
  <2>1. /\ page' = page /\ pc' = "unmapleaf" /\ pc \in {"unmapleaf", "clearleaf"}
        /\ lpage' = lpage + 1 /\ lpage < SubEnd
    BY <1>4, <1>14 DEF UnmapLeafSkip, UnmapLeafClear, Goto
  <2> QED
    BY <1>3, <1>9, <1>10, <1>11, <2>1
<1>15. CASE UnmapLeafFree \/ FreeSublevel
  <2>1. /\ page' = page /\ pc' \in {"clearleaf", "cleardir"} /\ pc = "unmapleaf" /\ lpage' = lpage
    BY <1>15 DEF UnmapLeafFree, FreeSublevel, Goto, cursor
  <2> QED
    BY <1>3, <1>4, <1>9, <1>10, <1>11, <2>1
<1> QED
  BY <1>12, <1>13, <1>14, <1>15

(* While a call is in progress every step of it leaves less to do, down to *)
(* zero: map_alloc and unmap_free do not loop (nested_page_table.rs:64-151). *)
THEOREM LeavesLessThm == Careful => (Spec => LeavesLess)
<1> SUFFICES ASSUME Careful PROVE Spec => LeavesLess
  OBVIOUS
<1>1. ASSUME Inv, [Next]_vars
      PROVE  [InCall /\ InCall' => Left' >= 0 /\ Left' < Left]_<<pc, page, lpage>>
  <2>1. CASE UNCHANGED vars \/ \E v \in Touched : TlbFill(v)
    BY <2>1 DEF vars, TlbFill, cursor
  <2>2. CASE ~ InCall
    BY <2>2
  <2>3. ASSUME NEW r \in MapRanges, NEW fl \in Flags, MapAlloc(r[1], r[2], fl)
        PROVE  ~ InCall
    BY <2>3 DEF MapAlloc, InCall
  <2>4. ASSUME NEW r \in UnmapRanges, UnmapFree(r[1], r[2])
        PROVE  ~ InCall
    BY <2>4 DEF UnmapFree, InCall
  <2>5. CASE InCall /\ Step
    <3>1. ~ Return
      BY <2>5 DEF InCall, Return
    <3> QED
      BY <1>1, <2>5, <3>1, MapLess, UnmapLess DEF Step
  <2> QED
    BY <1>1, <2>1, <2>2, <2>3, <2>4, <2>5 DEF Next
<1> QED
  BY <1>1, InvThm, PTL DEF Spec, LeavesLess

-----------------------------------------------------------------------------
(***************************************************************************)
(* The page tables implement an address space.                             *)
(***************************************************************************)

(* Between calls there is no call.                                         *)
IdleInv == pc = "idle" => call = Idle

(* That holds always.                                                      *)
LEMMA IdleThm == Spec => []IdleInv
<1>1. Init => IdleInv
  BY DEF Init, IdleInv
<1>2. ASSUME IdleInv, [Next]_vars PROVE IdleInv'
  <2>1. CASE UNCHANGED vars \/ \E v \in Touched : TlbFill(v)
    BY <1>2, <2>1 DEF vars, TlbFill, IdleInv
  <2>2. CASE Return
    BY <2>2 DEF Return, IdleInv
  <2>3. CASE pc' # "idle"
    BY <2>3 DEF IdleInv
  <2>4. ASSUME NEW r \in MapRanges, NEW fl \in Flags, MapAlloc(r[1], r[2], fl)
        PROVE  pc' # "idle"
    BY <2>4 DEF MapAlloc, Goto
  <2>5. ASSUME NEW r \in UnmapRanges, UnmapFree(r[1], r[2])
        PROVE  pc' # "idle"
    BY <2>5 DEF UnmapFree, Goto
  <2>6. CASE Step /\ ~ Return
    BY <1>2, <2>3, <2>6 DEF IdleInv, Step, MapDone, MapPanics, Panic, MapOver, MapDescend,
      MapNoLevel, MapTake, NewSublevel, MapLinkFails, MapLink, MapLeaf, UnmapDone, UnmapSkip,
      UnmapPartOfLarge, UnmapLarge, UnmapDescend, UnmapLeafSkip, UnmapLeafFree,
      UnmapLeafClear, UnmapKeep, FreeSublevel, UnmapClear, Fail, Goto
  <2> QED
    BY <1>2, <2>1, <2>2, <2>3, <2>4, <2>5, <2>6 DEF Next
<1> QED
  BY <1>1, <1>2, PTL DEF Spec

(* The large page covers the pages of index 1.                             *)
LEMMA FixedPages ==
  ASSUME NEW v \in VPages
  PROVE  v \in LargePages <=> v \div Region = 1
<1>1. v \in Nat /\ Region \in Nat \ {0}
  BY PageIndex, Sizes
<1>2. Region % Region = 0 /\ Region \div Region = 1
  <2>1. Region * 1 + 0 = Region
    BY <1>1
  <2> QED
    BY <2>1, BootIndex, DivModOf
<1>3. v \div Region = Region \div Region <=> Region <= v /\ v < Region + Region
  BY <1>1, <1>2, InRegion
<1> QED
  BY <1>1, <1>2, <1>3 DEF LargePages

(* No page is in the scope of no call.                                     *)
LEMMA NoScope ==
  ASSUME call = Idle
  PROVE  Scope = {}
<1>1. call.kind = "none" /\ call.vaddr = 0 /\ call.size = 0
  BY DEF Idle
<1>2. End = 0
  BY <1>1 DEF End
<1>3. \A v \in VPages : ~ (0 <= v /\ v < 0)
  BY PageIndex
<1> QED
  BY <1>1, <1>2, <1>3 DEF Scope, Asked

(* And after a step.                                                       *)
LEMMA NoScopeNext ==
  ASSUME call' = Idle
  PROVE  Scope' = {}
<1>1. call'.kind = "none" /\ call'.vaddr = 0 /\ call'.size = 0
  BY DEF Idle
<1>2. End' = 0
  BY <1>1 DEF End
<1>3. \A v \in VPages : ~ (0 <= v /\ v < 0)
  BY PageIndex
<1> QED
  BY <1>1, <1>2, <1>3 DEF Scope, Asked

(* The frame map_alloc maps is mapped nowhere yet.                         *)
LEMMA DataFresh ==
  ASSUME Inv, pc = "leaf", NEW v \in VPages
  PROVE  Walk(v) # data
<1> SUFFICES ASSUME Walk(v) = data PROVE FALSE
  OBVIOUS
<1>1. PICK i, j : i = v \div Region /\ j = v % Region
  OBVIOUS
<1>2. data \in Frames
  BY DEF Inv, MapPlace
<1>3. i \in Index /\ j \in Index /\ Lvl(i) /\ Ent(i, j).addr = data
  BY <1>1, <1>2, WalkInTable DEF Inv
<1>4. Holds(i, j)
  BY <1>2, <1>3 DEF Holds, Counts
<1>5. data \in Loose
  BY HandOf DEF Loose
<1> QED
  BY <1>3, <1>4, <1>5 DEF Inv, Own, UsedNotLoose

(* The page a write is about lies in the scope of the call.                *)
LEMMA MapInScope ==
  ASSUME Inv, pc = "leaf"
  PROVE  VAddr \in Scope
<1>1. call.kind = "map" /\ page < call.size /\ VAddr \in VPages
  BY DEF Inv, MapPlace
<1>2. page \in Nat /\ call.size \in Nat /\ call.vaddr \in Nat
  BY DEF Inv, TypeOK
<1>3. call.vaddr <= VAddr /\ VAddr < End
  BY <1>1, <1>2 DEF VAddr, End
<1> QED
  BY <1>1, <1>3 DEF Scope, Asked

(* And the page the lower loop of unmap_free is at.                        *)
LEMMA UnmapInScope ==
  ASSUME Inv, pc = "clearleaf"
  PROVE  lpage \in Scope
<1>1. /\ TypeOK /\ UnmapPlace /\ call.kind = "unmap" /\ page < AlignUp(End)
      /\ SubStart <= lpage /\ lpage < SubEnd /\ page % Region = 0
  BY DEF Inv, UnmapPlace
<1>2. lpage \in VPages
  BY <1>1, LeafIn
<1>3. /\ End \in Nat /\ SubStart \in Nat /\ SubEnd \in Nat /\ SubEnd <= page + Region
  BY <1>1, UnmapIn
<1>4. page \in Nat /\ lpage \in Nat /\ call.vaddr \in Nat /\ Region \in Nat
  BY <1>1, Sizes DEF TypeOK
<1>5. page + Region <= AlignUp(End) /\ AlignUp(End) \in Nat
  BY <1>1, <1>3, <1>4, AlignUpOf, AlignedGap
<1>6. call.vaddr <= lpage
  BY <1>1, <1>3, <1>4 DEF SubStart
<1>7. lpage < AlignUp(End)
  BY <1>1, <1>3, <1>4, <1>5
<1> QED
  BY <1>1, <1>2, <1>6, <1>7 DEF Scope

(* Calls that go on keep their scope.                                      *)
LEMMA ScopeSame ==
  ASSUME call' = call
  PROVE  Scope' = Scope
  BY DEF Scope, Asked, End, AlignUp, AlignDown

(* The memory behind each page, and how a write to a table changes it.     *)
Memory == [v \in VPages |-> Phys(Walk(v))]

(* Unless a translation changes, the memory and the bootstrap pages do not.*)
LEMMA MemorySame ==
  ASSUME \A v \in VPages : Walk(v)' = Walk(v)
  PROVE  Memory' = Memory /\ BootMapped' = BootMapped
  BY DEF Memory, BootMapped, Phys

(* When one does, to a frame or to none, the others stay, and the page is  *)
(* no longer one of the bootstrap code's.                                  *)
LEMMA MemoryChanged ==
  ASSUME NEW w \in VPages, NEW a \in Frames \cup {None}, Walk(w)' = a,
         \A v \in VPages \ {w} : Walk(v)' = Walk(v)
  PROVE  Memory' = [Memory EXCEPT ![w] = a] /\ BootMapped' = BootMapped \ {w}
<1>1. a \notin BootPages /\ Phys(a) = a
  BY Names
<1>2. \A v \in VPages : Phys(Walk(v))' = IF v = w THEN a ELSE Phys(Walk(v))
  BY <1>1 DEF Phys
<1>3. Memory' = [Memory EXCEPT ![w] = a]
  BY <1>2 DEF Memory
<1>4. BootMapped' = BootMapped \ {w}
  BY <1>1 DEF BootMapped
<1> QED
  BY <1>3, <1>4

(* With careful callers the tables implement an address space: every write *)
(* changes at most one translation, of a page within the call, to none or  *)
(* to a frame no page has but those of the bootstrap code                  *)
(* (nested_page_table.rs:64-185, address_space.rs:86-110).                 *)
THEOREM ImplementsAddressSpaceThm == Careful => (Spec => ImplementsAddressSpace)
<1> SUFFICES ASSUME Careful PROVE Spec => ImplementsAddressSpace
  OBVIOUS
<1> USE DEF Memory
<1>1. ASSUME Init PROVE AS!Init
  <2>1. Inv /\ call = Idle
    BY <1>1, InitInv DEF Init
  <2>2. ASSUME NEW v \in VPages
        PROVE  /\ v \in BootMapped <=> Phys(Walk(v)) # None
               /\ v \in LargePages => v \in BootMapped
    <3>1. PICK i, j : i = v \div Region /\ j = v % Region
      OBVIOUS
    <3>2. /\ i \in Index /\ j \in Index
          /\ i = 1 => Walk(v) = v /\ v \in LargePages
          /\ i # 1 /\ ~ Lvl(i) => Walk(v) = None
          /\ Lvl(i) => Walk(v) = IF Ent(i, j).p THEN Ent(i, j).addr ELSE None
      BY <2>1, <3>1, WalkCases DEF Inv
    <3>3. Lvl(i) => i = 0 /\ Ent(i, j).addr = j
      BY <1>1, <3>2, InitWalk DEF NewPage
    <3>4. Walk(v) \in BootPages \cup {None} /\ (i = 1 => Walk(v) \in BootPages)
      BY <3>2, <3>3, BootIndex
    <3>5. Walk(v) \in BootPages <=> Phys(Walk(v)) # None
      BY <3>4, Names
    <3> QED
      BY <3>1, <3>4, <3>5, FixedPages DEF BootMapped
  <2>3. BootMapped = {p \in VPages : Memory[p] # None} /\ LargePages \subseteq BootMapped
    BY <2>2, BootIndex DEF BootMapped
  <2> QED
    BY <2>1, <2>3, NoScope DEF AS!Init
<1>2. ASSUME Inv, IdleInv, [Next]_vars PROVE [AS!Next]_AS!vars
  <2>1. CASE call' = call /\ ~ MapLeaf /\ ~ UnmapLeafClear
    <3>1. \A v \in VPages : Walk(v)' = Walk(v)
      BY <1>2, <2>1, WalkSame
    <3>2. Memory' = Memory /\ BootMapped' = BootMapped /\ Scope' = Scope
      BY <2>1, <3>1, MemorySame, ScopeSame
    <3> QED
      BY <3>2 DEF AS!vars
  <2>2. CASE MapLeaf
    <3>1. PICK w : w = VAddr
      OBVIOUS
    <3>2. /\ w \in VPages /\ w \div Region # 1 /\ data \in Frames
          /\ Walk(w)' = IF "PRESENT" \in call.flags THEN data ELSE None
          /\ \A v \in VPages \ {w} : Walk(v)' = Walk(v)
      BY <1>2, <2>2, <3>1, WalkMapLeaf
    <3>3. w \in Scope \ LargePages
      BY <1>2, <2>2, <3>1, <3>2, FixedPages, MapInScope DEF MapLeaf
    <3>4. Scope' = Scope
      BY <2>2, ScopeSame DEF MapLeaf
    <3>5. CASE "PRESENT" \in call.flags
      <4>1. Memory' = [Memory EXCEPT ![w] = data] /\ BootMapped' = BootMapped \ {w}
        BY <3>2, <3>5, MemoryChanged
      <4>2. \A p \in VPages \ BootMapped : Memory[p] # data
        <5>1. \A p \in VPages \ BootMapped : Phys(Walk(p)) = Walk(p)
          BY Names DEF BootMapped
        <5> QED
          BY <1>2, <2>2, <5>1, DataFresh DEF MapLeaf
      <4>3. AS!Map(w, data)
        BY <3>2, <3>3, <3>4, <4>1, <4>2 DEF AS!Map, AS!Fresh
      <4> QED
        BY <3>2, <4>3 DEF AS!Next
    <3>6. CASE ~ "PRESENT" \in call.flags
      <4>1. Memory' = [Memory EXCEPT ![w] = None] /\ BootMapped' = BootMapped \ {w}
        BY <3>2, <3>6, MemoryChanged
      <4>2. AS!Unmap(w)
        BY <3>3, <3>4, <4>1 DEF AS!Unmap
      <4> QED
        BY <3>2, <4>2 DEF AS!Next
    <3> QED
      BY <3>5, <3>6
  <2>3. CASE UnmapLeafClear
    <3>1. PICK w : w = lpage
      OBVIOUS
    <3>2. /\ w \in VPages /\ w \div Region # 1 /\ Walk(w)' = None
          /\ \A v \in VPages \ {w} : Walk(v)' = Walk(v)
      BY <1>2, <2>3, <3>1, WalkUnmapLeaf
    <3>3. w \in Scope \ LargePages
      BY <1>2, <2>3, <3>1, <3>2, FixedPages, UnmapInScope DEF UnmapLeafClear
    <3>4. Scope' = Scope
      BY <2>3, ScopeSame DEF UnmapLeafClear
    <3>5. Memory' = [Memory EXCEPT ![w] = None] /\ BootMapped' = BootMapped \ {w}
      BY <3>2, MemoryChanged
    <3>6. AS!Unmap(w)
      BY <3>3, <3>4, <3>5 DEF AS!Unmap
    <3> QED
      BY <3>2, <3>6 DEF AS!Next
  <2>4. ASSUME pc = "idle", ~ MapLeaf, ~ UnmapLeafClear PROVE AS!Call
    <3>1. \A v \in VPages : Walk(v)' = Walk(v)
      BY <1>2, <2>4, WalkSame
    <3>2. Memory' = Memory /\ BootMapped' = BootMapped
      BY <3>1, MemorySame
    <3>3. Scope = {}
      BY <1>2, <2>4, NoScope DEF IdleInv
    <3>4. Scope' \subseteq VPages
      BY DEF Scope, Asked
    <3> QED
      BY <3>2, <3>3, <3>4 DEF AS!Call
  <2>5. CASE Return
    <3>1. ~ MapLeaf /\ ~ UnmapLeafClear /\ call' = Idle
      BY <2>5 DEF Return, MapLeaf, UnmapLeafClear
    <3>2. Memory' = Memory /\ BootMapped' = BootMapped
      BY <1>2, <3>1, WalkSame, MemorySame
    <3> QED
      BY <3>1, <3>2, NoScopeNext DEF AS!Return, AS!Next
  <2>6. ASSUME NEW r \in MapRanges, NEW fl \in Flags, MapAlloc(r[1], r[2], fl)
        PROVE  pc = "idle" /\ ~ MapLeaf /\ ~ UnmapLeafClear
    BY <2>6 DEF MapAlloc, MapLeaf, UnmapLeafClear
  <2>7. ASSUME NEW r \in UnmapRanges, UnmapFree(r[1], r[2])
        PROVE  pc = "idle" /\ ~ MapLeaf /\ ~ UnmapLeafClear
    BY <2>7 DEF UnmapFree, MapLeaf, UnmapLeafClear
  <2>8. ASSUME Step, ~ Return
        PROVE  call' = call
    BY <1>2, <2>8, MapSide, UnmapSide DEF Step
  <2>9. ASSUME UNCHANGED vars \/ \E v \in Touched : TlbFill(v)
        PROVE  call' = call
    BY <2>9 DEF vars, TlbFill
  <2> QED
    BY <1>2, <2>1, <2>2, <2>3, <2>4, <2>5, <2>6, <2>7, <2>8, <2>9 DEF Next, AS!Next
<1> QED
  BY <1>1, <1>2, InvThm, IdleThm, PTL DEF Spec, ImplementsAddressSpace, AS!Spec
=============================================================================
