-------------------------- MODULE PTEntriesProofs ---------------------------
(***************************************************************************)
(* Proofs about PTEntries: for every set of address bits, an entry of a    *)
(* page table holds what set_entry was given, and the processor translates *)
(* accordingly.                                                            *)
(***************************************************************************)
EXTENDS PTEntries, TLAPS

(* A directory word is a table's, and the processor may have marked it; or *)
(* it is null, with PS if set_entry wrote it.                              *)
DirInv ==
  \/ /\ setDir = Null
     /\ dir \in {{}, {PS}}
  \/ \E a \in SUBSET AddrBits :
       /\ setDir = Level(a)
       /\ dir \ {A} = a \cup {P, RW}

(* A word of the table is the page that was set, with the marks.           *)
LeafInv ==
  \E a \in SUBSET AddrBits, f \in SUBSET MappingFlags :
    /\ setLeaf = Page(a, f)
    /\ leaf \ {A, D} = a \cup FromMapping(f)

Inv == DirInv /\ LeafInv

-----------------------------------------------------------------------------
(* The five pairs, which each have a bit and a name.                       *)
LEMMA PairCases ==
  /\ \A p \in Pairs :
       \/ p[1] = P /\ p[2] = "PRESENT"
       \/ p[1] = RW /\ p[2] = "WRITE"
       \/ p[1] = US /\ p[2] = "USER"
       \/ p[1] = PCD /\ p[2] = "UNCACHED"
       \/ p[1] = G /\ p[2] = "GLOBAL"
  /\ \E p \in Pairs : p[1] = P /\ p[2] = "PRESENT"
  /\ \E p \in Pairs : p[1] = RW /\ p[2] = "WRITE"
  /\ \E p \in Pairs : p[1] = US /\ p[2] = "USER"
  /\ \E p \in Pairs : p[1] = PCD /\ p[2] = "UNCACHED"
  /\ \E p \in Pairs : p[1] = G /\ p[2] = "GLOBAL"
<1>1. ASSUME NEW p \in Pairs
      PROVE  \/ p[1] = P /\ p[2] = "PRESENT"
             \/ p[1] = RW /\ p[2] = "WRITE"
             \/ p[1] = US /\ p[2] = "USER"
             \/ p[1] = PCD /\ p[2] = "UNCACHED"
             \/ p[1] = G /\ p[2] = "GLOBAL"
  BY DEF Pairs
<1>2. /\ <<P, "PRESENT">> \in Pairs /\ <<RW, "WRITE">> \in Pairs
      /\ <<US, "USER">> \in Pairs /\ <<PCD, "UNCACHED">> \in Pairs
      /\ <<G, "GLOBAL">> \in Pairs
  BY DEF Pairs
<1> QED
  BY <1>1, <1>2

(* The bits of PTEFlags::from_mapping, one by one.                         *)
LEMMA FromMappingBits ==
  ASSUME NEW f
  PROVE  /\ FromMapping(f) \subseteq {P, RW, US, PCD, G}
         /\ P \in FromMapping(f) <=> "PRESENT" \in f
         /\ RW \in FromMapping(f) <=> "WRITE" \in f
         /\ US \in FromMapping(f) <=> "USER" \in f
         /\ PCD \in FromMapping(f) <=> "UNCACHED" \in f
         /\ G \in FromMapping(f) <=> "GLOBAL" \in f
<1>1. ASSUME NEW b
      PROVE  b \in FromMapping(f) <=>
               \/ b = P /\ "PRESENT" \in f
               \/ b = RW /\ "WRITE" \in f
               \/ b = US /\ "USER" \in f
               \/ b = PCD /\ "UNCACHED" \in f
               \/ b = G /\ "GLOBAL" \in f
  <2>1. b \in FromMapping(f) <=> \E p \in Pairs : p[2] \in f /\ p[1] = b
    BY DEF FromMapping
  <2> QED
    BY <2>1, PairCases
<1>2. P = 0 /\ RW = 1 /\ US = 2 /\ PCD = 4 /\ G = 8
  BY DEF P, RW, US, PCD, G
<1>3. FromMapping(f) \subseteq {P, RW, US, PCD, G}
  BY <1>1
<1>4. /\ P # RW /\ P # US /\ P # PCD /\ P # G /\ RW # US /\ RW # PCD /\ RW # G
      /\ US # PCD /\ US # G /\ PCD # G
  BY <1>2
<1> QED
  BY <1>1, <1>3, <1>4

(* The names of PTEFlags::to_mapping, one by one.                          *)
LEMMA ToMappingNames ==
  ASSUME NEW bits
  PROVE  \A n : n \in ToMapping(bits) <=>
           \/ n = "PRESENT" /\ P \in bits
           \/ n = "WRITE" /\ RW \in bits
           \/ n = "USER" /\ US \in bits
           \/ n = "UNCACHED" /\ PCD \in bits
           \/ n = "GLOBAL" /\ G \in bits
<1> SUFFICES ASSUME NEW n
             PROVE  n \in ToMapping(bits) <=>
                      \/ n = "PRESENT" /\ P \in bits
                      \/ n = "WRITE" /\ RW \in bits
                      \/ n = "USER" /\ US \in bits
                      \/ n = "UNCACHED" /\ PCD \in bits
                      \/ n = "GLOBAL" /\ G \in bits
  OBVIOUS
<1>1. n \in ToMapping(bits) <=> \E p \in Pairs : p[1] \in bits /\ p[2] = n
  BY DEF ToMapping
<1> QED
  BY <1>1, PairCases

(* x86 has every mapping flag but READ and EXECUTE.                        *)
LEMMA MappingRoundTrip ==
  ASSUME NEW f \in SUBSET MappingFlags
  PROVE  ToMapping(FromMapping(f)) = f \ {"READ", "EXECUTE"}
<1> SUFFICES ASSUME NEW n
             PROVE  n \in ToMapping(FromMapping(f)) <=> n \in f \ {"READ", "EXECUTE"}
  OBVIOUS
<1>1. n \in ToMapping(FromMapping(f)) <=>
        /\ n \in {"PRESENT", "WRITE", "USER", "UNCACHED", "GLOBAL"}
        /\ n \in f
  BY FromMappingBits, ToMappingNames
<1> QED
  BY <1>1 DEF MappingFlags

(* Addresses and flags do not meet.                                        *)
LEMMA AddrAboveFlags ==
  ASSUME NEW a \in SUBSET AddrBits
  PROVE  /\ a \subseteq 12 .. 31 /\ a \cap (0 .. 8) = {}
  BY PTEntriesAssumption

-----------------------------------------------------------------------------
(* What the directory word is to get_entry and to the processor.           *)
LEMMA DirWord ==
  ASSUME DirInv
  PROVE  /\ GetEntry(Top, dir) = setDir
         /\ Linked <=> setDir.kind = "level"
         /\ Linked <=> P \in dir /\ PS \notin dir
         /\ Linked => RW \in dir /\ US \notin dir
<1>1. CASE setDir = Null /\ dir \in {{}, {PS}}
  <2>1. P \notin dir
    BY <1>1 DEF P, PS
  <2>2. Flags(dir) = dir /\ Address(dir) = {}
    BY <1>1 DEF Flags, Address, PTEFlags, PS
  <2>3. ToMapping(dir) = {}
    BY <1>1, ToMappingNames DEF P, RW, US, PCD, G, PS
  <2>4. GetEntry(Top, dir) = Null
    BY <2>1, <2>2, <2>3 DEF GetEntry, Null
  <2> QED
    BY <1>1, <2>1, <2>4 DEF Linked, Null, Page
<1>2. ASSUME NEW a \in SUBSET AddrBits, setDir = Level(a), dir \ {A} = a \cup {P, RW}
      PROVE  /\ GetEntry(Top, dir) = setDir
             /\ Linked <=> setDir.kind = "level"
             /\ Linked <=> P \in dir /\ PS \notin dir
             /\ Linked => RW \in dir /\ US \notin dir
  <2>1. P \in dir /\ RW \in dir /\ PS \notin dir /\ US \notin dir
    BY <1>2, AddrAboveFlags DEF P, RW, PS, US, A
  <2>2. Address(dir) = a
    BY <1>2, AddrAboveFlags DEF Address, P, RW, A
  <2>3. GetEntry(Top, dir) = Level(a)
    BY <2>1, <2>2 DEF GetEntry, Flags, PTEFlags, Top, Low
  <2> QED
    BY <1>2, <2>1, <2>3 DEF Linked, Level
<1> QED
  BY <1>1, <1>2 DEF DirInv

(* What a word of the table is to get_entry and to the processor.          *)
LEMMA LeafWord ==
  ASSUME NEW a \in SUBSET AddrBits, NEW f \in SUBSET MappingFlags,
         leaf \ {A, D} = a \cup FromMapping(f)
  PROVE  /\ Flags(leaf) = FromMapping(f)
         /\ Address(leaf) = a \cup (FromMapping(f) \cap {G})
         /\ PS \notin leaf
         /\ Translation = a
         /\ \A b \in {P, RW, US, PCD, G} : b \in leaf <=> b \in FromMapping(f)
<1>1. FromMapping(f) \subseteq {0, 1, 2, 4, 8}
  BY FromMappingBits DEF P, RW, US, PCD, G
<1>2. A = 5 /\ D = 6 /\ PS = 7 /\ G = 8 /\ PTEFlags = {0, 1, 2, 3, 4, 7, 8}
  BY DEF A, D, PS, G, PTEFlags, P, RW, US, PWT, PCD
<1>3. Flags(leaf) = FromMapping(f)
  BY <1>1, <1>2, AddrAboveFlags DEF Flags
<1>4. Address(leaf) = a \cup (FromMapping(f) \cap {G})
  BY <1>1, <1>2, AddrAboveFlags DEF Address
<1>5. PS \notin leaf
  BY <1>1, <1>2, AddrAboveFlags
<1>6. Translation = a
  BY <1>1, <1>2, AddrAboveFlags DEF Translation
<1>7. \A b \in {0, 1, 2, 4, 8} : b \in leaf <=> b \in FromMapping(f)
  BY <1>1, <1>2, AddrAboveFlags
<1> QED
  BY <1>3, <1>4, <1>5, <1>6, <1>7 DEF P, RW, US, PCD, G

-----------------------------------------------------------------------------
(* The words are null at boot.                                             *)
LEMMA InvInit == Init => Inv
<1> SUFFICES ASSUME Init PROVE Inv
  OBVIOUS
<1>1. DirInv
  BY DEF Init, DirInv
<1>2. FromMapping({}) = {}
  BY FromMappingBits DEF P, RW, US, PCD, G
<1>3. LeafInv
  BY <1>2 DEF Init, LeafInv, Null
<1> QED
  BY <1>1, <1>3 DEF Inv

(* set_entry and the processor keep what a word says.                      *)
LEMMA InvNext == Inv /\ [Next]_vars => Inv'
<1> SUFFICES ASSUME Inv, [Next]_vars PROVE Inv'
  OBVIOUS
<1> USE DEF Inv
<1>0. FromMapping({}) = {}
  BY FromMappingBits DEF P, RW, US, PCD, G
<1>1. CASE Link
  <2>1. PICK a \in SUBSET AddrBits : setDir' = Level(a)
    BY <1>1 DEF Link
  <2>2. dir' = a \cup {P, RW}
    BY <1>1, <2>1 DEF Link, Encode, Level, NewPageTable
  <2>3. DirInv'
    BY <2>1, <2>2, AddrAboveFlags DEF DirInv, A, P, RW
  <2>4. LeafInv'
    BY <1>0, <1>1 DEF Link, LeafInv, Null
  <2> QED
    BY <2>3, <2>4
<1>2. CASE LinkRefused \/ UNCHANGED vars
  BY <1>2 DEF LinkRefused, vars, DirInv, LeafInv
<1>3. CASE SetLeaf
  <2>1. PICK a \in SUBSET AddrBits, f \in SUBSET MappingFlags : setLeaf' = Page(a, f)
    BY <1>3, PTEntriesAssumption DEF SetLeaf, Null
  <2>2. leaf' = a \cup FromMapping(f)
    BY <1>3, <2>1 DEF SetLeaf, Encode, Page, NewPage, PageSize
  <2>3. leaf' \ {A, D} = leaf'
    BY <2>2, AddrAboveFlags, FromMappingBits DEF A, D, P, RW, US, PCD, G
  <2>4. LeafInv'
    BY <2>1, <2>2, <2>3 DEF LeafInv
  <2>5. DirInv'
    BY <1>3 DEF SetLeaf, DirInv
  <2> QED
    BY <2>4, <2>5
<1>4. CASE Unlink
  <2>1. dir' = {PS}
    BY <1>0, <1>4 DEF Unlink, Encode, Null, Page, NewPage, PageSize, Top, Low
  <2> QED
    BY <1>4, <2>1 DEF Unlink, DirInv, LeafInv
<1>5. CASE Touch
  <2>1. setDir # Null
    BY <1>5, DirWord DEF Touch, Null, Page
  <2>2. DirInv'
    BY <1>5, <2>1 DEF Touch, DirInv
  <2>3. LeafInv'
    BY <1>5 DEF Touch, LeafInv
  <2> QED
    BY <2>2, <2>3
<1> QED
  BY <1>1, <1>2, <1>3, <1>4, <1>5 DEF Next

(* The invariant holds in every reachable state.                           *)
LEMMA Invariance == Spec => []Inv
  BY InvInit, InvNext, PTL DEF Spec

-----------------------------------------------------------------------------
(***************************************************************************)
(* get_entry returns what set_entry was given, whatever the processor has  *)
(* marked: the table, the flags x86 has, the page of memory, and the whole *)
(* address of a page that is not global (page_table_entry.rs:26-121,       *)
(* address_space.rs:100-127).  The address of a global page is wrong.      *)
(***************************************************************************)
THEOREM EntryHoldsThm == Spec => []EntryHolds
<1> SUFFICES ASSUME Inv PROVE EntryHolds
  BY Invariance, PTL
<1>1. GetEntry(Top, dir) = setDir
  BY DirWord DEF Inv
<1>2. PICK a \in SUBSET AddrBits, f \in SUBSET MappingFlags :
        setLeaf = Page(a, f) /\ leaf \ {A, D} = a \cup FromMapping(f)
  BY DEF Inv, LeafInv
<1>3. GetEntry(Low, leaf) = Page(a \cup (FromMapping(f) \cap {G}), f \ {"READ", "EXECUTE"})
  <2>1. /\ Address(leaf) = a \cup (FromMapping(f) \cap {G})
        /\ ToMapping(Flags(leaf)) = f \ {"READ", "EXECUTE"}
    BY <1>2, LeafWord, MappingRoundTrip
  <2>2. ~(Low > Low)
    BY DEF Low
  <2> QED
    BY <2>1, <2>2 DEF GetEntry
<1>4. (a \cup (FromMapping(f) \cap {G})) \cap (12 .. 31) = a
  BY AddrAboveFlags DEF G
<1>5. "GLOBAL" \notin f => a \cup (FromMapping(f) \cap {G}) = a
  BY FromMappingBits
<1> QED
  BY <1>1, <1>2, <1>3, <1>4, <1>5 DEF EntryHolds, Page

(***************************************************************************)
(* The processor translates to the address that was set exactly while the  *)
(* page is PRESENT and its table linked; writing, caching and global are   *)
(* as asked, and user code is let in only if asked                         *)
(* (page_table_entry.rs:26-50, 92-110).  It does not say that user code is *)
(* let in when asked.                                                      *)
(***************************************************************************)
THEOREM TranslatesAsAskedThm == Spec => []TranslatesAsAsked
<1> SUFFICES ASSUME Inv PROVE TranslatesAsAsked
  BY Invariance, PTL
<1>1. PICK a \in SUBSET AddrBits, f \in SUBSET MappingFlags :
        setLeaf = Page(a, f) /\ leaf \ {A, D} = a \cup FromMapping(f)
  BY DEF Inv, LeafInv
<1>2. setLeaf.addr = a /\ setLeaf.flags = f
  BY <1>1 DEF Page
<1>3. /\ PS \notin leaf /\ Translation = a
      /\ \A b \in {P, RW, US, PCD, G} : b \in leaf <=> b \in FromMapping(f)
  BY <1>1, LeafWord
<1>4. Present <=> setDir.kind = "level" /\ "PRESENT" \in f
  BY <1>3, DirWord, FromMappingBits DEF Inv, Present
<1>5. ASSUME setDir.kind = "level"
      PROVE  /\ ToMapping(Effective) \ {"USER"} = f \cap {"WRITE", "UNCACHED", "GLOBAL"}
             /\ "USER" \in ToMapping(Effective) => "USER" \in f
  <2>1. RW \in dir /\ US \notin dir
    BY <1>5, DirWord DEF Inv
  <2>2. P = 0 /\ RW = 1 /\ US = 2 /\ PCD = 4 /\ G = 8
    BY DEF P, RW, US, PCD, G
  <2>3. /\ P \notin Effective /\ US \notin Effective
        /\ RW \in Effective <=> RW \in leaf
        /\ PCD \in Effective <=> PCD \in leaf
        /\ G \in Effective <=> G \in leaf
    BY <2>1, <2>2 DEF Effective
  <2>4. /\ RW \in leaf <=> "WRITE" \in f
        /\ PCD \in leaf <=> "UNCACHED" \in f
        /\ G \in leaf <=> "GLOBAL" \in f
    BY <1>3, FromMappingBits
  <2> QED
    BY <2>3, <2>4, ToMappingNames
<1> QED
  BY <1>2, <1>3, <1>4, <1>5 DEF TranslatesAsAsked, Asked
=============================================================================
