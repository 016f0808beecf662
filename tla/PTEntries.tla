------------------------------ MODULE PTEntries -----------------------------
(***************************************************************************)
(* The words of a page table (src/arch/x86/paging/page_table_entry.rs and  *)
(* page_size.rs): how set_entry encodes an entry, how get_entry decodes    *)
(* it, and what the processor makes of it in between.                      *)
(*                                                                         *)
(* A word is the set of its bits that are 1, so | is union.  MappingFlags  *)
(* are a set of names.  One directory entry and one entry of the table     *)
(* below it are enough: entries do not depend on each other.               *)
(***************************************************************************)
EXTENDS Integers

CONSTANTS
  AddrBits,    \* the bits of an address that are told apart
  AskedFlags   \* the MappingFlags pages are mapped with

MappingFlags == {"PRESENT", "READ", "WRITE", "EXECUTE", "USER", "UNCACHED", "GLOBAL"}

ASSUME PTEntriesAssumption ==
  AddrBits \subseteq 12 .. 31 /\ AskedFlags \subseteq SUBSET MappingFlags

VARIABLES
  dir,      \* the word in the directory
  leaf,     \* the word in the table
  setDir,   \* history: the entry set_entry was last given for each
  setLeaf

vars == <<dir, leaf, setDir, setLeaf>>

-----------------------------------------------------------------------------
(***************************************************************************)
(* PTEFlags.  Bits 5 and 6 (accessed, dirty) belong to the processor.      *)
(***************************************************************************)
P == 0
RW == 1
US == 2
PWT == 3
PCD == 4
A == 5
D == 6
PS == 7
G == 8
PTEFlags == {P, RW, US, PWT, PCD, PS, G}

(* The mapping flag each bit stands for.                                   *)
Pairs == { <<P, "PRESENT">>, <<RW, "WRITE">>, <<US, "USER">>,
           <<PCD, "UNCACHED">>, <<G, "GLOBAL">> }

(* Mutant: READ makes a page writable.                                     *)
FromMapping_Read(flags) ==
  { p[1] : p \in { q \in Pairs : q[2] \in flags } }
    \cup { b \in {RW} : "READ" \in flags }

FromMapping(flags) == { p[1] : p \in { q \in Pairs : q[2] \in flags } }

ToMapping(bits) == { p[2] : p \in { q \in Pairs : q[1] \in bits } }

(* Levels are named by the bits they shift off an address, as in the code. *)
Top == 22
Low == 12

PageSize(level) == IF level = Low THEN "4K" ELSE "4M"

NewPage(addr, size, flags) ==
  addr \cup flags \cup { b \in {PS} : size = "4M" }

NewPageTable(addr) == addr \cup {P, RW}

Flags(word) == word \cap PTEFlags

(* Mutant: the accessed and dirty bits are part of the address.            *)
Address_Low(word) == word \ (0 .. 4)

Address(word) == word \ (0 .. 7)

-----------------------------------------------------------------------------
(***************************************************************************)
(* set_entry and get_entry on a word.                                      *)
(***************************************************************************)
Level(addr) == [kind |-> "level", addr |-> addr, flags |-> {}]
Page(addr, flags) == [kind |-> "page", addr |-> addr, flags |-> flags]
Null == Page({}, {})

Refuses(level, word) == level > Low /\ PS \in Flags(word)

Encode(level, e) ==
  IF e.kind = "level"
    THEN NewPageTable(e.addr)
    ELSE NewPage(e.addr, PageSize(level), FromMapping(e.flags))

GetEntry(level, word) ==
  IF P \in Flags(word) /\ level > Low /\ PS \notin Flags(word)
    THEN Level(Address(word))
    ELSE Page(Address(word), ToMapping(Flags(word)))

Linked == GetEntry(Top, dir).kind = "level"

-----------------------------------------------------------------------------
Init ==
  /\ dir = {} /\ leaf = {}
  /\ setDir = Null /\ setLeaf = Null

(* map_page puts a cleared table below the directory.                      *)
Link ==
  /\ ~ Linked /\ ~ Refuses(Top, dir)
  /\ setDir' \in { Level(a) : a \in SUBSET AddrBits }
  /\ dir' = Encode(Top, setDir')
  /\ setLeaf' = Null
  /\ leaf' = {}

(* MappingOver: set_entry leaves the word as it is.                        *)
LinkRefused == ~ Linked /\ Refuses(Top, dir) /\ UNCHANGED vars

(* set_entry in the table: a page, or the NULL that unmaps it.             *)
SetLeaf ==
  /\ Linked /\ ~ Refuses(Low, leaf)
  /\ setLeaf' \in {Null} \cup { Page(a, f) : a \in SUBSET AddrBits, f \in AskedFlags }
  /\ leaf' = Encode(Low, setLeaf')
  /\ UNCHANGED <<dir, setDir>>

(* unmap_free clears the directory entry of a table it freed.              *)
Unlink ==
  /\ Linked
  /\ setDir' = Null
  /\ dir' = Encode(Top, Null)
  /\ UNCHANGED <<leaf, setLeaf>>

(***************************************************************************)
(* The processor walks the tables, and marks what it used.                 *)
(***************************************************************************)
Present == P \in dir /\ PS \notin dir /\ P \in leaf

Touch ==
  /\ P \in dir /\ PS \notin dir
  /\ dir' = dir \cup {A}
  /\ \E bits \in {{}, {A}, {A, D}} :
       /\ bits # {} => Present
       /\ leaf' = leaf \cup bits
  /\ UNCHANGED <<setDir, setLeaf>>

Translation == leaf \cap (12 .. 31)

Effective == { b \in {RW, US} : b \in dir /\ b \in leaf } \cup (leaf \cap {PCD, G})

Next == Link \/ LinkRefused \/ SetLeaf \/ Unlink \/ Touch

Spec == Init /\ [][Next]_vars

-----------------------------------------------------------------------------
(***************************************************************************)
(* Properties.                                                             *)
(***************************************************************************)

(***************************************************************************)
(* get_entry returns what set_entry was given, whatever the processor has  *)
(* written into the word since: the same table, the same flags but READ    *)
(* and EXECUTE, which x86 does not have, the same page of memory, and the  *)
(* same address if the page is not global (page_table_entry.rs:26-121,     *)
(* address_space.rs:100-127).  For global pages see PageAsDocumented.      *)
(***************************************************************************)
EntryHolds ==
  /\ GetEntry(Top, dir) = setDir
  /\ LET e == GetEntry(Low, leaf)
     IN  /\ e.kind = "page"
         /\ e.flags = setLeaf.flags \ {"READ", "EXECUTE"}
         /\ e.addr \cap (12 .. 31) = setLeaf.addr
         /\ "GLOBAL" \notin setLeaf.flags => e.addr = setLeaf.addr

(***************************************************************************)
(* The processor translates to the address that was set exactly while the  *)
(* page was set PRESENT and its table is linked; it allows writing,        *)
(* disables the cache and keeps it in the TLB exactly as asked, and lets   *)
(* user code in only if asked (PageAsDocumented has the converse).  A word *)
(* of the table never has bit 7, which there selects a cache attribute and *)
(* not the page size (page_table_entry.rs:26-50, 92-110).                  *)
(***************************************************************************)
Asked == setDir.kind = "level" /\ "PRESENT" \in setLeaf.flags

TranslatesAsAsked ==
  /\ Present <=> Asked
  /\ PS \notin leaf
  /\ Asked =>
       /\ Translation = setLeaf.addr
       /\ ToMapping(Effective) \ {"USER"} =
            setLeaf.flags \cap {"WRITE", "UNCACHED", "GLOBAL"}
       /\ "USER" \in ToMapping(Effective) => "USER" \in setLeaf.flags

-----------------------------------------------------------------------------
(***************************************************************************)
(* What the documentation says and the code does not do.                   *)
(***************************************************************************)

(***************************************************************************)
(* A page that is mapped has the address it was given: "Get the address    *)
(* this page table entry holds" (page_table_entry.rs:117); and one that is *)
(* mapped with USER can be used by user code: "The memory is user          *)
(* accessible." (address_space.rs:17).                                     *)
(***************************************************************************)
PageAsDocumented ==
  Asked =>
    /\ GetEntry(Low, leaf).addr = setLeaf.addr
    /\ "USER" \in setLeaf.flags => US \in Effective
=============================================================================
