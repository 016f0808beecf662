----------------------------- MODULE Bootstrap ------------------------------
(***************************************************************************)
(* The page tables _start builds (src/arch/x86/x32/bootstrap.S) for a      *)
(* kernel laid out by src/arch/x86/x32/linker.ld, before paging is on.     *)
(*                                                                         *)
(* The tables are consecutive words of memory: the directory, the table of *)
(* the first region, the two tables of the kernel, and what the linker     *)
(* put behind them.  An entry holds a page number, or the index of a table.*)
(***************************************************************************)
EXTENDS Integers

CONSTANTS
  PAGE_SIZE,  \* bytes of a page: 4 KiB
  ENTRIES,    \* entries of a table: 1024
  LOWMEM,     \* where the kernel is loaded: 1 MiB
  HALF,       \* the directory index of KERNEL_OFFSET
  MaxEnd      \* the largest kernel_end considered

REGION == ENTRIES * PAGE_SIZE   \* 4 MiB

ASSUME BootstrapAssumption ==
  /\ PAGE_SIZE \in Nat \ {0} /\ ENTRIES \in Nat \ {0}
  /\ LOWMEM % PAGE_SIZE = 0 /\ LOWMEM \in 1 .. REGION - PAGE_SIZE
  /\ HALF \in 2 .. ENTRIES - 2
  /\ MaxEnd \in REGION .. 3 * REGION

VARIABLES
  image,     \* the symbols of the linker script, as physical addresses
  mem,       \* the words from kernel_top_level_page_table on
  esi, edi,  \* the registers: an address, and the index of a word
  tmp,       \* kernel_tmp_page_entry_address
  eip        \* the instruction it is at

startVars == <<image, mem, esi, edi, tmp, eip>>

Top == 0
Boot == ENTRIES
Higher == 2 * ENTRIES
Behind == 4 * ENTRIES
Words == 0 .. 6 * ENTRIES - 1

Align(x) == ((x + PAGE_SIZE - 1) \div PAGE_SIZE) * PAGE_SIZE

Images ==
  { i \in [bootstrap_end : LOWMEM + 1 .. MaxEnd, kernel_start : 0 .. MaxEnd,
           data_start : 0 .. MaxEnd, kernel_end : 0 .. MaxEnd] :
      /\ i.kernel_start = Align(i.bootstrap_end)
      /\ i.kernel_start < i.data_start /\ i.data_start % PAGE_SIZE = 0
      /\ i.data_start < i.kernel_end }

TmpPage == Align(image.kernel_end)

Entry(addr, flags) == [addr |-> addr, flags |-> flags]

Zero == Entry(0, {})

StartInit ==
  /\ image \in Images
  /\ mem = [w \in Words |-> Zero]
  /\ esi = 0 /\ edi = 0 /\ tmp = 0
  /\ eip = "first"

-----------------------------------------------------------------------------
Goto(l) == eip' = l

(* The first 4 MiB have a table.                                           *)
MapFirst ==
  /\ eip = "first"
  /\ mem' = [mem EXCEPT ![Top] = Entry(Boot, {"P", "RW"})]
  /\ esi' = REGION /\ edi' = Top + 1
  /\ Goto("lower")
  /\ UNCHANGED <<image, tmp>>

(* Mutant: no page size bit.                                               *)
LargeEntry_NoPS(address) == Entry(address \div PAGE_SIZE, {"P", "RW"})

LargeEntry(address) == Entry(address \div PAGE_SIZE, {"P", "RW", "PS"})

(* map_lower.loop: large pages while the next address is above 8 MiB.      *)
MapLower ==
  /\ eip = "lower"
  /\ mem' = [mem EXCEPT ![edi] = LargeEntry(esi)]
  /\ esi' = esi + REGION /\ edi' = edi + 1
  /\ Goto(IF esi' > 2 * REGION THEN "lower" ELSE "higher")
  /\ UNCHANGED <<image, tmp>>

MapHigher ==
  /\ eip = "higher"
  /\ mem' = [mem EXCEPT ![Top + HALF] = Entry(Higher, {"P", "RW"}),
                        ![Top + HALF + 1] = Entry(Higher + ENTRIES, {"P", "RW"})]
  /\ Goto("check bootstrap")
  /\ UNCHANGED <<image, esi, edi, tmp>>

BootstrapTooBig == REGION < image.bootstrap_end

(* Mutant: the temporary page is forgotten.                                *)
KernelTooBig_End == 2 * REGION < image.kernel_end

(* Mutant: the size is not checked.                                        *)
KernelTooBig_Never == FALSE

KernelTooBig == 2 * REGION < TmpPage + PAGE_SIZE

CheckBootstrap ==
  /\ eip = "check bootstrap"
  /\ esi' = 0 /\ edi' = Boot
  /\ Goto(IF BootstrapTooBig THEN "too big" ELSE "low")
  /\ UNCHANGED <<image, mem, tmp>>

CheckKernel ==
  /\ eip = "check kernel"
  /\ esi' = image.kernel_start
  /\ edi' = Higher + image.kernel_start \div PAGE_SIZE
  /\ Goto(IF KernelTooBig THEN "too big" ELSE "code")
  /\ UNCHANGED <<image, mem, tmp>>

(***************************************************************************)
(* The four calls of mmap.  The registers go on from call to call.         *)
(***************************************************************************)
Call(end, flags, next) == [end |-> end, flags |-> flags, next |-> next]

Calls ==
  [low  |-> Call(LOWMEM, {"P", "RW"}, "rest"),
   rest |-> Call(REGION, {"P"}, "check kernel"),
   code |-> Call(image.data_start, {"P", "G"}, "data"),
   data |-> Call(image.kernel_end, {"P", "RW", "G"}, "tmp")]

(* Mutant: jbe for jb.                                                     *)
More_Equal(address, end) == address <= end

More(address, end) == address < end

Mmap ==
  /\ eip \in DOMAIN Calls
  /\ mem' = [mem EXCEPT ![edi] = Entry(esi \div PAGE_SIZE, Calls[eip].flags)]
  /\ esi' = esi + PAGE_SIZE /\ edi' = edi + 1
  /\ Goto(IF More(esi', Calls[eip].end) THEN eip ELSE Calls[eip].next)
  /\ UNCHANGED <<image, tmp>>

(* The temporary page, then paging is switched on and ksetup is called.    *)
SetupTmp ==
  /\ eip = "tmp"
  /\ tmp' = Higher + TmpPage \div PAGE_SIZE
  /\ Goto("ksetup")
  /\ UNCHANGED <<image, mem, esi, edi>>

StartNext ==
  \/ MapFirst \/ MapLower \/ MapHigher \/ CheckBootstrap \/ Mmap
  \/ CheckKernel \/ SetupTmp

StartSpec == StartInit /\ [][StartNext]_startVars

-----------------------------------------------------------------------------
(***************************************************************************)
(* Properties.                                                             *)
(***************************************************************************)

(* The processor's walk: the word that maps a page, if the directory has a *)
(* table there.                                                            *)
WordOf(page) == mem[Top + page \div ENTRIES].addr + (page % ENTRIES)

Translation(page) ==
  LET d == mem[Top + page \div ENTRIES]
      w == mem[WordOf(page)]
  IN  IF "P" \notin d.flags THEN -1
      ELSE IF "PS" \in d.flags THEN d.addr + (page % ENTRIES)
      ELSE IF "P" \notin w.flags THEN -1
      ELSE w.addr

High(page) == HALF * ENTRIES + page

KernelPages == { b \div PAGE_SIZE : b \in image.kernel_start .. image.kernel_end - 1 }
DataPages == { b \div PAGE_SIZE : b \in image.data_start .. image.kernel_end - 1 }

(***************************************************************************)
(* ksetup runs with exactly the bytes of the kernel mapped in the higher   *)
(* half, all of them and no page more, and the read-write ones are those   *)
(* of the data, wherever the sections begin and end (lines 190-205).       *)
(***************************************************************************)
KernelMapped ==
  eip = "ksetup" =>
    \A p \in 0 .. 2 * ENTRIES - 1 :
      /\ Translation(High(p)) = IF p \in KernelPages THEN p ELSE -1
      /\ "RW" \in mem[WordOf(High(p))].flags <=> p \in DataPages

(* Paging is switched on with the first 8 MiB where they were: the code    *)
(* that runs, the boot information and the screen (lines 147-188).         *)
LowIdentity ==
  eip = "ksetup" => \A p \in 0 .. 2 * ENTRIES - 1 : Translation(p) = p

(***************************************************************************)
(* TMP_PAGE_ENTRY is the word that maps the page behind the kernel, in the *)
(* kernel's tables and free (lines 190-193, 207-211; tmp_page.rs:7-10).    *)
(***************************************************************************)
TmpEntryFree ==
  eip = "ksetup" =>
    /\ tmp \in Higher .. Behind - 1
    /\ tmp = WordOf(High(TmpPage \div PAGE_SIZE))
    /\ mem[tmp] = Zero

(* Whatever the size of the kernel, the loops write no word behind the     *)
(* tables, where the linker put other data (lines 66-73, 90-104).          *)
TablesOnly == \A w \in Words : w >= Behind => mem[w] = Zero
=============================================================================
