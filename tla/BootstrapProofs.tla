--------------------------- MODULE BootstrapProofs --------------------------
(***************************************************************************)
(* TLAPS proofs about Bootstrap, for pages and tables of any size and for  *)
(* every layout of the kernel.                                             *)
(***************************************************************************)
EXTENDS Bootstrap, TLAPS

(* The image in pages: the end of the first mmap, the beginning of the     *)
(* code and of the data, and the page behind the kernel.                   *)
LowPages == LOWMEM \div PAGE_SIZE
CodePage == image.kernel_start \div PAGE_SIZE
DataPage == image.data_start \div PAGE_SIZE
EndPage == TmpPage \div PAGE_SIZE

(* Where _start is: labels in the order in which it passes them.           *)
InLow == eip \in {"low", "rest"}
InKernel == eip \in {"code", "data", "tmp", "ksetup"}

(***************************************************************************)
(* The words written so far.                                               *)
(***************************************************************************)
TopWord(w) ==
  IF w = Top /\ eip # "first" THEN Entry(Boot, {"P", "RW"})
  ELSE IF w = Top + 1 /\ eip \notin {"first", "lower"} THEN LargeEntry(REGION)
  ELSE IF w = HALF /\ eip \notin {"first", "lower", "higher"} THEN Entry(Higher, {"P", "RW"})
  ELSE IF w = HALF + 1 /\ eip \notin {"first", "lower", "higher"}
         THEN Entry(Higher + ENTRIES, {"P", "RW"})
  ELSE Zero

LowWord(w) ==
  IF InKernel \/ eip = "check kernel" \/ (InLow /\ w < edi)
    THEN Entry(w - Boot, IF w - Boot < LowPages THEN {"P", "RW"} ELSE {"P"})
    ELSE Zero

KernelWord(w) ==
  IF InKernel /\ Higher + CodePage <= w /\ w < edi
    THEN Entry(w - Higher, IF w - Higher < DataPage THEN {"P", "G"} ELSE {"P", "RW", "G"})
    ELSE Zero

Word(w) == IF w < Boot THEN TopWord(w) ELSE IF w < Higher THEN LowWord(w) ELSE KernelWord(w)

(***************************************************************************)
(* The inductive invariant: the tables hold what was written so far, the   *)
(* registers name the same page, and each mmap stays within its pages.     *)
(***************************************************************************)
Registers ==
  /\ eip = "lower" => esi = REGION /\ edi = Top + 1
  /\ InLow => esi = (edi - Boot) * PAGE_SIZE
  /\ eip = "low" => edi \in Boot .. Boot + LowPages - 1
  /\ eip = "rest" => edi \in Boot + LowPages .. Higher - 1
  /\ InKernel => esi = (edi - Higher) * PAGE_SIZE /\ EndPage < 2 * ENTRIES
  /\ eip = "code" => edi \in Higher + CodePage .. Higher + DataPage - 1
  /\ eip = "data" => edi \in Higher + DataPage .. Higher + EndPage - 1
  /\ eip \in {"tmp", "ksetup"} => edi = Higher + EndPage

Inv ==
  /\ image \in Images
  /\ eip \in {"first", "lower", "higher", "check bootstrap", "low", "rest", "check kernel",
             "code", "data", "tmp", "ksetup", "too big"}
  /\ eip # "too big" => mem = [w \in Words |-> Word(w)]
  /\ TablesOnly
  /\ Registers
  /\ eip = "ksetup" => tmp = Higher + EndPage

-----------------------------------------------------------------------------
(* Multiples of a page are ordered as the pages are.                       *)
LEMMA Multiples ==
  ASSUME NEW p \in Nat \ {0}, NEW a \in Int, NEW b \in Int
  PROVE  /\ a * p \in Int /\ b * p \in Int
         /\ a < b <=> a * p < b * p
         /\ a <= b <=> a * p <= b * p
  <1>1. a * p \in Int /\ b * p \in Int
    OBVIOUS
  <1>2. ASSUME NEW c \in Int, NEW d \in Int, c < d PROVE c * p < d * p
    <2>1. d - c - 1 \in Nat
      BY <1>2
    <2>2. (d - c - 1) * p \in Nat
      BY <2>1
    <2>3. d * p = (d - c - 1) * p + c * p + p
      OBVIOUS
    <2>4. c * p \in Int /\ d * p \in Int
      OBVIOUS
    <2> QED
      BY <2>2, <2>3, <2>4
  <1> QED
    BY <1>1, <1>2

(* The page of an address, and the page of a multiple.                     *)
LEMMA PageOf ==
  ASSUME NEW p \in Nat \ {0}, NEW x \in Nat
  PROVE  /\ x \div p \in Nat /\ (x \div p) * p \in Nat
         /\ (x \div p) * p <= x /\ x < (x \div p) * p + p
         /\ x % p = 0 => x = (x \div p) * p
  <1>1. PICK q, m : q = x \div p /\ m = x % p
    OBVIOUS
  <1>2. q \in Nat /\ m \in 0 .. p - 1 /\ x = p * q + m
    BY <1>1
  <1>3. p * q = q * p /\ q * p \in Nat
    BY <1>2
  <1> QED
    BY <1>1, <1>2, <1>3

(* A page is determined by the addresses it lies between.                  *)
LEMMA PageUnique ==
  ASSUME NEW p \in Nat \ {0}, NEW x \in Nat, NEW q \in Nat, q * p <= x, x < q * p + p
  PROVE  x \div p = q
  <1>1. PICK r : r = x \div p
    OBVIOUS
  <1>2. r \in Nat /\ r * p \in Nat /\ r * p <= x /\ x < r * p + p
    BY <1>1, PageOf
  <1>3. q * p \in Nat /\ (q + 1) * p = q * p + p /\ (r + 1) * p = r * p + p
    BY <1>2
  <1>4. r * p < (q + 1) * p /\ q * p < (r + 1) * p
    BY <1>2, <1>3
  <1>5. r < q + 1 /\ q < r + 1
    BY <1>2, <1>4, Multiples
  <1> QED
    BY <1>1, <1>2, <1>5

(* The sizes, in pages.                                                    *)
LEMMA Sizes ==
  /\ PAGE_SIZE \in Nat \ {0} /\ ENTRIES \in Nat \ {0} /\ HALF \in 2 .. ENTRIES - 2
  /\ REGION = ENTRIES * PAGE_SIZE /\ REGION \in Nat /\ REGION \div PAGE_SIZE = ENTRIES
  /\ LOWMEM = LowPages * PAGE_SIZE /\ LOWMEM \in Nat
  /\ LowPages \in 1 .. ENTRIES - 1
  <1>1. /\ PAGE_SIZE \in Nat \ {0} /\ ENTRIES \in Nat \ {0} /\ HALF \in 2 .. ENTRIES - 2
        /\ REGION = ENTRIES * PAGE_SIZE /\ REGION \in Nat
    BY BootstrapAssumption DEF REGION
  <1>2. REGION \div PAGE_SIZE = ENTRIES
    BY <1>1, PageUnique
  <1>3. LOWMEM \in Nat /\ LOWMEM % PAGE_SIZE = 0 /\ 0 < LOWMEM /\ LOWMEM <= REGION - PAGE_SIZE
    BY <1>1, BootstrapAssumption
  <1>4. LowPages \in Nat /\ LOWMEM = LowPages * PAGE_SIZE
    BY <1>1, <1>3, PageOf DEF LowPages
  <1>5. 0 < LowPages
    <2>1. 0 * PAGE_SIZE < LowPages * PAGE_SIZE
      BY <1>1, <1>3, <1>4
    <2> QED
      BY <1>1, <1>4, <2>1, Multiples
  <1>6. LowPages <= ENTRIES - 1
    <2>1. (ENTRIES - 1) * PAGE_SIZE = ENTRIES * PAGE_SIZE - PAGE_SIZE
      BY <1>1
    <2>2. LowPages * PAGE_SIZE <= (ENTRIES - 1) * PAGE_SIZE
      BY <1>1, <1>3, <1>4, <2>1
    <2> QED
      BY <1>1, <1>4, <2>2, Multiples
  <1> QED
    BY <1>1, <1>2, <1>3, <1>4, <1>5, <1>6

(* Rounding up to a page.                                                  *)
LEMMA AlignIs ==
  ASSUME NEW x \in Nat
  PROVE  /\ Align(x) \in Nat /\ Align(x) \div PAGE_SIZE \in Nat
         /\ Align(x) = (Align(x) \div PAGE_SIZE) * PAGE_SIZE
         /\ x <= Align(x) /\ Align(x) < x + PAGE_SIZE
  <1>1. PICK p, q : p = PAGE_SIZE /\ q = (x + PAGE_SIZE - 1) \div PAGE_SIZE
    OBVIOUS
  <1>2. p \in Nat \ {0} /\ x + p - 1 \in Nat
    BY <1>1, Sizes
  <1>3. q \in Nat /\ q * p \in Nat /\ q * p <= x + p - 1 /\ x + p - 1 < q * p + p
    BY <1>1, <1>2, PageOf
  <1>4. Align(x) = q * p
    BY <1>1 DEF Align
  <1>5. Align(x) \div p = q
    BY <1>2, <1>3, <1>4, PageUnique
  <1> QED
    BY <1>1, <1>2, <1>3, <1>4, <1>5

(* The image in pages.                                                     *)
LEMMA ImagePages ==
  ASSUME image \in Images
  PROVE  /\ CodePage \in Nat /\ DataPage \in Nat /\ EndPage \in Nat
         /\ image.kernel_start = CodePage * PAGE_SIZE /\ image.data_start = DataPage * PAGE_SIZE
         /\ TmpPage = EndPage * PAGE_SIZE /\ image.kernel_end \in Nat
         /\ CodePage < DataPage /\ DataPage < EndPage
         /\ \A k \in Nat : k * PAGE_SIZE < image.kernel_end <=> k < EndPage
  <1>1. PICK s, d, e, b : /\ s = image.kernel_start /\ d = image.data_start
                          /\ e = image.kernel_end /\ b = image.bootstrap_end
    OBVIOUS
  <1>2. /\ s \in Nat /\ d \in Nat /\ e \in Nat /\ b \in Nat
        /\ s = Align(b) /\ s < d /\ d % PAGE_SIZE = 0 /\ d < e
    BY <1>1, Sizes, BootstrapAssumption DEF Images
  <1>3. CodePage \in Nat /\ s = CodePage * PAGE_SIZE
    BY <1>1, <1>2, AlignIs DEF CodePage
  <1>4. DataPage \in Nat /\ d = DataPage * PAGE_SIZE
    BY <1>1, <1>2, Sizes, PageOf DEF DataPage
  <1>5. EndPage \in Nat /\ TmpPage = EndPage * PAGE_SIZE /\ e <= EndPage * PAGE_SIZE /\ EndPage * PAGE_SIZE < e + PAGE_SIZE
    BY <1>1, <1>2, AlignIs DEF EndPage, TmpPage
  <1>6. ASSUME NEW k \in Nat PROVE k * PAGE_SIZE < e <=> k < EndPage
    <2>1. /\ k * PAGE_SIZE \in Nat /\ EndPage * PAGE_SIZE \in Nat /\ PAGE_SIZE \in Nat \ {0}
          /\ (k + 1) * PAGE_SIZE = k * PAGE_SIZE + PAGE_SIZE
      BY <1>5, Sizes
    <2>2. k < EndPage <=> k * PAGE_SIZE < EndPage * PAGE_SIZE
      BY <1>5, <2>1, Multiples
    <2>3. k + 1 <= EndPage <=> (k + 1) * PAGE_SIZE <= EndPage * PAGE_SIZE
      BY <1>5, <2>1, Multiples
    <2>4. k < EndPage => k + 1 <= EndPage
      BY <1>5
    <2> QED
      BY <1>2, <1>5, <2>1, <2>2, <2>3, <2>4
  <1>7. CodePage < DataPage
    BY <1>2, <1>3, <1>4, Sizes, Multiples
  <1>8. DataPage < EndPage
    BY <1>2, <1>4, <1>6
  <1> QED
    BY <1>1, <1>2, <1>3, <1>4, <1>5, <1>6, <1>7, <1>8

-----------------------------------------------------------------------------
(* The image is never changed.                                             *)
LEMMA SameImage ==
  ASSUME image' = image
  PROVE  CodePage' = CodePage /\ DataPage' = DataPage /\ EndPage' = EndPage
  BY DEF CodePage, DataPage, EndPage, TmpPage

(* The tables hold nothing behind the kernel's.                            *)
LEMMA WordsInTables ==
  ASSUME image \in Images, Registers, mem = [w \in Words |-> Word(w)]
  PROVE  TablesOnly
  <1> SUFFICES ASSUME NEW w \in Words, w >= Behind PROVE mem[w] = Zero
    BY DEF TablesOnly
  <1>1. w \in Nat /\ ENTRIES \in Nat \ {0} /\ w >= 4 * ENTRIES
    BY Sizes DEF Words, Behind
  <1>2. InKernel => edi <= w
    <2>1. EndPage \in Nat /\ DataPage \in Nat /\ DataPage < EndPage /\ CodePage \in Nat
      BY ImagePages
    <2> QED
      BY <1>1, <2>1 DEF InKernel, Registers, Higher
  <1>3. InKernel => ~ (w < edi)
    <2>1. InKernel => edi \in Int
      <3>1. EndPage \in Nat /\ DataPage \in Nat /\ CodePage \in Nat
        BY ImagePages
      <3> QED
        BY <1>1, <3>1 DEF InKernel, Registers, Higher
    <2> QED
      BY <1>1, <1>2, <2>1
  <1>4. KernelWord(w) = Zero
    BY <1>3 DEF KernelWord
  <1> QED
    BY <1>1, <1>4 DEF Word, Boot, Higher

(* The tables are empty at first.                                          *)
LEMMA InvInit == StartInit => Inv
  <1> SUFFICES ASSUME StartInit PROVE Inv
    OBVIOUS
  <1>1. image \in Images /\ eip = "first" /\ mem = [w \in Words |-> Zero]
    BY DEF StartInit
  <1>2. Registers
    BY <1>1 DEF Registers, InLow, InKernel
  <1>3. \A w \in Words : Word(w) = Zero
    BY <1>1 DEF Word, TopWord, LowWord, KernelWord, InLow, InKernel
  <1>4. mem = [w \in Words |-> Word(w)]
    BY <1>1, <1>3
  <1> QED
    BY <1>1, <1>2, <1>4, WordsInTables DEF Inv

(* A step that leaves _start going keeps Inv if it keeps these parts.      *)
LEMMA Keeps ==
  ASSUME Inv, image' = image,
         eip' \in {"first", "lower", "higher", "check bootstrap", "low", "rest", "check kernel",
                  "code", "data", "tmp", "ksetup"},
         mem' = [w \in Words |-> Word(w)'], Registers',
         eip' = "ksetup" => tmp' = Higher + EndPage
  PROVE  Inv'
  <1>1. image' \in Images
    BY DEF Inv
  <1>2. (image \in Images /\ Registers /\ mem = [w \in Words |-> Word(w)] => TablesOnly)'
    BY WordsInTables, PTL
  <1> QED
    BY <1>1, <1>2, SameImage DEF Inv

(* The directory.                                                          *)
LEMMA InvMapFirst == Inv /\ MapFirst => Inv'
  <1> SUFFICES ASSUME Inv, MapFirst PROVE Inv'
    OBVIOUS
  <1>1. /\ image' = image /\ eip = "first" /\ eip' = "lower" /\ mem = [w \in Words |-> Word(w)]
        /\ mem' = [mem EXCEPT ![0] = Entry(Boot, {"P", "RW"})]
    BY DEF MapFirst, Goto, Inv, Top
  <1>2. ASSUME NEW w \in Words
        PROVE  Word(w)' = IF w = 0 THEN Entry(Boot, {"P", "RW"}) ELSE Word(w)
    BY <1>1, Sizes DEF Word, TopWord, LowWord, KernelWord, InLow, InKernel, Top, Boot
  <1>3. mem' = [w \in Words |-> Word(w)']
    BY <1>1, <1>2
  <1>4. Registers'
    BY <1>1 DEF MapFirst, Registers, InLow, InKernel
  <1> QED
    BY <1>1, <1>3, <1>4, Keeps

(* map_lower.loop has one round: the second page begins at 8 MiB.          *)
LEMMA InvMapLower == Inv /\ MapLower => Inv'
  <1> SUFFICES ASSUME Inv, MapLower PROVE Inv'
    OBVIOUS
  <1>1. /\ image' = image /\ eip = "lower" /\ mem = [w \in Words |-> Word(w)]
        /\ esi = REGION /\ edi = 1
    BY DEF MapLower, Inv, Registers, Top
  <1>2. mem' = [mem EXCEPT ![1] = LargeEntry(REGION)] /\ eip' = "higher"
    BY <1>1, Sizes DEF MapLower, Goto
  <1>3. ASSUME NEW w \in Words
        PROVE  Word(w)' = IF w = 1 THEN LargeEntry(REGION) ELSE Word(w)
    BY <1>1, <1>2, Sizes DEF Word, TopWord, LowWord, KernelWord, InLow, InKernel, Top, Boot
  <1>4. mem' = [w \in Words |-> Word(w)']
    BY <1>1, <1>2, <1>3
  <1>5. Registers'
    BY <1>2 DEF Registers, InLow, InKernel
  <1> QED
    BY <1>1, <1>2, <1>4, <1>5, Keeps

(* The two entries of the kernel's tables.                                 *)
LEMMA InvMapHigher == Inv /\ MapHigher => Inv'
  <1> SUFFICES ASSUME Inv, MapHigher PROVE Inv'
    OBVIOUS
  <1>1. /\ image' = image /\ eip = "higher" /\ mem = [w \in Words |-> Word(w)]
        /\ eip' = "check bootstrap"
        /\ mem' = [mem EXCEPT ![HALF] = Entry(Higher, {"P", "RW"}),
                              ![HALF + 1] = Entry(Higher + ENTRIES, {"P", "RW"})]
    <2>1. Top + HALF = HALF /\ Top + HALF + 1 = HALF + 1
      BY Sizes DEF Top
    <2> QED
      BY <2>1 DEF MapHigher, Inv, Goto
  <1>2. ASSUME NEW w \in Words
        PROVE  Word(w)' = IF w = HALF THEN Entry(Higher, {"P", "RW"})
                          ELSE IF w = HALF + 1 THEN Entry(Higher + ENTRIES, {"P", "RW"})
                          ELSE Word(w)
    <2>1. /\ HALF < Boot /\ HALF + 1 < Boot /\ HALF # Top /\ HALF # Top + 1
          /\ HALF + 1 # Top /\ HALF + 1 # Top + 1 /\ HALF # HALF + 1
      BY Sizes DEF Top, Boot
    <2>2. TopWord(w)' = IF w = HALF THEN Entry(Higher, {"P", "RW"})
                        ELSE IF w = HALF + 1 THEN Entry(Higher + ENTRIES, {"P", "RW"})
                        ELSE TopWord(w)
      BY <1>1, <2>1 DEF TopWord
    <2>3. LowWord(w)' = LowWord(w) /\ KernelWord(w)' = KernelWord(w)
      BY <1>1 DEF LowWord, KernelWord, InLow, InKernel
    <2> QED
      BY <2>1, <2>2, <2>3 DEF Word
  <1>3. HALF # HALF + 1
    BY Sizes
  <1>4. mem' = [w \in Words |-> Word(w)']
    BY <1>1, <1>2, <1>3
  <1>5. Registers'
    BY <1>1 DEF Registers, InLow, InKernel
  <1> QED
    BY <1>1, <1>4, <1>5, Keeps

(* A panic of _start changes no table.                                     *)
LEMMA InvTooBig ==
  ASSUME Inv, image' = image, mem' = mem, eip' = "too big"
  PROVE  Inv'
  <1>1. TablesOnly'
    BY DEF Inv, TablesOnly
  <1>2. Registers'
    BY DEF Registers, InLow, InKernel
  <1> QED
    BY <1>1, <1>2 DEF Inv

(* The check of the bootstrap's size.                                      *)
LEMMA InvCheckBootstrap == Inv /\ CheckBootstrap => Inv'
  <1> SUFFICES ASSUME Inv, CheckBootstrap PROVE Inv'
    OBVIOUS
  <1>1. /\ image' = image /\ eip = "check bootstrap" /\ mem = [w \in Words |-> Word(w)]
        /\ mem' = mem /\ esi' = 0 /\ edi' = Boot /\ eip' \in {"too big", "low"}
    BY DEF CheckBootstrap, Inv, Goto
  <1>2. CASE eip' = "too big"
    BY <1>1, <1>2, InvTooBig
  <1>3. CASE eip' = "low"
    <2>1. ASSUME NEW w \in Words PROVE Word(w)' = Word(w)
      <3>1. w >= Boot => ~ (w < Boot)
        BY Sizes DEF Words, Boot
      <3> QED
        BY <1>1, <1>3, <3>1 DEF Word, TopWord, LowWord, KernelWord, InLow, InKernel
    <2>2. mem' = [w \in Words |-> Word(w)']
      BY <1>1, <2>1
    <2>3. Registers'
      <3>1. Boot \in Int /\ (Boot - Boot) * PAGE_SIZE = 0 /\ Boot \in Boot .. Boot + LowPages - 1
        BY Sizes DEF Boot
      <3> QED
        BY <1>1, <1>3, <3>1 DEF Registers, InLow, InKernel
    <2> QED
      BY <1>1, <1>3, <2>2, <2>3, Keeps
  <1> QED
    BY <1>1, <1>2, <1>3

(* The check of the kernel's size.                                         *)
LEMMA InvCheckKernel == Inv /\ CheckKernel => Inv'
  <1> SUFFICES ASSUME Inv, CheckKernel PROVE Inv'
    OBVIOUS
  <1>1. /\ image' = image /\ eip = "check kernel" /\ mem = [w \in Words |-> Word(w)]
        /\ mem' = mem /\ esi' = image.kernel_start /\ edi' = Higher + CodePage
        /\ eip' \in {"too big", "code"} /\ (eip' = "code" => ~ KernelTooBig)
        /\ image \in Images
    BY DEF CheckKernel, Inv, Goto, CodePage
  <1>2. CASE eip' = "too big"
    BY <1>1, <1>2, InvTooBig
  <1>3. CASE eip' = "code"
    <2>1. /\ CodePage' = CodePage /\ DataPage' = DataPage /\ EndPage' = EndPage
          /\ CodePage \in Nat /\ DataPage \in Nat /\ EndPage \in Nat /\ CodePage < DataPage
          /\ image.kernel_start = CodePage * PAGE_SIZE /\ TmpPage = EndPage * PAGE_SIZE
      BY <1>1, SameImage, ImagePages
    <2>2. EndPage < 2 * ENTRIES
      <3>1. (EndPage + 1) * PAGE_SIZE = EndPage * PAGE_SIZE + PAGE_SIZE /\ (2 * ENTRIES) * PAGE_SIZE = 2 * REGION
        BY <2>1, Sizes
      <3>2. (EndPage + 1) * PAGE_SIZE <= (2 * ENTRIES) * PAGE_SIZE
        <4>1. ~ (2 * REGION < EndPage * PAGE_SIZE + PAGE_SIZE)
          BY <1>1, <1>3, <2>1 DEF KernelTooBig
        <4>2. EndPage * PAGE_SIZE \in Nat /\ PAGE_SIZE \in Nat /\ REGION \in Nat
          BY <2>1, Sizes
        <4> QED
          BY <3>1, <4>1, <4>2
      <3>3. EndPage + 1 \in Int /\ 2 * ENTRIES \in Int
        BY <2>1, Sizes
      <3>4. EndPage + 1 <= 2 * ENTRIES
        BY <3>2, <3>3, Sizes, Multiples
      <3> QED
        BY <2>1, <3>3, <3>4
    <2>3. ASSUME NEW w \in Words PROVE Word(w)' = Word(w)
      <3>1. Higher + CodePage <= w => ~ (w < Higher + CodePage)
        BY <2>1, Sizes DEF Words, Higher
      <3> QED
        BY <1>1, <1>3, <2>1, <3>1 DEF Word, TopWord, LowWord, KernelWord, InLow, InKernel
    <2>4. mem' = [w \in Words |-> Word(w)']
      BY <1>1, <2>3
    <2>5. Registers'
      <3>1. /\ (Higher + CodePage) - Higher = CodePage
            /\ Higher + CodePage \in Higher + CodePage .. Higher + DataPage - 1
        BY <2>1, Sizes DEF Higher
      <3> QED
        BY <1>1, <1>3, <2>1, <2>2, <3>1 DEF Registers, InLow, InKernel
    <2> QED
      BY <1>1, <1>3, <2>4, <2>5, Keeps
  <1> QED
    BY <1>1, <1>2, <1>3

(* The calls of mmap, one by one.                                          *)
LEMMA CallOf ==
  /\ DOMAIN Calls = {"low", "rest", "code", "data"}
  /\ Calls["low"].end = LOWMEM /\ Calls["low"].flags = {"P", "RW"} /\ Calls["low"].next = "rest"
  /\ Calls["rest"].end = REGION /\ Calls["rest"].flags = {"P"} /\ Calls["rest"].next = "check kernel"
  /\ Calls["code"].end = image.data_start /\ Calls["code"].flags = {"P", "G"}
  /\ Calls["code"].next = "data"
  /\ Calls["data"].end = image.kernel_end /\ Calls["data"].flags = {"P", "RW", "G"}
  /\ Calls["data"].next = "tmp"
  BY DEF Calls, Call

(***************************************************************************)
(* A round of mmap for the first region, and one for the kernel.  The page *)
(* that is mapped is the one the registers name.                           *)
(***************************************************************************)
LEMMA InvMmapLow ==
  ASSUME Inv, Mmap, InLow
  PROVE  Inv'
  <1>1. PICK i, e : i = edi - Boot /\ e = edi
    OBVIOUS
  <1>2. /\ image' = image /\ mem = [w \in Words |-> Word(w)] /\ eip \in {"low", "rest"}
        /\ esi = i * PAGE_SIZE /\ esi' = esi + PAGE_SIZE /\ edi' = e + 1
        /\ mem' = [mem EXCEPT ![e] = Entry(esi \div PAGE_SIZE, Calls[eip].flags)]
    BY <1>1 DEF Mmap, Inv, Registers, InLow
  <1>3. /\ i \in 0 .. ENTRIES - 1 /\ e = Boot + i /\ e \in Int /\ e < Higher
        /\ eip = "low" => i < LowPages
        /\ eip = "rest" => i >= LowPages
    <2>1. eip = "low" => edi \in Boot .. Boot + LowPages - 1
      BY DEF Inv, Registers
    <2>2. eip = "rest" => edi \in Boot + LowPages .. Higher - 1
      BY DEF Inv, Registers
    <2> QED
      BY <1>1, <1>2, <2>1, <2>2, Sizes DEF Boot, Higher
  <1>4. esi \div PAGE_SIZE = i /\ esi + PAGE_SIZE = (i + 1) * PAGE_SIZE
    <2>1. i \in Nat /\ i * PAGE_SIZE \in Nat /\ PAGE_SIZE \in Nat \ {0} /\ i * PAGE_SIZE < i * PAGE_SIZE + PAGE_SIZE
      BY <1>3, Sizes
    <2>2. (i * PAGE_SIZE) \div PAGE_SIZE = i
      BY <2>1, PageUnique
    <2> QED
      BY <1>2, <2>1, <2>2
  <1>5. Calls[eip].flags = IF i < LowPages THEN {"P", "RW"} ELSE {"P"}
    <2>1. i \in Int /\ LowPages \in Int
      BY <1>3, Sizes
    <2> QED
      <3>1. CASE eip = "low"
        BY <1>3, <3>1, CallOf
      <3>2. CASE eip = "rest"
        <4>1. ~ (i < LowPages)
          BY <1>3, <2>1, <3>2
        <4> QED
          BY <3>2, <4>1, CallOf
      <3> QED
        BY <1>2, <3>1, <3>2
  <1>6. /\ eip = "low" => eip' = IF i + 1 < LowPages THEN "low" ELSE "rest"
        /\ eip = "rest" => eip' = IF i + 1 < ENTRIES THEN "rest" ELSE "check kernel"
    <2>1. /\ i + 1 < LowPages <=> esi' < LOWMEM
          /\ i + 1 < ENTRIES <=> esi' < REGION
      <3>1. i + 1 \in Int /\ LowPages \in Int /\ ENTRIES \in Int /\ PAGE_SIZE \in Nat \ {0}
        BY <1>3, Sizes
      <3>2. /\ i + 1 < LowPages <=> (i + 1) * PAGE_SIZE < LowPages * PAGE_SIZE
            /\ i + 1 < ENTRIES <=> (i + 1) * PAGE_SIZE < ENTRIES * PAGE_SIZE
        BY <3>1, Multiples
      <3> QED
        BY <1>2, <1>4, <3>2, Sizes
    <2>2. eip' = IF esi' < Calls[eip].end THEN eip ELSE Calls[eip].next
      BY DEF Mmap, Goto, More
    <2>3. CASE eip = "low"
      BY <2>1, <2>2, <2>3, CallOf
    <2>4. CASE eip = "rest"
      BY <2>1, <2>2, <2>4, CallOf
    <2> QED
      BY <1>2, <2>3, <2>4
  <1>7. eip' \in {"low", "rest", "check kernel"} /\ (eip' = "check kernel" => e + 1 = Higher)
    <2>1. eip' = "check kernel" => ~ (i + 1 < ENTRIES)
      BY <1>2, <1>6
    <2>2. eip' = "check kernel" => e + 1 = Higher
      <3>1. ~ (i + 1 < ENTRIES) => i = ENTRIES - 1
        BY <1>3, Sizes
      <3> QED
        <4>1. ENTRIES \in Int /\ Boot = ENTRIES /\ Higher = 2 * ENTRIES /\ e = Boot + i
          BY <1>3, Sizes DEF Boot, Higher
        <4>2. i = ENTRIES - 1 => e + 1 = Higher
          BY <4>1
        <4> QED
          BY <2>1, <3>1, <4>2
    <2> QED
      BY <1>2, <1>6, <2>2
  <1>8. ASSUME NEW w \in Words
        PROVE  Word(w)' = IF w = e THEN Entry(i, IF i < LowPages THEN {"P", "RW"} ELSE {"P"})
                          ELSE Word(w)
    <2>1. TopWord(w)' = TopWord(w)
      BY <1>2, <1>7 DEF TopWord
    <2>2. KernelWord(w)' = KernelWord(w)
      BY <1>2, <1>7 DEF KernelWord, InKernel
    <2>3. ~ (e < Boot) /\ e - Boot = i /\ w \in Int
      BY <1>3, Sizes DEF Boot, Words
    <2>4. w < Higher => LowWord(w)' =
            IF w < e + 1 THEN Entry(w - Boot, IF w - Boot < LowPages THEN {"P", "RW"} ELSE {"P"}) ELSE Zero
      BY <1>2, <1>7 DEF LowWord, InKernel, InLow
    <2>5. LowWord(w) =
            IF w < e THEN Entry(w - Boot, IF w - Boot < LowPages THEN {"P", "RW"} ELSE {"P"}) ELSE Zero
      BY <1>1, <1>2 DEF LowWord, InKernel, InLow
    <2>6. (w < e + 1 <=> w < e \/ w = e) /\ ~ (w = e /\ w < e)
      BY <1>3, <2>3
    <2>7. CASE w < Boot
      BY <2>1, <2>3, <2>7 DEF Word
    <2>8. CASE ~ (w < Boot) /\ w < Higher
      <3>1. LowWord(w)' = IF w = e THEN Entry(i, IF i < LowPages THEN {"P", "RW"} ELSE {"P"}) ELSE LowWord(w)
        <4>1. CASE w = e
          BY <2>3, <2>4, <2>6, <2>8, <4>1
        <4>2. CASE w # e
          BY <2>4, <2>5, <2>6, <2>8, <4>2
        <4> QED
          BY <4>1, <4>2
      <3> QED
        BY <2>8, <3>1 DEF Word
    <2>9. CASE ~ (w < Boot) /\ ~ (w < Higher)
      BY <1>3, <2>2, <2>9 DEF Word
    <2> QED
      BY <2>7, <2>8, <2>9
  <1>9. mem' = [w \in Words |-> Word(w)']
    BY <1>2, <1>4, <1>5, <1>8
  <1>10. Registers'
    <2>1. edi' - Boot = i + 1
      BY <1>2, <1>3, Sizes DEF Boot
    <2>2. eip' = "low" => e + 1 \in Boot .. Boot + LowPages - 1
      BY <1>2, <1>3, <1>6, Sizes DEF Boot
    <2>3. eip' = "rest" => e + 1 \in Boot + LowPages .. Higher - 1
      <3>1. eip' = "rest" => i + 1 >= LowPages /\ i + 1 < ENTRIES
        BY <1>2, <1>3, <1>6, Sizes
      <3> QED
        BY <1>3, <3>1, Sizes DEF Boot, Higher
    <2> QED
      BY <1>2, <1>4, <1>7, <2>1, <2>2, <2>3 DEF Registers, InLow, InKernel
  <1> QED
    BY <1>2, <1>7, <1>9, <1>10, Keeps

(* A round of mmap for the kernel.                                         *)
LEMMA InvMmapKernel ==
  ASSUME Inv, Mmap, eip \in {"code", "data"}
  PROVE  Inv'
  <1>1. PICK i, e, c, d, t : i = edi - Higher /\ e = edi /\ c = CodePage /\ d = DataPage /\ t = EndPage
    OBVIOUS
  <1>2. /\ image' = image /\ mem = [w \in Words |-> Word(w)]
        /\ esi = i * PAGE_SIZE /\ esi' = esi + PAGE_SIZE /\ edi' = e + 1
        /\ mem' = [mem EXCEPT ![e] = Entry(esi \div PAGE_SIZE, Calls[eip].flags)]
        /\ t < 2 * ENTRIES /\ image \in Images
    BY <1>1 DEF Mmap, Inv, Registers, InKernel
  <1>3. /\ c \in Nat /\ d \in Nat /\ t \in Nat /\ c < d /\ d < t
        /\ CodePage' = c /\ DataPage' = d /\ EndPage' = t
        /\ image.data_start = d * PAGE_SIZE
        /\ \A k \in Nat : k * PAGE_SIZE < image.kernel_end <=> k < t
    BY <1>1, <1>2, ImagePages, SameImage
  <1>4. /\ i \in Nat /\ e = Higher + i /\ e \in Int /\ i >= c /\ i < t
        /\ eip = "code" => i < d
        /\ eip = "data" => ~ (i < d)
    <2>1. eip = "code" => edi \in Higher + c .. Higher + d - 1
      BY <1>1 DEF Inv, Registers
    <2>2. eip = "data" => edi \in Higher + d .. Higher + t - 1
      BY <1>1 DEF Inv, Registers
    <2>3. Higher \in Int
      BY Sizes DEF Higher
    <2> QED
      BY <1>1, <1>3, <2>1, <2>2, <2>3
  <1>5. esi \div PAGE_SIZE = i /\ esi + PAGE_SIZE = (i + 1) * PAGE_SIZE
    <2>1. i * PAGE_SIZE \in Nat /\ PAGE_SIZE \in Nat \ {0} /\ i * PAGE_SIZE < i * PAGE_SIZE + PAGE_SIZE
      BY <1>4, Sizes
    <2>2. (i * PAGE_SIZE) \div PAGE_SIZE = i
      BY <1>4, <2>1, PageUnique
    <2> QED
      BY <1>2, <1>4, <2>1, <2>2
  <1>6. Calls[eip].flags = IF i < d THEN {"P", "G"} ELSE {"P", "RW", "G"}
    BY <1>4, CallOf
  <1>7. /\ eip = "code" => eip' = IF i + 1 < d THEN "code" ELSE "data"
        /\ eip = "data" => eip' = IF i + 1 < t THEN "data" ELSE "tmp"
    <2>1. /\ i + 1 < d <=> esi' < image.data_start
          /\ i + 1 < t <=> esi' < image.kernel_end
      <3>1. i + 1 \in Int /\ d \in Int /\ PAGE_SIZE \in Nat \ {0} /\ i + 1 \in Nat
        BY <1>3, <1>4, Sizes
      <3>2. i + 1 < d <=> (i + 1) * PAGE_SIZE < d * PAGE_SIZE
        BY <3>1, Multiples
      <3> QED
        BY <1>2, <1>3, <1>5, <3>1, <3>2
    <2>2. eip' = IF esi' < Calls[eip].end THEN eip ELSE Calls[eip].next
      BY DEF Mmap, Goto, More
    <2>3. CASE eip = "code"
      BY <2>1, <2>2, <2>3, CallOf
    <2>4. CASE eip = "data"
      BY <2>1, <2>2, <2>4, CallOf
    <2> QED
      BY <2>3, <2>4
  <1>8. eip' \in {"code", "data", "tmp"}
    BY <1>7
  <1>9. ASSUME NEW w \in Words
        PROVE  Word(w)' = IF w = e THEN Entry(i, IF i < d THEN {"P", "G"} ELSE {"P", "RW", "G"})
                          ELSE Word(w)
    <2>1. TopWord(w)' = TopWord(w)
      BY <1>8 DEF TopWord
    <2>2. LowWord(w)' = LowWord(w)
      BY <1>8 DEF LowWord, InKernel
    <2>3. /\ ~ (e < Boot) /\ ~ (e < Higher) /\ e - Higher = i /\ w \in Int
          /\ Higher + c <= e
      BY <1>3, <1>4, Sizes DEF Boot, Higher, Words
    <2>4. KernelWord(w)' =
            IF Higher + c <= w /\ w < e + 1
              THEN Entry(w - Higher, IF w - Higher < d THEN {"P", "G"} ELSE {"P", "RW", "G"}) ELSE Zero
      BY <1>2, <1>3, <1>8 DEF KernelWord, InKernel
    <2>5. KernelWord(w) =
            IF Higher + c <= w /\ w < e
              THEN Entry(w - Higher, IF w - Higher < d THEN {"P", "G"} ELSE {"P", "RW", "G"}) ELSE Zero
      BY <1>1 DEF KernelWord, InKernel
    <2>6. (w < e + 1 <=> w < e \/ w = e) /\ ~ (w = e /\ w < e)
      BY <1>4, <2>3
    <2>7. CASE w = e
      BY <2>3, <2>4, <2>6, <2>7 DEF Word
    <2>8. CASE w # e
      <3>1. KernelWord(w)' = KernelWord(w)
        BY <2>4, <2>5, <2>6, <2>8
      <3> QED
        BY <2>1, <2>2, <2>8, <3>1 DEF Word
    <2> QED
      BY <2>7, <2>8
  <1>10. mem' = [w \in Words |-> Word(w)']
    BY <1>2, <1>5, <1>6, <1>9
  <1>11. Registers'
    <2>1. Higher \in Int
      BY Sizes DEF Higher
    <2>2. edi' - Higher = i + 1
      BY <1>2, <1>4, <2>1
    <2>3. eip' = "code" => e + 1 \in Higher + c .. Higher + d - 1
      <3>1. eip' = "code" => i + 1 < d
        BY <1>7
      <3> QED
        BY <1>3, <1>4, <2>1, <3>1
    <2>4. eip' = "data" => e + 1 \in Higher + d .. Higher + t - 1
      <3>1. eip' = "data" => i + 1 >= d /\ i + 1 < t
        <4>1. CASE eip = "code"
          BY <1>3, <1>4, <1>7, <4>1
        <4>2. CASE eip = "data"
          BY <1>3, <1>4, <1>7, <4>2
        <4> QED
          BY <4>1, <4>2
      <3> QED
        BY <1>3, <1>4, <2>1, <3>1
    <2>5. eip' = "tmp" => e + 1 = Higher + t
      <3>1. eip' = "tmp" => ~ (i + 1 < t)
        BY <1>7
      <3>2. ~ (i + 1 < t) => i + 1 = t
        BY <1>3, <1>4
      <3>3. i + 1 = t => e + 1 = Higher + t
        BY <1>3, <1>4, <2>1
      <3> QED
        BY <3>1, <3>2, <3>3
    <2> QED
      BY <1>2, <1>3, <1>5, <1>8, <2>2, <2>3, <2>4, <2>5 DEF Registers, InLow, InKernel
  <1> QED
    BY <1>2, <1>8, <1>10, <1>11, Keeps

(* The temporary page.                                                     *)
LEMMA InvSetupTmp == Inv /\ SetupTmp => Inv'
  <1> SUFFICES ASSUME Inv, SetupTmp PROVE Inv'
    OBVIOUS
  <1>1. /\ image' = image /\ mem' = mem /\ edi' = edi /\ esi' = esi /\ eip = "tmp" /\ eip' = "ksetup"
        /\ tmp' = Higher + EndPage /\ mem = [w \in Words |-> Word(w)]
    BY DEF SetupTmp, Goto, Inv, EndPage
  <1>2. CodePage' = CodePage /\ DataPage' = DataPage /\ EndPage' = EndPage
    BY <1>1, SameImage
  <1>3. \A w \in Words : Word(w)' = Word(w)
    BY <1>1, <1>2 DEF Word, TopWord, LowWord, KernelWord, InLow, InKernel
  <1>4. mem' = [w \in Words |-> Word(w)']
    BY <1>1, <1>3
  <1>5. Registers'
    BY <1>1, <1>2 DEF Inv, Registers, InLow, InKernel
  <1> QED
    BY <1>1, <1>4, <1>5, Keeps

(* The invariant holds in every state.                                     *)
LEMMA Invariant == StartSpec => []Inv
  <1>1. Inv /\ [StartNext]_startVars => Inv'
    <2> SUFFICES ASSUME Inv, [StartNext]_startVars PROVE Inv'
      OBVIOUS
    <2>1. CASE Mmap
      <3>1. eip \in {"low", "rest", "code", "data"}
        BY <2>1, CallOf DEF Mmap
      <3> QED
        BY <2>1, <3>1, InvMmapLow, InvMmapKernel DEF InLow
    <2>2. CASE UNCHANGED startVars
      <3>1. \A w \in Words : Word(w)' = Word(w)
        BY <2>2 DEF startVars, Word, TopWord, LowWord, KernelWord, InLow, InKernel, CodePage, DataPage
      <3>2. CodePage' = CodePage /\ DataPage' = DataPage /\ EndPage' = EndPage
        BY <2>2, SameImage DEF startVars
      <3>3. Registers' /\ TablesOnly'
        BY <2>2, <3>2 DEF Inv, startVars, Registers, InLow, InKernel, TablesOnly
      <3>4. eip # "too big" => mem' = [w \in Words |-> Word(w)']
        BY <2>2, <3>1 DEF Inv, startVars
      <3> QED
        BY <2>2, <3>2, <3>3, <3>4 DEF Inv, startVars
    <2> QED
      BY <2>1, <2>2, InvMapFirst, InvMapLower, InvMapHigher, InvCheckBootstrap, InvCheckKernel,
         InvSetupTmp DEF StartNext
  <1> QED
    BY <1>1, InvInit, PTL DEF StartSpec

-----------------------------------------------------------------------------
(* A page of two consecutive regions has an index in the directory and one *)
(* in the table.                                                           *)
LEMMA TwoRegions ==
  ASSUME NEW h \in Nat, NEW p \in 0 .. 2 * ENTRIES - 1
  PROVE  /\ (h * ENTRIES + p) \div ENTRIES = IF p < ENTRIES THEN h ELSE h + 1
         /\ (h * ENTRIES + p) % ENTRIES = IF p < ENTRIES THEN p ELSE p - ENTRIES
  <1>1. PICK n : n = ENTRIES
    OBVIOUS
  <1>2. n \in Nat \ {0} /\ h * n \in Nat /\ h * n + p \in Nat
    BY <1>1, Sizes
  <1>3. ASSUME NEW q \in Nat, NEW m \in 0 .. n - 1
        PROVE  (n * q + m) \div n = q /\ (n * q + m) % n = m
    BY <1>2
  <1>4. CASE p < n
    <2>1. p \in 0 .. n - 1 /\ h * n + p = n * h + p
      BY <1>1, <1>2, <1>4
    <2> QED
      BY <1>1, <1>3, <1>4, <2>1
  <1>5. CASE ~ (p < n)
    <2>1. p - n \in 0 .. n - 1 /\ h * n + p = n * (h + 1) + (p - n) /\ h + 1 \in Nat
      BY <1>1, <1>2, <1>5
    <2> QED
      BY <1>1, <1>3, <1>5, <2>1
  <1> QED
    BY <1>4, <1>5

(* What the tables hold when ksetup is called.                             *)
LEMMA Built ==
  ASSUME Inv, eip = "ksetup"
  PROVE  /\ mem[0] = Entry(Boot, {"P", "RW"}) /\ mem[1] = Entry(ENTRIES, {"P", "RW", "PS"})
         /\ mem[HALF] = Entry(Higher, {"P", "RW"})
         /\ mem[HALF + 1] = Entry(Higher + ENTRIES, {"P", "RW"})
         /\ \A p \in 0 .. ENTRIES - 1 :
              mem[Boot + p] = Entry(p, IF p < LowPages THEN {"P", "RW"} ELSE {"P"})
         /\ \A p \in 0 .. 2 * ENTRIES - 1 :
              mem[Higher + p] = IF CodePage <= p /\ p < EndPage
                                  THEN Entry(p, IF p < DataPage THEN {"P", "G"} ELSE {"P", "RW", "G"})
                                  ELSE Zero
  <1>1. /\ mem = [w \in Words |-> Word(w)] /\ InKernel /\ edi = Higher + EndPage
        /\ CodePage \in Nat /\ EndPage \in Nat
    BY ImagePages DEF Inv, Registers, InKernel
  <1>2. /\ 0 \in Words /\ 1 \in Words /\ HALF \in Words /\ HALF + 1 \in Words
        /\ HALF \in Int /\ HALF > 1 /\ HALF + 1 < Boot /\ HALF < Boot /\ 1 < Boot /\ 0 < Boot
    BY Sizes DEF Words, Boot
  <1>3. LargeEntry(REGION) = Entry(ENTRIES, {"P", "RW", "PS"})
    BY Sizes DEF LargeEntry
  <1>4. /\ TopWord(0) = Entry(Boot, {"P", "RW"}) /\ TopWord(1) = Entry(ENTRIES, {"P", "RW", "PS"})
        /\ TopWord(HALF) = Entry(Higher, {"P", "RW"})
        /\ TopWord(HALF + 1) = Entry(Higher + ENTRIES, {"P", "RW"})
    BY <1>2, <1>3 DEF TopWord, Top
  <1>5. ASSUME NEW p \in 0 .. ENTRIES - 1
        PROVE  mem[Boot + p] = Entry(p, IF p < LowPages THEN {"P", "RW"} ELSE {"P"})
    <2>1. /\ Boot + p \in Words /\ ~ (Boot + p < Boot) /\ Boot + p < Higher
          /\ (Boot + p) - Boot = p
      BY Sizes DEF Words, Boot, Higher
    <2> QED
      BY <1>1, <2>1 DEF Word, LowWord
  <1>6. ASSUME NEW p \in 0 .. 2 * ENTRIES - 1
        PROVE  mem[Higher + p] = IF CodePage <= p /\ p < EndPage
                                   THEN Entry(p, IF p < DataPage THEN {"P", "G"} ELSE {"P", "RW", "G"})
                                   ELSE Zero
    <2>1. /\ Higher + p \in Words /\ ~ (Higher + p < Boot) /\ ~ (Higher + p < Higher)
          /\ (Higher + p) - Higher = p
          /\ Higher + CodePage <= Higher + p <=> CodePage <= p
          /\ Higher + p < Higher + EndPage <=> p < EndPage
      BY <1>1, Sizes DEF Words, Boot, Higher
    <2> QED
      BY <1>1, <2>1 DEF Word, KernelWord
  <1>7. /\ mem[0] = TopWord(0) /\ mem[1] = TopWord(1)
        /\ mem[HALF] = TopWord(HALF) /\ mem[HALF + 1] = TopWord(HALF + 1)
    BY <1>1, <1>2 DEF Word
  <1> QED
    BY <1>4, <1>5, <1>6, <1>7

(* The words of the kernel's pages.                                        *)
LEMMA HighWord ==
  ASSUME Inv, eip = "ksetup", NEW p \in 0 .. 2 * ENTRIES - 1
  PROVE  /\ WordOf(High(p)) = Higher + p
         /\ mem[Top + High(p) \div ENTRIES].flags = {"P", "RW"}
  <1>1. /\ High(p) \div ENTRIES = IF p < ENTRIES THEN HALF ELSE HALF + 1
        /\ High(p) % ENTRIES = IF p < ENTRIES THEN p ELSE p - ENTRIES
    <2>1. HALF \in Nat
      BY Sizes
    <2> QED
      BY <2>1, TwoRegions DEF High
  <1>2. mem[HALF] = Entry(Higher, {"P", "RW"}) /\ mem[HALF + 1] = Entry(Higher + ENTRIES, {"P", "RW"})
    BY Built
  <1>3. Top + High(p) \div ENTRIES = IF p < ENTRIES THEN HALF ELSE HALF + 1
    BY <1>1, Sizes DEF Top
  <1>4. CASE p < ENTRIES
    BY <1>1, <1>2, <1>3, <1>4 DEF WordOf, Entry
  <1>5. CASE ~ (p < ENTRIES)
    <2>1. (Higher + ENTRIES) + (p - ENTRIES) = Higher + p
      BY Sizes DEF Higher
    <2> QED
      BY <1>1, <1>2, <1>3, <1>5, <2>1 DEF WordOf, Entry
  <1> QED
    BY <1>4, <1>5

(* The pages from one aligned address to the end of the kernel.            *)
LEMMA PagesFrom ==
  ASSUME image \in Images, NEW c \in Nat, NEW p \in Nat
  PROVE  p \in { b \div PAGE_SIZE : b \in c * PAGE_SIZE .. image.kernel_end - 1 } <=> c <= p /\ p < EndPage
  <1>1. /\ PAGE_SIZE \in Nat \ {0} /\ c * PAGE_SIZE \in Nat /\ image.kernel_end \in Nat /\ EndPage \in Nat
        /\ \A k \in Nat : k * PAGE_SIZE < image.kernel_end <=> k < EndPage
    BY Sizes, ImagePages
  <1>2. ASSUME NEW b \in c * PAGE_SIZE .. image.kernel_end - 1
        PROVE  c <= b \div PAGE_SIZE /\ b \div PAGE_SIZE < EndPage
    <2>1. PICK q : q = b \div PAGE_SIZE
      OBVIOUS
    <2>2. b \in Nat /\ c * PAGE_SIZE <= b /\ b < image.kernel_end
      BY <1>1
    <2>3. q \in Nat /\ q * PAGE_SIZE \in Nat /\ q * PAGE_SIZE <= b /\ b < q * PAGE_SIZE + PAGE_SIZE
      BY <1>1, <2>1, <2>2, PageOf
    <2>4. q < EndPage
      BY <1>1, <2>2, <2>3
    <2>5. (q + 1) * PAGE_SIZE = q * PAGE_SIZE + PAGE_SIZE
      BY <1>1, <2>3
    <2>6. c * PAGE_SIZE < (q + 1) * PAGE_SIZE
      BY <1>1, <2>2, <2>3, <2>5
    <2>7. c < q + 1
      BY <1>1, <2>3, <2>6, Multiples
    <2> QED
      BY <2>1, <2>3, <2>4, <2>7
  <1>3. ASSUME c <= p, p < EndPage
        PROVE  \E b \in c * PAGE_SIZE .. image.kernel_end - 1 : p = b \div PAGE_SIZE
    <2>1. p * PAGE_SIZE \in Nat /\ p * PAGE_SIZE < image.kernel_end /\ p * PAGE_SIZE < p * PAGE_SIZE + PAGE_SIZE
      BY <1>1, <1>3
    <2>2. c * PAGE_SIZE <= p * PAGE_SIZE
      BY <1>1, <1>3, Multiples
    <2>3. (p * PAGE_SIZE) \div PAGE_SIZE = p
      BY <1>1, <2>1, PageUnique
    <2>4. p * PAGE_SIZE \in c * PAGE_SIZE .. image.kernel_end - 1
      BY <1>1, <2>1, <2>2
    <2> QED
      BY <2>3, <2>4
  <1> QED
    BY <1>2, <1>3

(***************************************************************************)
(* ksetup runs with exactly the pages of the kernel in the higher half,    *)
(* and the read-write ones are those of the data (bootstrap.S:190-205).    *)
(***************************************************************************)
THEOREM KernelMappedThm == StartSpec => []KernelMapped
  <1>1. Inv => KernelMapped
    <2> SUFFICES ASSUME Inv, eip = "ksetup", NEW p \in 0 .. 2 * ENTRIES - 1
                 PROVE  /\ Translation(High(p)) = IF p \in KernelPages THEN p ELSE -1
                        /\ "RW" \in mem[WordOf(High(p))].flags <=> p \in DataPages
      BY DEF KernelMapped
    <2>1. /\ image \in Images /\ CodePage \in Nat /\ DataPage \in Nat /\ EndPage \in Nat
          /\ image.kernel_start = CodePage * PAGE_SIZE /\ image.data_start = DataPage * PAGE_SIZE
          /\ CodePage < DataPage
      BY ImagePages DEF Inv
    <2>2. p \in Nat
      BY Sizes
    <2>3. /\ p \in KernelPages <=> CodePage <= p /\ p < EndPage
          /\ p \in DataPages <=> DataPage <= p /\ p < EndPage
      BY <2>1, <2>2, PagesFrom DEF KernelPages, DataPages
    <2>4. /\ WordOf(High(p)) = Higher + p
          /\ mem[Top + High(p) \div ENTRIES].flags = {"P", "RW"}
      BY HighWord
    <2>5. mem[Higher + p] = IF CodePage <= p /\ p < EndPage
                              THEN Entry(p, IF p < DataPage THEN {"P", "G"} ELSE {"P", "RW", "G"})
                              ELSE Zero
      BY Built
    <2>6. CASE CodePage <= p /\ p < EndPage
      <3>1. mem[Higher + p].addr = p /\ "P" \in mem[Higher + p].flags
        BY <2>5, <2>6 DEF Entry
      <3>2. "RW" \in mem[Higher + p].flags <=> DataPage <= p
        BY <2>1, <2>2, <2>5, <2>6 DEF Entry
      <3> QED
        BY <2>3, <2>4, <2>6, <3>1, <3>2 DEF Translation
    <2>7. CASE ~ (CodePage <= p /\ p < EndPage)
      <3>1. mem[Higher + p].flags = {}
        BY <2>5, <2>7 DEF Zero, Entry
      <3>2. p \notin KernelPages /\ p \notin DataPages
        BY <2>1, <2>2, <2>3, <2>7
      <3> QED
        BY <2>4, <3>1, <3>2 DEF Translation
    <2> QED
      BY <2>6, <2>7
  <1> QED
    BY <1>1, Invariant, PTL

(***************************************************************************)
(* The first 8 MiB are mapped where they are when paging is switched on    *)
(* (bootstrap.S:147-188).                                                  *)
(***************************************************************************)
THEOREM LowIdentityThm == StartSpec => []LowIdentity
  <1>1. Inv => LowIdentity
    <2> SUFFICES ASSUME Inv, eip = "ksetup", NEW p \in 0 .. 2 * ENTRIES - 1
                 PROVE  Translation(p) = p
      BY DEF LowIdentity
    <2>1. /\ p \div ENTRIES = IF p < ENTRIES THEN 0 ELSE 1
          /\ p % ENTRIES = IF p < ENTRIES THEN p ELSE p - ENTRIES
      <3>1. 0 * ENTRIES + p = p /\ 0 + 1 = 1
        BY Sizes
      <3>2. /\ (0 * ENTRIES + p) \div ENTRIES = IF p < ENTRIES THEN 0 ELSE 0 + 1
            /\ (0 * ENTRIES + p) % ENTRIES = IF p < ENTRIES THEN p ELSE p - ENTRIES
        BY TwoRegions
      <3> QED
        BY <3>1, <3>2
    <2>2. /\ mem[0] = Entry(Boot, {"P", "RW"}) /\ mem[1] = Entry(ENTRIES, {"P", "RW", "PS"})
          /\ p < ENTRIES => mem[Boot + p] = Entry(p, IF p < LowPages THEN {"P", "RW"} ELSE {"P"})
      BY Built, Sizes
    <2>3. Top + p \div ENTRIES = IF p < ENTRIES THEN 0 ELSE 1
      BY <2>1 DEF Top
    <2>4. CASE p < ENTRIES
      <3>1. WordOf(p) = Boot + p
        BY <2>1, <2>2, <2>3, <2>4 DEF WordOf, Entry
      <3>2. mem[WordOf(p)].addr = p /\ "P" \in mem[WordOf(p)].flags
        BY <2>2, <2>4, <3>1 DEF Entry
      <3>3. mem[Top + p \div ENTRIES].flags = {"P", "RW"}
        BY <2>2, <2>3, <2>4 DEF Entry
      <3> QED
        BY <3>2, <3>3 DEF Translation
    <2>5. CASE ~ (p < ENTRIES)
      <3>1. /\ mem[Top + p \div ENTRIES].flags = {"P", "RW", "PS"}
            /\ mem[Top + p \div ENTRIES].addr = ENTRIES
        BY <2>2, <2>3, <2>5 DEF Entry
      <3>2. ENTRIES + (p % ENTRIES) = p
        <4>1. ENTRIES + (p - ENTRIES) = p
          BY Sizes
        <4> QED
          BY <2>1, <2>5, <4>1
      <3> QED
        BY <3>1, <3>2 DEF Translation
    <2> QED
      BY <2>4, <2>5
  <1> QED
    BY <1>1, Invariant, PTL

(***************************************************************************)
(* kernel_tmp_page_entry_address is the free word of the page behind the   *)
(* kernel (bootstrap.S:207-211).                                           *)
(***************************************************************************)
THEOREM TmpEntryFreeThm == StartSpec => []TmpEntryFree
  <1>1. Inv => TmpEntryFree
    <2> SUFFICES ASSUME Inv, eip = "ksetup"
                 PROVE  /\ tmp \in Higher .. Behind - 1 /\ tmp = WordOf(High(EndPage))
                        /\ mem[tmp] = Zero
      BY DEF TmpEntryFree, EndPage
    <2>1. EndPage \in Nat /\ EndPage < 2 * ENTRIES /\ tmp = Higher + EndPage
      BY ImagePages DEF Inv, Registers, InKernel
    <2>2. EndPage \in 0 .. 2 * ENTRIES - 1 /\ ~ (EndPage < EndPage)
      BY <2>1, Sizes
    <2>3. tmp \in Higher .. Behind - 1
      BY <2>1, Sizes DEF Higher, Behind
    <2>4. tmp = WordOf(High(EndPage))
      BY <2>1, <2>2, HighWord
    <2>5. mem[Higher + EndPage] = Zero
      BY <2>2, Built
    <2> QED
      BY <2>1, <2>3, <2>4, <2>5
  <1> QED
    BY <1>1, Invariant, PTL

(***************************************************************************)
(* No loop writes behind the tables, whatever the size of the kernel       *)
(* (bootstrap.S:66-73 and 90-104).                                         *)
(***************************************************************************)
THEOREM TablesOnlyThm == StartSpec => []TablesOnly
  <1>1. Inv => TablesOnly
    BY DEF Inv
  <1> QED
    BY <1>1, Invariant, PTL
=============================================================================
