# A TLA+ model of the SATAN kernel

SATAN is a small x86 kernel written in Rust. At this commit it boots, sets up
interrupts, builds a page allocator from the boot loader's memory map, maps and
unmaps one test page, and faults on it on purpose. This directory models the
parts that carry that logic: the tables the bootstrap code builds, the memory
handed to the page allocator, the allocator, the page tables with their entries
and the temporary page they are reached through, the console, and the interplay
of the boot thread with the interrupt handlers. File names below are relative to
the kernel crate (`src/src/` in `PROJECT.json`).

## 1. Inventory

| Component | State | Operations | Interacts with |
|---|---|---|---|
| Zoned buddy allocator (`memory/page_allocator/zoned_buddy.rs`) | a vector of zones behind a spin `RwLock`; per zone an immutable range, a lock-free buddy and an atomic byte counter | `add_zone`, `alloc`, `free`, `total_memory`, `allocated_memory` | the external crate `lock_free_buddy_allocator`; the heap (the buddies' trees); the page tables take frames from it |
| Nested page table (`memory/address_space/nested_page_table.rs`, `arch/x86/paging/address_space.rs`) | the directory and the tables in physical memory | `map_alloc`, `map_page`, `unmap_free`; per level `get_entry`, `set_entry`, `new_sublevel`, `free_sublevel` | the allocator; the temporary page; the processor's TLB (`flush_tlb`) |
| Page table entries (`arch/x86/paging/page_table_entry.rs`, `page_size.rs`) | one word | `new_page`, `new_page_table`, `flags`, `address`; the conversions between `PTEFlags` and `MappingFlags` | the page tables |
| Temporary page (`arch/x86/paging/tmp_page.rs`) | one page table entry and its mutex | `map` | the page tables, the TLB |
| Boot memory map (`setup_paging` in `arch/x86/paging/mod.rs`) | none of its own | the loop that turns multiboot areas into zones | the allocator, the heap |
| Interrupts (`arch/x86/interrupts.rs`) | the IDT, the interrupt controllers, the IF flag | `setup`, `enable`, `disable`, the 256 stubs, `interrupt_handler` | the console; interrupts the boot thread anywhere |
| Boot thread (`ksetup` in `arch/x86/mod.rs`, `setup_paging`) | its position | a fixed sequence of steps | everything |
| Early console (`arch/x86/early_logger.rs`, `log.rs`) | an 80x25 buffer and a column behind the spin lock `WRITER` | `_print`, `_panic`, `Writer::write`, `new_line` | the boot thread and the handlers |
| Bootstrap (`arch/x86/x32/bootstrap.S`, `linker.ld`) | the initial page tables, GDT, TSS | `_start`, `mmap` | leaves the tables the page table code continues from |
| Size formatting (`FormatSize` in `memory.rs`) | none | `fmt` | none |
| Lock aliases (`sync.rs`), configuration, build scripts | none | none | none |

What is hard about it (each item is under `hazards` in `PROJECT.json`, at its
line):

* the allocator's buddy and its counter are two atomics changed one after the
  other, in the opposite roles by `alloc` and `free`, and every method but
  `add_zone` takes the lock shared;
* `add_zone` cuts a region into powers of two and may fail in the middle;
* `unmap_free` frees a frame before it clears the entry that maps it, frees a
  table before it unlinks it, computes the range for the level below in two
  different ways, and may stop half way;
* the processor may cache a translation between any two writes of the tables;
* the allocator may run dry anywhere in `map_alloc`;
* every access to a page table goes through one temporary page, whose entry is
  rewritten and flushed only if it differs, and whose word the processor writes
  too;
* the bounds of memory areas are 64 bits wide, unaligned, and may lie inside the
  kernel or above what an address can name;
* the bootstrap loops write tables whose size depends on where the linker put the
  end of the kernel;
* the console scrolls in place and wraps lines lazily;
* the clear of a directory entry and the test for a large page share one bit;
* a handler runs on top of the boot thread, prints through the same spin lock,
  and `_panic` never releases that lock.

For each component, what correctness means: the allocator hands no block to two
owners and loses none, and its counters do not wrap and agree with the buddies
when nothing is in flight; the page tables implement an address space, never
let the processor use a translation that is gone, and account for every frame;
an access to a table is atomic and reaches the frame it is for; an entry reads
back as it was written and the processor does what it says; the allocator is
given available whole pages, each once; the kernel runs with itself mapped,
exactly; no interrupt arrives before it can be handled, each that is handled is
acknowledged, the console lock cannot block anyone it should not, a panic message
stays on the screen, and the screen is that of a terminal.

## 2. Modules

| Module | Content |
|---|---|
| `ZonedBuddy` | the allocator with concurrent callers; the inductive invariant; implements `PagePool` |
| `PagePool` | abstract: what a page allocator promises |
| `MCZonedBuddy` | the TLC instance |
| `ZonedBuddyProofs` | theorems about `ZonedBuddy`, checked by TLAPS |
| `PageTable` | the two-level tables, the TLB and a pool of frames; implements `AddressSpace` |
| `AddressSpace` | abstract: what an address space promises |
| `MCPageTable` | the TLC instances |
| `PageTableProofs` | theorems about `PageTable`, checked by TLAPS |
| `TmpPage` | the temporary page, its mutex and its TLB entry; implements `EntryMemory` |
| `EntryMemory` | abstract: atomic operations on the entries of page tables |
| `TmpPageProofs` | theorems about `TmpPage`, checked by TLAPS |
| `PTEntries`, `MCPTEntries` | the words of page tables, as the code and the processor read them, and the instances |
| `PTEntriesProofs` | theorems about `PTEntries` |
| `Bootstrap` | the page tables built before paging is on |
| `BootMemory`, `MCBootMemory` | the loop that turns the memory map into zones, and its instances |
| `MCBoot` | the instance of the boot sequence: `Bootstrap`, then `BootMemory` |
| `BootstrapProofs` | theorems about `Bootstrap` |
| `Interrupts` | boot thread, handlers, interrupt controller, console lock |
| `InterruptsProofs` | theorems about `Interrupts` |
| `EarlyLogger` | the console cell by cell; implements `Terminal` |
| `Terminal` | abstract: a terminal where a byte takes effect at once |
| `EarlyLoggerProofs` | theorems about `EarlyLogger` |
| `FormatSize` | the printing of sizes |
| `MCConsole` | the instance of what is printed: `FormatSize` and `EarlyLogger` |
| `MemoryProofs` | theorems about `BootMemory` and `FormatSize` |

How they fit together. `Bootstrap` produces the tables `PageTable` starts from (in
the low half a table, a large page and nothing else) and the entry `TmpPage` uses,
and shows that it is free. `BootMemory` produces the regions `ZonedBuddy` is given,
and `ZonesFitAllocator` is `ZonedBuddy`'s `RegionsAssumption`. `PageTable` takes the
allocator as a pool of frames, which `ZonedBuddy` implements (`PagePool`), and
reads, writes and clears tables in one step, which is what `TmpPage` implements
(`EntryMemory`); it looks at the address, P, PS and G of an entry, and `PTEntries`
shows what of an entry comes back as it was put in, and that G gets into the
address. `Interrupts` is about who holds the console's lock, `EarlyLogger` about
what the holder does with the screen.

Definitions named `X_Something` just before a definition `X`, with a comment
that begins "Mutant", are deliberately wrong versions of `X`. No specification
uses them; they document which mistake each property detects (`mutants` in
`PROJECT.json`).

### ZonedBuddy

Addresses and sizes are counted in blocks of `BLOCK_SIZE`. The kernel of this
commit has one processor and allocates from the boot thread only, but the
allocator's interface (`&self`, a reader-writer lock, atomics, a lock-free
buddy) is one for concurrent use, so it is modelled with a set of `Callers`.

* `add_zone` is `AddZone`, then one `AddZoneSkip` or `AddZonePush` per bit of
  the size. A power of two, which the code pushes at once, is the region with
  one set bit. Each push takes the lock exclusively on its own, so callers run
  between two pieces. `AddZoneFails` is the `?` on `BuddyAlloc::new`.
* `alloc` is `Alloc`, then `AllocMiss` for each zone without room, `AllocHit`
  (the buddy) and, as a separate step, `AllocCount` (the counter); `AllocNone`
  returns `None`.
* `free` is `Free`, then for every zone `FreeMiss`, or `FreeHit` (the buddy) and
  `FreeUncount` (the counter); the loop goes on after a hit, as in the code.
* `allocated_memory` loads one counter per step.
* `BuddyFits`, `BuddyAlloc`, `BuddyFree` describe the external buddy: atomic,
  returns free, naturally aligned runs, fails only when there is none.
* `live` is a history variable: what `alloc` returned and nobody passed to
  `free`. The repository's README says that freeing is unchecked; callers are
  therefore assumed to free only what they got, once.

### PageTable and AddressSpace

Addresses are counted in 4 KiB pages, and both levels have `ENTRIES` entries in
place of 1024. An entry has its address, P, PS and G: the bits the control flow
looks at, and the one that gets into the address. One call is in progress at a time
(one processor; handlers do not use the address space), but every call is cut into
steps at each write of a table and each call of the allocator, and between any two
of them `TlbFill` may cache any translation the tables hold. `FlushTlb` removes the
one page `invlpg` names. A large page is cached under its first page.

`mem` holds the contents of every frame, so a new table contains whatever was in
its frame (`Junk`) unless `NewSublevel` clears it. `Init` is the low half of the
directory as the bootstrap code leaves it: entry 0 is a table that maps the first
4 MiB to themselves (`LowTable`, a static of the kernel), entry 1 a large page for
4 to 8 MiB, and nothing else. `setup_paging` gives the allocator all available
memory above the kernel, which ends below 8 MiB, so these pages reach frames of the
allocator before any call is made. `FrameAt` says which: an address written by the
bootstrap code is a page number, one written by `map_alloc` a frame, and `Phys` is
the memory behind either. Keeping the two apart tells which entry an allocation
owns. `BootZone` says whether one zone contains all of 4 to 8 MiB.

What `alloc.free` does with an address is its range test (`zoned_buddy.rs:89`):

* for a 4 KiB page, `Accepted`: nothing if the memory is of no zone, and nothing for
  the last frame of a zone (`Last`) if the page is global, since `address()` keeps bit
  8 and the 4 KiB from there on reach out of the zone. A global page with any other
  frame is given back: the external buddy is assumed to round the address down to its
  block;
* for the large page, all 4 MiB if `BootZone`, whoever has them; only then does
  `set_entry` refuse (`UnmapLarge`).

The kernel half (directory entries 768 and 769, with the temporary page) is left
out: the code runs from it, and a call that changed it would pull it away. The test
page, `0xc0801000`, is in the first region after it.

Panics are a state of their own: `alloc().unwrap()` on `None`, and the overflows
of `vaddr + page * MIN` and of `align_up` in the last region (the debug profile
checks arithmetic). `dropped`, `call.before` and `call.lost` are history: frames
nobody can return any more, and the translations and the lost frames when the call
began.

Memory the bootstrap code mapped was not allocated through these pages. Unmapping
them frees it all the same, whoever has it by now, and nothing in the code prevents
it: that is the violation `unmap_boot_page`. The passing run and the theorems are
about `Careful` callers, who unmap no boot page whose memory `alloc.free` would take
(memory of no zone may be unmapped, and is in the run). `TakenBack` is the condition
for one page.

`AddressSpace` is the abstract specification: `map_alloc` and `unmap_free` change
one page at a time, only in the scope of the call, only to nothing or to a frame
no other page has. Its variable `boot` has the pages still mapped as the bootstrap
code left them: they may share a frame with the page it is allocated to, and those
of the large page (`Fixed`) never change. `ImplementsAddressSpace` maps `mapping` to
the memory behind the processor's walk of the tables, `boot` to the pages whose walk
ends in an address of the bootstrap code, and `scope` to the range of the call. The
scope of an unmap is extended to the end of the region its range ends in, because
the code unmaps too much (section 3, `unmap_only_asked`); the first page of the scope
is exact. A mapped page may be replaced, because the code does that too
(`map_over`).

### TmpPage and EntryMemory

A caller that wants an entry locks the mutex, compares the entry of the temporary
page, replaces it and flushes if it differs, uses the page, and drops the guard
when it returns; each is a step. `Reached` is where an access goes: to the frame
the TLB has, or else to the one in the entry. `TlbLoad` and `TlbForget` happen at
any time, and a load may set the accessed and dirty bits (`used`), which makes
the comparison fail. Frames are told apart by level, since only the upper one
tests for large pages. `EntryMemory` has the same operations in one step; under
the mapping, `new_sublevel` takes effect with its first entry.

The kernel of this commit uses page tables from the boot thread only; the mutex
is for more than one context, and so is the model.

### PTEntries

A word is the set of its 1 bits. `Encode` and `GetEntry` are the conversions of
`set_entry` and `get_entry`, through `MappingFlags`, `PTEFlags` and `PageSize`;
`Touch` is the processor, which marks what it walks through. `Present`,
`Translation` and `Effective` are its reading of the two words: a right needs the
bit in both. The bootstrap code does not set CR0.WP, so RW binds user mode only;
the model speaks of the bit, not of who obeys it. `EntryHolds` and
`TranslatesAsAsked` leave out two cases, the address of a global page and the effect
of USER; in both the code does not do what its documentation says, and the run
`page_as_documented` shows it.

### BootMemory

The number of addresses is a constant (`WORD`), so addresses beyond 4 GiB are
addresses beyond `WORD`; a page is a power of two, stated as having no odd divisor
but 1. `AddZone` is the call, after which `AddZoneSkip` and `AddZonePush` go
through the bits of the size as in `ZonedBuddy`, in bytes; at any set bit the call
may fail (`AddZoneFails`, which goes on with the next area) or panic when the
vector of zones cannot grow (`HeapPanics`). How much of the 4 KiB heap a buddy
needs is left open: both may happen anywhere.

### Bootstrap

The registers `esi` and `edi`, the tables as consecutive words, and every layout
the linker script allows up to `MaxEnd`, including kernels that do not fit. `mmap`
is a loop that writes before it compares; its four calls share the registers, and
`Calls` has what changes between them. `map_lower.loop` is modelled as it is: its
condition (`ja`) ends it after one entry, so 8 MiB are mapped. Its specification is
`StartSpec` (of `_start`), so that `MCBoot` can put it before `BootMemory`.

### EarlyLogger and Terminal

`write` is a step up to `new_line` or the store of the character; `new_line`
moves one cell per step. `write_str` truncates a character to a byte (`Byte`). The
mapping to `Terminal` adds the rest of the write in progress to the buffer.

### FormatSize

The loop as steps, and the two formats as numbers, with a multiplication in a word
(`% SIZES`). Nothing in the kernel prints a `FormatSize` yet. The units are a table
(`Unit`), one `BASE` times the other, instead of shifts, so that the proofs need no
powers. Its specification is `FmtSpec` (of `fmt`), so that `MemoryProofs` can extend
this module and `BootMemory`.

### Interrupts

The boot thread is a sequence of steps (`Boot`): the prints of `ksetup`,
`interrupts::setup` (IDT, controllers, `sti`) and `setup_paging`, the places
where it may panic (`check`), and the read that faults. A handler runs between
any two steps and the boot thread waits for it. A print is three steps: take
`WRITER`, write, release. `interrupt_handler` is `Handle`, which branches on the
vector in the order of the code's tests, then `HandlerPrint`, `HandlerPanic` or
`EndOfInterrupt`; vectors above 0x21 loop for ever.

The processor and the 8259s are external: `Raise`, `Deliver` (only with IF set,
highest priority first, not while a line of higher priority is in service), and
the vectors of the BIOS until `SetupPic` has run. Spurious interrupts and the
stack layout of the stubs are not modelled. A line raised before the controllers
are initialised stays pending in the model; that the real one may forget it adds
nothing, as it is indistinguishable from a line not raised yet.

## 3. What the runs check

| Run | Expectation | What it shows |
|---|---|---|
| `zoned_buddy` | pass | Two callers, a region of three blocks (hence two zones) and, right after it, one of two blocks. `NoDoubleAllocation`: no block in two hands. `NoLostBlock`: every taken block has an owner. `CountersNeverWrap`: `fetch_sub` never goes below zero. `CountersSettle`: counter and buddy agree once no call is between its two atomics. `TotalIsManaged`: `total_memory` counts each block once. `ImplementsPagePool`: the refinement. |
| `page_table` | pass | Careful callers. `TlbCoherent`: the TLB never holds a translation the tables lack. `FramesAccounted`: between calls each frame is free, in one entry `map_alloc` wrote, or lost. `FreedOnlyInWindow`: but for the boot pages, a free frame is reachable only between its free and the clear of its entry. `MapOkMaps`, `UnmapOkUnmaps`: what `Ok` promises. `CallsEnd`: a call in progress has a next step, and every step leaves less to do. `ImplementsAddressSpace`: the refinement. |
| `unmap_only_asked` | violation | A range inside one region: the pages after it, up to the end of the region, are unmapped and freed too. |
| `unmap_boot_page` | violation | `FreedIsUnused`: unmapping 4 to 8 MiB frees memory that is allocated to other pages and tables, and then fails. |
| `tmp_page` | pass | `GuardReachesFrame`: an access through the guard reaches the frame asked for. `ImplementsEntryMemory`: the refinement. `GuardIsDropped`: who locks, unlocks. |
| `pt_entries` | pass | `EntryHolds`: `get_entry` returns the table, the page of memory and the flags `set_entry` was given, and the exact address unless the page is global. `TranslatesAsAsked`: the processor translates as asked, with WRITE, UNCACHED and GLOBAL as asked, and USER at most where asked. |
| `page_as_documented` | violation | A page with GLOBAL and USER: its address comes back with bit 8 set, and user code cannot use it. The counterexample is one state that shows both. |
| `boot` | pass | The boot sequence. Of the tables: `KernelMapped`: exactly the kernel, data writable. `LowIdentity`: the first 8 MiB stay where they are. `TmpEntryFree`: the temporary page has an entry, and it is free. `TablesOnly`: nothing behind the tables is written. Of the memory map: `ZonesAreAvailable`: zones are available memory behind the kernel. `ZonesFitAllocator`: whole pages, no overlap. `LossIsReported`: a page that is in no zone at the end has been announced. |
| `boot_memory_high` | violation | An area above what an address can name is truncated onto low memory: zones overlap and `total_memory` counts bytes twice. |
| `interrupts` | pass | Four lines. `NoPhantomException`: no handler before the IDT, no device reported as an exception. `InServiceIsRunning`: handlers do not nest and each that returned sent its EOI. `OnlyKeyboardWaits`: only a keyboard handler can find `WRITER` taken. `PanicIsLast`: nothing is printed after a panic. `ReportedOrHung`, `EoiSentOrHung`: the announced page fault is reported and each line gets its EOI, unless the kernel hangs in one of two ways (`Hung`). With the timer alone neither way exists. |
| `interrupts_keyboard` | violation | A key pressed during a print of the boot thread: the handler spins on `WRITER` for ever and the page fault is never reported. |
| `console` | pass | What is printed. `NoOverflow`: `self.0 * 10` fits. `RoundedDown`: the text is the size rounded down, in the right unit. `StoreInBounds`: no store outside the row. `ImplementsTerminal`: the refinement. |

### Where the code and its documentation differ

Each violation run has an entry under `findings` that quotes the line of the
documentation. Six more configurations of `MCPageTable` each give a counterexample
of a few steps to another sentence of `memory/address_space.rs`; they are run by hand
(`tlc -config <file> MCPageTable`) and not part of the list of runs:

| Configuration | Property | What the code does |
|---|---|---|
| `MCPageTableUnmapGlobal.cfg` | `UnmapMarksFree` ("mark it as free", line 72) | `address()` keeps the G bit, so `alloc.free` ignores the frame of a global page if it is the last of its zone, and it is lost (`page_table_entry.rs:119`) |
| `MCPageTableUnmapNotPresent.cfg` | `UnmapMarksFree` | unmapping a whole region loses the frames mapped there without PRESENT (`nested_page_table.rs:137`) |
| `MCPageTableUnmapLastRegion.cfg` | `UnmapReturns` ("unmap a region", line 72) | a page in the last 4 MiB can be mapped, but `align_up` overflows when it is unmapped (`nested_page_table.rs:101`) |
| `MCPageTableMapOver.cfg` | `NoMappingOver` ("mapping over an already existing page", line 29) | mapping over a 4 KiB page replaces it and returns `Ok` (`nested_page_table.rs:73`) |
| `MCPageTableRemap.cfg` | `MappingOverExists` (line 29) | a region whose table was freed keeps PS in its entry and is refused with `MappingOver`, though nothing is mapped there (`arch/x86/paging/address_space.rs:96`, `103`) |
| `MCPageTableOutOfMemory.cfg` | `OutOfMemoryReturned` ("page allocation failed", line 32) | `map_alloc` panics when memory runs out between two pages (`nested_page_table.rs:178`) |

Three more were met while modelling, and are exceptions that passing properties
allow:

* a `map_alloc` that fails half way keeps the frames it had in hand
  (`nested_page_table.rs:84`): they are in `dropped`, which `FramesAccounted` allows,
  as no document promises them back;
* `free` gives a block back before it uncounts it, so the documented
  `total_memory - allocated_memory` may underflow (`zoned_buddy.rs:90-98`):
  `CountersSettle` speaks of the moments when no call is in between;
* lines other than timer and keyboard end in `loop {}` and their stub's EOI is
  never sent (`interrupts.rs:60`): the second case of `Hung`.

### Bounds

* `MaxZones = 3`, `Sizes = {1, 2}`: add_zone splits a region, a two-block
  allocation fits in one zone only, one zone is skipped by `alloc`, the allocator
  is exhausted, and `free` passes zones before and after the right one. Two
  callers are enough for the counters, which only ever relate one caller's pair
  of instructions to another's; the theorems hold for any number.
* `ENTRIES = 5`: the directory has the low table, the large page, two ordinary
  regions, and the last one, where `align_up` overflows. `MCMapRanges` and
  `MCUnmapRanges` have ranges that start or end inside a region, cover one, span
  two, are empty, touch the low table and the large page, cover either, and leave
  the address space. Three frames are a table and two pages, or two tables and one,
  so the allocator runs dry at both of its calls; one of them lies behind a boot
  page (`b`), one is the last of its zone (`l`). The kernel ends in the large page
  (`LateKernel`), so no zone contains all of it, and the calls that unmap it are
  careful. The TLB loads one page of the low table and one that is mapped and
  unmapped (`Touched`); the theorem is for all.
* the violation runs of `PageTable`, and its configurations run by hand, have ranges
  in the ordinary regions only, or in the last one, or, for `unmap_boot_page`, in
  the large page, with a kernel that ends in the first 4 MiB (`EarlyKernel`), and
  one kind of flags each, so that none can be violated for the reason another is
  about.
* `Irqs = {0, 1, 3, 8}`: the timer, the keyboard, a line of each controller that
  has no handler.
* `TmpPage`: two callers, a directory and a table of two entries. Another frame or
  entry adds nothing to a single word of mapping; the theorem has any number.
* `PTEntries`: the lowest and the highest bit of an address, which next to the
  flags are the ones a wrong mask touches; all 128 sets of mapping flags.
* `MCBoot`: pages of two bytes. Tables of five entries; kernels end anywhere up to 26,
  where 20 is what two tables hold, so that both checks fail and pass. One of them
  (`Kernel`), the smallest, goes on to the memory map; the others stop there, as the loop
  looks at nothing of the tables. There are 20 addresses, so an area may
  begin or end in the middle of a page, inside the kernel (`KernelEnd = 9`), at the
  very end of the address space (0 once truncated) or so high that aligning it
  overflows. Two areas meet, touch or come in the wrong order. `boot_memory_high` has
  16 addresses, areas up to 24, and `BootMemory` alone.
* `MCConsole`: three columns and three rows, two characters, both line ends, and
  one character whose low byte is a line end; the screen fills and scrolls. The writer
  takes any text, so it goes on after one formatted size only.
* `FormatSize`: all 15-bit sizes with units of 16 and three of them: the constants
  keep the relation that makes the multiplication fit (`FormatSizeAssumption`, true
  for words of 64 bits and six units 10 bits apart), and the last unit overflows
  its range as PiB does.
* `CHECK_DEADLOCK FALSE` where the system really stops: after a panic, which
  loops for ever, at the end of `ksetup`, of the bootstrap code, of the loop over
  the areas, of a printed size. `ZonedBuddy`, `TmpPage` and `PTEntries` have no
  such state and are checked for deadlock.

Symmetry is used for `Callers`, whose run has no liveness property.

### Fairness

* `TmpPage`: weak fairness of the steps of each caller: who holds the mutex is
  not stopped for good. Calling and what the TLB does are not fair.
* `PageTable` assumes none: `CallsEnd` gives a quantity that every step of a call
  decreases and says that there is a next step.
* `Interrupts`: weak fairness of the handler, which runs with IF clear; strong
  fairness of the boot thread, because the timer's period is far longer than its
  handler, so the boot thread runs between two ticks; strong fairness of the
  delivery of each pending line, as the controller holds the request until IF is
  set. Devices need not raise anything. A spinning `lock()` is an action that is
  disabled while the lock is held, so fairness never lets it through.

## 4. What is proved

TLAPS checks every theorem below for every value of the constants that satisfies
the named assumptions, which TLC evaluates in the runs. An invariant is proved
from an inductive one, with a lemma or a step per action.

### ZonedBuddyProofs

For every set of callers, every set of disjoint regions, all request sizes and any
number of zones: `TypeCorrect`, `NoDoubleAllocationThm`, `NoLostBlockThm`,
`CountersNeverWrapThm`, `CountersSettleThm`, `TotalIsManagedThm` and
`ImplementsPagePoolThm`.

Assumptions: `RegionsAssumption` (regions passed to `add_zone` do not overlap),
`SizesAssumption` (no request for zero blocks), `BoundsAssumption` (finitely many
callers, a natural bound on the zones), and what `ZonedBuddy` states of the
external buddy.

None of the properties is inductive. Two live allocations might be disjoint while
the buddy believes one of them free, or two zones might overlap; the next `alloc`
would then break the property. The invariant is `HoldInv`:

* `ZonesApart`, `RestApart`: zones do not overlap each other, nor what the
  `add_zone` in progress and the regions to come will still add. The lemmas
  `ShiftEven` and `ShiftOdd` show that cutting off the lowest bit leaves the rest
  of the region (`rest * size_p2`) where it was, or moves it past the new zone;
* `TakenInZone`: a buddy hands out blocks of its own zone only;
* `LiveTaken`, `CallersOwn`: what someone holds is marked taken in the buddy of
  the zone whose range test `free` will pass, for each stage of a call;
* `HoldersApart`: the holders, live allocations and calls in progress, are
  pairwise disjoint (`NoDoubleAllocation` is the part of it a user sees);
* `NoLostBlock` itself.

`OneZone` is the key lemma: a non-empty run passes the range test of one zone
only. So the loop of `free`, which does not stop at the first hit, gives a block
back exactly once.

The counters need `CountersExact` on top (`IInv`): a zone's counter is the number of
its taken blocks, without those of an `alloc` that has not reached its `fetch_add`
and with those of a `free` that has not reached its `fetch_sub`. It is a
cardinality, so the proof is about finite sets: `AddRun` and `RemoveRun` say what a
run of blocks adds to a count it is disjoint from, and `HoldersApart` is what makes
it disjoint. One lemma per action then moves the count (`CountAllocCount`,
`CountFreeUncount`) or leaves it.

`TotalIsManaged` is about a fold over a vector of any length and needs an
induction. The rule for it comes in the form of a least counterexample (`Least`:
a set of natural numbers that is not empty has a smallest one, which follows from
the well-foundedness of `<`). With it, the recursive function in `TotalMemory`
exists for every vector (`SumExists`), and its value at `k` is the number of blocks
of the first `k` zones (`SumCounts`), since by `ZonesApart` the next zone is
disjoint from them.

For the refinement `AddZonePush` is a `Grow`, `AllocCount` (where `live` gains
what is returned) a `Take`, `Free` a `Give`, and every other step a stutter. That
what is taken is managed and in no other hand comes from `HoldInv`.

### PageTableProofs

For every number of entries, every set of frames and every memory behind the boot
pages, all flags and all ranges (`ConstantsAssumption`), and for careful callers
(`Careful`, the hypothesis of each): `TypeOKThm`, `TlbCoherentThm`,
`FramesAccountedThm`, `FreedOnlyInWindowThm`, `MapOkMapsThm`, `UnmapOkUnmapsThm`,
`LeavesLessThm` and `ImplementsAddressSpaceThm`. Without `Careful` they are false:
`unmap_boot_page` frees a table that is in use, which `map_alloc` may then allocate
and fill with anything. The invariant:

* `CarefulCall`: what `Careful` says of the call in progress. It is what makes the
  `alloc.free` of a boot page, large or small, take nothing (`LargeNotTaken`,
  `FreedLeaf`);
* `RootInv`, `LeafInv`: the large page stays at index 1 and every other entry of the
  directory is a table or not present; tables are frames of the allocator or the low
  table, and hold frames or nothing, or, in the low table, the page itself;
* `Own`, about the entries that hold frames of the allocator, not those the bootstrap
  code wrote: a frame is the table of one region at most, is in one entry of one table
  at most, and not both; what is used is neither free, nor dropped, nor in the
  hands of the call (`data`, `sub`); nothing is missing. The windows of
  `unmap_free`, where a frame is free and still named, are the exceptions, at their
  labels. `FramesAccounted` and `FreedOnlyInWindow` are read off it; the first
  needs a cardinality of one, from the bijection in `ReferencesAre`;
* `MapPlace`, `UnmapPlace`: where the loops are, and how the page they are at lies
  in the range of the call, region by region;
* `TlbCoherent`: inductive only with `Own`, since a table in two regions would let
  one write change two translations and `invlpg` flushes one;
* `MappedSoFar`, `UnmappedSoFar`: what the loops have already done.

The arithmetic of `align_up`, `align_down` and of page numbers is in lemmas of its
own (`PageIndex`, `AlignUpOf`, ...), as products of two unknowns are where the
provers need every step. For the refinement `MapLeaf` and `UnmapLeafClear` are
steps of `AddressSpace`, the writes to the directory change no translation
(`WalkSame`), and `DataFresh` says that a frame in the call's hand is no page's but
a boot page's. The writes of a call are into pages of its scope, which `FixedPages`
keeps apart from the large page.

`LeavesLess` is the half of `CallsEnd` without ENABLED: every step of a call
decreases a natural number. Its proof failed at first for tables of one entry,
where the measure stayed equal; the measure was too coarse there, not the code,
and has been corrected.

### TmpPageProofs

For any callers, frames and number of entries:

* `GuardReachesFrameThm`. The invariant is `GuardInv`: exactly the holder of the
  mutex is past `lock()` (`Mutex`); the TLB has what the entry has, or nothing,
  except between the write of the entry and the flush (`TlbFollows`); and from the
  write on the entry names the frame of the holder (`EntryIsAsked`). The comparison
  that skips the flush is safe because of the first two: at that point nobody is
  between write and flush.
* `TypeOKThm`. That an access goes to a frame at all needs `GuardInv`; `Place` adds
  where in the frame each caller is.
* `ImplementsEntryMemoryThm`. `StepInv` adds to these what has been done and seen
  (`Progress`): the entries `new_sublevel` has passed are null, and what `set_entry`
  tested has not become a large page. Both survive the steps of others because only
  the holder of the mutex writes (`AtWork`). `GetEntry` is a `Get`, the refusal in
  `SetTest` and `SetStore` a `Set`, the first `ClearEntry` a `Clear`, `Call` a
  `Request`; the rest stutter.

### InterruptsProofs

For every set of lines of the two controllers (`IrqsAssumption`): `TypeOKThm`,
`NoPhantomExceptionThm`, `InServiceIsRunningThm`, `OnlyKeyboardWaitsThm` and
`PanicIsLastThm`. The invariant adds what the boot thread has done at each step
(`BootPlace`: IF is clear before step 4, the IDT and the controllers are set up
after theirs), which vectors a running handler can have and where it can be with
each (`HandlerPlace`, `HandlerPath`), who holds `WRITER` at which place
(`WriterHeld`), and that after a panic message the lock stays with the one who
wrote it (`PanicKeeps`). `BootSteps` is what the proofs use of the sequence
`Boot`, so a step added to it asks for that lemma again and for nothing else.

### PTEntriesProofs

For every set of address bits above the flags and all flags (`PTEntriesAssumption`):
`EntryHoldsThm` and `TranslatesAsAskedThm`. The invariant says of each word that it
is the encoding of what `set_entry` was last given, up to the bits the processor
sets; what it says of a global page's address and of USER is as much as the code
does; `MappingRoundTrip` is the conversion of the flags there and back,
`AddrAboveFlags` why addresses and flags do not mix.

### EarlyLoggerProofs

For a screen of any size (`EarlyLoggerAssumption`), any text and whatever the
firmware left on the screen: `StoreInBoundsThm` and `ImplementsTerminalThm`. The
mapping looks through `new_line`: of a cell it has dealt with it takes what is
there, of any other the one below. Moving a cell is therefore a stutter, provided
the cell below has not been overwritten yet: `NewLineCellStutters`, from the order
of the loop (`CellNumber`, `CellUnique`: a number names one cell, and the cell below
comes later). `ScrollLines` relates the scrolled screen to the sequence operations
of `Terminal`, and `WriteWrites` has a case per kind of byte.

### BootstrapProofs

For pages and tables of any size and every layout the linker script allows that
ends within three regions (`BootstrapAssumption`; the tables have two, so kernels
that do not fit are among them): `KernelMappedThm`, `LowIdentityThm`,
`TmpEntryFreeThm`, `TablesOnlyThm`. The invariant gives every word of the tables as
a function of the place and the registers (`Word`, `Registers`), so the proof of
the two loops (`InvMmapLow`, `InvMmapKernel`) is that a write turns this function
for one turn into that for the next. The loops write before they compare; that no
range is empty is part of it (`ImagePages`).

### MemoryProofs

For pages and words of any size, every set of areas and every map
(`BootMemoryAssumption`): `TypeOKThm` and `LossIsReportedThm`; and, if every area
ends within the addresses (`Addressable`), `ZonesAreAvailableThm`,
`ZonesFitAllocatorThm` and `TotalIsManagedThm`. The condition is what the run
`boot` has and `boot_memory_high` lacks, so the last of them says that the
truncation is the only way to the violation found there.

The invariant:

* `Adding`: during `add_zone` the bits to come make up the rest of the region
  (`adding.start + rest * size_p2` is the end of it), the next piece starts at a
  page, and a bit is a multiple of a page or a page is a multiple of it (`Scaled`).
  That a set bit is at least a page is `ScaledOdd`: were it less, the page would be
  an even multiple of it and an odd number of such bits would be no whole pages. So
  no piece ever fails the debug assertions of `add_zone`;
* `Homes`: every zone lies in the trimmed part of an available area the loop has
  reached, and, if it is the one at hand, in the part `add_zone` has passed;
* `WholeZones`, `ZonesApart`: a new zone overlaps none of the same area because
  `add_zone` moves on, and none of another because areas do not overlap;
* `PassedPieces`, `PassedAreas`: what lies behind the loops is covered by zones, or
  the message has been printed. By `AlignUpLeast` and `AlignDownIs` rounding passes
  no whole page (`PageInside`), so an area that is skipped or finished leaves none.

`TotalIsManagedThm` counts bytes as the theorem of that name in `ZonedBuddyProofs`
counts blocks.

`NoOverflowThm` and `RoundedDownThm` are about `FormatSize`, for every size of a
word and every table of units (`FormatSizeAssumption`). The invariant is `InUnit`:
`value` is the size in the current unit, rounded down. That dividing again and again
is dividing once is `NextUnit`; that the decimal is the next digit is arithmetic
with one division.

### What the proofs changed

Besides the measure of `CallsEnd`, two definitions (`Settled` in `EarlyLogger`,
`Translation` in `Bootstrap`) were CASE expressions with overlapping guards. TLC
takes the first that is true, the meaning of the expression is any of them, and
the proofs failed where the two differ. They are IF expressions now.

`BootMemory` took the pieces of an area from a sorted set of powers of two, all in
one step. It now goes through the bits one at a time, as the code and `ZonedBuddy`
do: no exponent is left in the model, and a failure between two pieces is a step
instead of a choice of how many pieces were made.

### Only model-checked

* liveness under fairness and ENABLED, which are beyond the prover:
  `GuardIsDropped`, `ReportedOrHung`, `EoiSentOrHung`, and of `CallsEnd` that a call
  in progress has a next step;
* the violations, which need no proof.

## 5. What is not modelled

* paging-structure caches, and the eviction of TLB entries in `PageTable` (a
  smaller TLB is coherent if a larger one is); x86-64, which is unfinished in the
  code (`todo!()`);
* the kernel half of the directory and the temporary page in `PageTable` (section 2);
* ranges that are not page aligned, which a debug assertion rejects in
  `set_entry`;
* how many bytes of the heap a buddy tree takes: the external crate decides;
* spurious interrupts and the stack layout of the stubs;
* GDT, TSS descriptor, multiboot header and the messages of a kernel that is too
  big; build scripts: static data and configuration; `sync.rs`: type aliases
  (`lock_nb` is called nowhere).

## 6. Plan

Modelling is complete up to section 5, and every invariant and every refinement of
the passing runs is a theorem. What is left is outside the prover's reach (the
liveness properties) or upkeep: a review of the longest proofs (`PageTableProofs`)
for steps that can be shared, and, as the code is corrected, the move of a violation
property into its passing run: without the truncation in `setup_paging` the theorems
of `MemoryProofs` lose `Addressable`, and with an `unmap_free` that leaves the boot
pages alone those of `PageTableProofs` lose `Careful`.
