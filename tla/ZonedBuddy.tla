----------------------------- MODULE ZonedBuddy -----------------------------
(***************************************************************************)
(* The zone-based page allocator, src/memory/page_allocator/zoned_buddy.rs. *)
(*                                                                         *)
(* A ZonedBuddy is a list of zones behind a reader-writer lock.  Each zone *)
(* has a lock-free binary buddy and an atomic byte counter `allocated'     *)
(* that is adjusted AFTER the buddy operation it accounts for, in a        *)
(* separate atomic instruction.  Several callers may be inside alloc, free *)
(* and allocated_memory at once (all take the lock shared); add_zone takes *)
(* it exclusively, once per power-of-two piece of its region.              *)
(*                                                                         *)
(* Addresses and sizes are counted in blocks of BLOCK_SIZE bytes: add_zone *)
(* asserts that its arguments are multiples of BLOCK_SIZE and alloc and    *)
(* free are called with page sizes.                                        *)
(***************************************************************************)
EXTENDS Integers, Sequences, FiniteSets

CONSTANTS
  Callers,   \* the contexts that may be inside the allocator concurrently
  Regions,   \* the [start, size] regions add_zone is called with, in blocks
  Sizes,     \* the block counts alloc is called with
  MaxZones   \* bound on the number of zones

(***************************************************************************)
(* What the allocator is entitled to from whoever calls add_zone: regions  *)
(* that do not overlap, as in the memory map of the boot loader.           *)
(***************************************************************************)
ASSUME RegionsAssumption ==
  /\ \A r \in Regions : r.start \in Nat /\ r.size \in Nat
  /\ \A r, s \in Regions :
       r = s \/ r.start + r.size <= s.start \/ s.start + s.size <= r.start

ASSUME SizesAssumption == Sizes \subseteq Nat \ {0}

ASSUME BoundsAssumption == IsFiniteSet(Callers) /\ MaxZones \in Nat

VARIABLES
  zones,      \* the vector of zones: their start and size
  taken,      \* per zone, the blocks its buddy has handed out
  allocated,  \* per zone, the atomic counter (in blocks)
  todo,       \* regions add_zone has not been called with yet
  adding,     \* the add_zone call in progress: start, size >> bit, 1 << bit
  pc,         \* where each caller is
  want,       \* the size each caller passed
  at,         \* the zone each caller's loop has reached
  addr,       \* the address each caller obtained or gives back
  acc,        \* the accumulator of each caller's allocated_memory fold
  live        \* allocations returned by alloc and not yet passed to free

zoneVars   == <<zones, todo, adding>>
callerVars == <<pc, want, at, addr, acc>>
vars == <<zones, taken, allocated, todo, adding, pc, want, at, addr, acc, live>>

ZoneIds == 1 .. MaxZones

(* A run of blocks: the immutable part of a zone, and an allocation.       *)
Run == [start : Nat, size : Nat \ {0}]

(***************************************************************************)
(* The blocks start, ..., start + n - 1.                                   *)
(***************************************************************************)
Span(start, n) == start .. (start + n - 1)

(***************************************************************************)
(* The external lock-free buddy of zone i.  alloc(n) returns a run of n    *)
(* free blocks that is a multiple of n away from the start of the zone,    *)
(* and fails when there is none.  alloc and free are atomic.               *)
(***************************************************************************)
BuddyFits(i, n) ==
  { a \in Span(zones[i].start, zones[i].size) :
      /\ (a - zones[i].start) % n = 0
      /\ a + n <= zones[i].start + zones[i].size
      /\ Span(a, n) \cap taken[i] = {} }

BuddyAlloc(i, a, n) == taken' = [taken EXCEPT ![i] = @ \cup Span(a, n)]

BuddyFree(i, a, n) == taken' = [taken EXCEPT ![i] = @ \ Span(a, n)]

(***************************************************************************)
(* The callers that hold the lock shared.                                  *)
(***************************************************************************)
Readers == { c \in Callers : pc[c] # "idle" }

(***************************************************************************)
(* A call returns: the lock is released and its locals are gone.           *)
(***************************************************************************)
Return(c) ==
  /\ pc' = [pc EXCEPT ![c] = "idle"]
  /\ want' = [want EXCEPT ![c] = 1]
  /\ at' = [at EXCEPT ![c] = 1]
  /\ addr' = [addr EXCEPT ![c] = 0]
  /\ acc' = [acc EXCEPT ![c] = 0]

Init ==
  /\ zones = << >>
  /\ taken = [i \in ZoneIds |-> {}]
  /\ allocated = [i \in ZoneIds |-> 0]
  /\ todo = Regions
  /\ adding = [start |-> 0, rest |-> 0, size_p2 |-> 1]
  /\ pc = [c \in Callers |-> "idle"]
  /\ want = [c \in Callers |-> 1]
  /\ at = [c \in Callers |-> 1]
  /\ addr = [c \in Callers |-> 0]
  /\ acc = [c \in Callers |-> 0]
  /\ live = {}

-----------------------------------------------------------------------------
(***************************************************************************)
(* add_zone: cut the region into its set bits, lowest first, and push one  *)
(* zone for each.  A power of two is its own only piece.                   *)
(***************************************************************************)
AddZone(r) ==
  /\ adding.rest = 0
  /\ r \in todo
  /\ todo' = todo \ {r}
  /\ adding' = [start |-> r.start, rest |-> r.size, size_p2 |-> 1]
  /\ UNCHANGED <<zones, taken, allocated, callerVars, live>>

NextBit(start) ==
  adding' = [start |-> start, rest |-> adding.rest \div 2,
             size_p2 |-> 2 * adding.size_p2]

AddZoneSkip ==
  /\ adding.rest > 0
  /\ adding.rest % 2 = 0
  /\ NextBit(adding.start)
  /\ UNCHANGED <<zones, taken, allocated, todo, callerVars, live>>

(* Mutant: the next piece starts where this one does.                      *)
NextStart_Same == adding.start

NextStart == adding.start + adding.size_p2

AddZonePush ==
  /\ adding.rest % 2 = 1
  /\ Readers = {}
  /\ Len(zones) < MaxZones
  /\ zones' = Append(zones, [start |-> adding.start, size |-> adding.size_p2])
  /\ taken' = [taken EXCEPT ![Len(zones) + 1] = {}]
  /\ allocated' = [allocated EXCEPT ![Len(zones) + 1] = 0]
  /\ NextBit(NextStart)
  /\ UNCHANGED <<todo, callerVars, live>>

(***************************************************************************)
(* The heap cannot hold the buddy's tree: add_zone returns AllocError and  *)
(* the pieces pushed so far stay.                                          *)
(***************************************************************************)
AddZoneFails ==
  /\ adding.rest % 2 = 1
  /\ Readers = {}
  /\ adding' = [adding EXCEPT !.rest = 0]
  /\ UNCHANGED <<zones, taken, allocated, todo, callerVars, live>>

-----------------------------------------------------------------------------
(* Mutant: a partial block rounds down.                                    *)
Alloc_RoundsDown(c, n) ==
  /\ pc[c] = "idle"
  /\ pc' = [pc EXCEPT ![c] = "alloc"]
  /\ want' = [want EXCEPT ![c] = n - 1]
  /\ at' = [at EXCEPT ![c] = 1]
  /\ UNCHANGED <<zoneVars, taken, allocated, addr, acc, live>>

(***************************************************************************)
(* alloc: the first zone whose buddy has room; then count it.              *)
(***************************************************************************)
Alloc(c, n) ==
  /\ pc[c] = "idle"
  /\ pc' = [pc EXCEPT ![c] = "alloc"]
  /\ want' = [want EXCEPT ![c] = n]
  /\ at' = [at EXCEPT ![c] = 1]
  /\ UNCHANGED <<zoneVars, taken, allocated, addr, acc, live>>

AllocHit(c) ==
  /\ pc[c] = "alloc"
  /\ at[c] <= Len(zones)
  /\ \E a \in BuddyFits(at[c], want[c]) :
       /\ BuddyAlloc(at[c], a, want[c])
       /\ addr' = [addr EXCEPT ![c] = a]
  /\ pc' = [pc EXCEPT ![c] = "count"]
  /\ UNCHANGED <<zoneVars, allocated, want, at, acc, live>>

AllocMiss(c) ==
  /\ pc[c] = "alloc"
  /\ at[c] <= Len(zones)
  /\ BuddyFits(at[c], want[c]) = {}
  /\ at' = [at EXCEPT ![c] = @ + 1]
  /\ UNCHANGED <<zoneVars, taken, allocated, pc, want, addr, acc, live>>

(* Mutant: counts allocations, not their size.                             *)
AllocCount_One(c) ==
  /\ pc[c] = "count"
  /\ allocated' = [allocated EXCEPT ![at[c]] = @ + 1]
  /\ live' = live \cup {[start |-> addr[c], size |-> want[c]]}
  /\ Return(c)
  /\ UNCHANGED <<zoneVars, taken>>

AllocCount(c) ==
  /\ pc[c] = "count"
  /\ allocated' = [allocated EXCEPT ![at[c]] = @ + want[c]]
  /\ live' = live \cup {[start |-> addr[c], size |-> want[c]]}
  /\ Return(c)
  /\ UNCHANGED <<zoneVars, taken>>

AllocNone(c) ==
  /\ pc[c] = "alloc"
  /\ at[c] > Len(zones)
  /\ Return(c)
  /\ UNCHANGED <<zoneVars, taken, allocated, live>>

-----------------------------------------------------------------------------
(***************************************************************************)
(* free: give the blocks back to every zone that contains them (the loop   *)
(* does not stop at the first), and uncount each time.  Freeing something  *)
(* alloc did not return is not checked by the code (README.md says so), so *)
(* callers are modelled as freeing live allocations only.                  *)
(***************************************************************************)
Free(c, a) ==
  /\ pc[c] = "idle"
  /\ a \in live
  /\ live' = live \ {a}
  /\ pc' = [pc EXCEPT ![c] = "free"]
  /\ want' = [want EXCEPT ![c] = a.size]
  /\ addr' = [addr EXCEPT ![c] = a.start]
  /\ at' = [at EXCEPT ![c] = 1]
  /\ UNCHANGED <<zoneVars, taken, allocated, acc>>

(* Mutant: the end of the zone is tested with <.                           *)
InZone_Strict(i, start, n) ==
  /\ start >= zones[i].start
  /\ start + n < zones[i].start + zones[i].size

(* Mutant: the end of the zone is not tested.                              *)
InZone_NoEnd(i, start, n) == start >= zones[i].start

InZone(i, start, n) ==
  /\ start >= zones[i].start
  /\ start + n <= zones[i].start + zones[i].size

FreeHit(c) ==
  /\ pc[c] = "free"
  /\ at[c] <= Len(zones)
  /\ InZone(at[c], addr[c], want[c])
  /\ BuddyFree(at[c], addr[c], want[c])
  /\ pc' = [pc EXCEPT ![c] = "uncount"]
  /\ UNCHANGED <<zoneVars, allocated, want, at, addr, acc, live>>

FreeUncount(c) ==
  /\ pc[c] = "uncount"
  /\ allocated' = [allocated EXCEPT ![at[c]] = @ - want[c]]
  /\ pc' = [pc EXCEPT ![c] = "free"]
  /\ at' = [at EXCEPT ![c] = @ + 1]
  /\ UNCHANGED <<zoneVars, taken, want, addr, acc, live>>

FreeMiss(c) ==
  /\ pc[c] = "free"
  /\ at[c] <= Len(zones)
  /\ ~ InZone(at[c], addr[c], want[c])
  /\ at' = [at EXCEPT ![c] = @ + 1]
  /\ UNCHANGED <<zoneVars, taken, allocated, pc, want, addr, acc, live>>

FreeDone(c) ==
  /\ pc[c] = "free"
  /\ at[c] > Len(zones)
  /\ Return(c)
  /\ UNCHANGED <<zoneVars, taken, allocated, live>>

-----------------------------------------------------------------------------
(***************************************************************************)
(* allocated_memory loads the zones' counters one after the other;         *)
(* total_memory folds over sizes that cannot change under the lock.        *)
(***************************************************************************)
AllocatedMemory(c) ==
  /\ pc[c] = "idle"
  /\ pc' = [pc EXCEPT ![c] = "sum"]
  /\ at' = [at EXCEPT ![c] = 1]
  /\ acc' = [acc EXCEPT ![c] = 0]
  /\ UNCHANGED <<zoneVars, taken, allocated, want, addr, live>>

SumLoad(c) ==
  /\ pc[c] = "sum"
  /\ at[c] <= Len(zones)
  /\ acc' = [acc EXCEPT ![c] = @ + allocated[at[c]]]
  /\ at' = [at EXCEPT ![c] = @ + 1]
  /\ UNCHANGED <<zoneVars, taken, allocated, pc, want, addr, live>>

SumDone(c) ==
  /\ pc[c] = "sum"
  /\ at[c] > Len(zones)
  /\ Return(c)
  /\ UNCHANGED <<zoneVars, taken, allocated, live>>

TotalMemory ==
  LET sum[i \in 0 .. Len(zones)] ==
        IF i = 0 THEN 0 ELSE sum[i - 1] + zones[i].size
  IN  sum[Len(zones)]

-----------------------------------------------------------------------------
CallerNext(c) ==
  \/ \E n \in Sizes : Alloc(c, n)
  \/ AllocHit(c) \/ AllocMiss(c) \/ AllocCount(c) \/ AllocNone(c)
  \/ \E a \in live : Free(c, a)
  \/ FreeHit(c) \/ FreeUncount(c) \/ FreeMiss(c) \/ FreeDone(c)
  \/ AllocatedMemory(c) \/ SumLoad(c) \/ SumDone(c)

Next ==
  \/ \E r \in Regions : AddZone(r)
  \/ AddZoneSkip \/ AddZonePush \/ AddZoneFails
  \/ \E c \in Callers : CallerNext(c)

Spec == Init /\ [][Next]_vars

-----------------------------------------------------------------------------
(***************************************************************************)
(* Properties.                                                             *)
(***************************************************************************)
Active == 1 .. Len(zones)

Managed == UNION { Span(zones[i].start, zones[i].size) : i \in Active }

Disjoint(s, m, t, n) == Span(s, m) \cap Span(t, n) = {}

(***************************************************************************)
(* A caller holds blocks nobody else may have: alloc has taken them and    *)
(* not counted them yet, or free has not reached their zone yet.           *)
(***************************************************************************)
Holding(c) ==
  \/ pc[c] = "count"
  \/ /\ pc[c] = "free"
     /\ \E i \in Active : at[c] <= i /\ InZone(i, addr[c], want[c])

(* Types of the variables (zoned_buddy.rs:14-31).                          *)
TypeOK ==
  /\ zones \in Seq(Run)
  /\ Len(zones) <= MaxZones
  /\ taken \in [ZoneIds -> SUBSET Nat]
  /\ allocated \in [ZoneIds -> Int]
  /\ todo \subseteq Regions
  /\ adding \in [start : Nat, rest : Nat, size_p2 : Nat \ {0}]
  /\ pc \in [Callers -> {"idle", "alloc", "count", "free", "uncount", "sum"}]
  /\ want \in [Callers -> Nat \ {0}]
  /\ at \in [Callers -> Nat \ {0}]
  /\ addr \in [Callers -> Nat]
  /\ acc \in [Callers -> Int]
  /\ live \subseteq Run

(***************************************************************************)
(* No block is in two hands: alloc never returns (or is about to return)   *)
(* blocks of an allocation that has not been passed to free, whatever      *)
(* alloc, free and add_zone calls overlap it (zoned_buddy.rs:73-95).       *)
(***************************************************************************)
NoDoubleAllocation ==
  /\ \A a, b \in live : a = b \/ Disjoint(a.start, a.size, b.start, b.size)
  /\ \A c \in Callers : pc[c] = "count" =>
       /\ \A a \in live : Disjoint(addr[c], want[c], a.start, a.size)
       /\ \A d \in Callers : pc[d] = "count" /\ c # d =>
            Disjoint(addr[c], want[c], addr[d], want[d])

(***************************************************************************)
(* free always finds the zone: a block its buddy considers taken belongs   *)
(* to a live allocation or to a call in progress, so nothing is lost by    *)
(* the range test of the free loop (zoned_buddy.rs:88-94).                 *)
(***************************************************************************)
NoLostBlock ==
  \A i \in ZoneIds : \A b \in taken[i] :
    \/ \E a \in live : b \in Span(a.start, a.size)
    \/ \E c \in Callers : Holding(c) /\ b \in Span(addr[c], want[c])

(***************************************************************************)
(* fetch_sub never takes a counter below zero, where an AtomicUsize would  *)
(* wrap: a free of blocks can only overtake the fetch_add of another       *)
(* caller, never its own (zoned_buddy.rs:77-78 and 91-92).                 *)
(***************************************************************************)
CountersNeverWrap == \A i \in ZoneIds : allocated[i] >= 0

(***************************************************************************)
(* The lag between a buddy and its counter is exactly the calls between    *)
(* the two instructions: when there is none in a zone, the counter is the  *)
(* number of blocks taken (zoned_buddy.rs:76-78 and 90-92).                *)
(***************************************************************************)
CountersSettle ==
  \A i \in ZoneIds :
    (\A c \in Callers : pc[c] \in {"count", "uncount"} => at[c] # i)
      => allocated[i] = Cardinality(taken[i])

(***************************************************************************)
(* "Returns total amount of memory managed by the allocator": the fold     *)
(* over the zones counts every managed block once (zoned_buddy.rs:97-104). *)
(***************************************************************************)
TotalIsManaged == TotalMemory = Cardinality(Managed)

(***************************************************************************)
(* The allocator is a pool of pages to its callers: however their calls    *)
(* and add_zone overlap, alloc returns managed blocks nobody holds, and    *)
(* holds end only with free (zoned_buddy.rs:40-95).                        *)
(***************************************************************************)
Pool == INSTANCE PagePool WITH held <- live, managed <- Managed

ImplementsPagePool == Pool!Spec

-----------------------------------------------------------------------------
(***************************************************************************)
(* The inductive invariant behind the theorems of ZonedBuddyProofs.        *)
(***************************************************************************)
Apart(s, m, t, n) == s + m <= t \/ t + n <= s

ZonesApart ==
  \A i, j \in Active :
    i = j \/ Apart(zones[i].start, zones[i].size, zones[j].start, zones[j].size)

(* What add_zone and its caller still have to add overlaps no zone yet.    *)
Remaining == adding.rest * adding.size_p2

RestApart ==
  /\ adding.rest > 0 =>
       /\ \A i \in Active :
            Apart(zones[i].start, zones[i].size, adding.start, Remaining)
       /\ \A r \in todo : Apart(r.start, r.size, adding.start, Remaining)
  /\ \A r \in todo : \A i \in Active :
       Apart(zones[i].start, zones[i].size, r.start, r.size)

TakenInZone ==
  \A i \in ZoneIds :
    taken[i] \subseteq
      IF i \in Active THEN Span(zones[i].start, zones[i].size) ELSE {}

LiveTaken ==
  \A a \in live : \E i \in Active :
    InZone(i, a.start, a.size) /\ Span(a.start, a.size) \subseteq taken[i]

CallerOwns(c) ==
  /\ pc[c] = "count" =>
       /\ at[c] \in Active
       /\ InZone(at[c], addr[c], want[c])
       /\ Span(addr[c], want[c]) \subseteq taken[at[c]]
  /\ pc[c] = "free" =>
       \E i \in Active :
         /\ InZone(i, addr[c], want[c])
         /\ at[c] <= i => Span(addr[c], want[c]) \subseteq taken[i]
  /\ pc[c] = "uncount" =>
       at[c] \in Active /\ InZone(at[c], addr[c], want[c])

CallersOwn == \A c \in Callers : CallerOwns(c)

HoldersApart ==
  /\ \A a, b \in live : a = b \/ Disjoint(a.start, a.size, b.start, b.size)
  /\ \A c \in Callers : Holding(c) =>
       /\ \A a \in live : Disjoint(addr[c], want[c], a.start, a.size)
       /\ \A d \in Callers : Holding(d) /\ c # d =>
            Disjoint(addr[c], want[c], addr[d], want[d])

(* Taken blocks of zone i already counted; freed ones not yet uncounted.   *)
Counted(i) ==
  { b \in taken[i] :
      \A c \in Callers : pc[c] = "count" /\ at[c] = i => b \notin Span(addr[c], want[c]) }

Unsettled(i) ==
  { p \in Callers \X Span(zones[i].start, zones[i].size) :
      pc[p[1]] = "uncount" /\ at[p[1]] = i /\ p[2] \in Span(addr[p[1]], want[p[1]]) }

CountersExact ==
  \A i \in ZoneIds :
    allocated[i] =
      IF i \in Active THEN Cardinality(Counted(i)) + Cardinality(Unsettled(i))
                      ELSE 0

ZoneInv == TypeOK /\ ZonesApart /\ RestApart

HoldInv ==
  ZoneInv /\ TakenInZone /\ LiveTaken /\ CallersOwn /\ HoldersApart
    /\ NoLostBlock

IInv == HoldInv /\ CountersExact
=============================================================================
