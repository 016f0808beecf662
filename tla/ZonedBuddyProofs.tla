-------------------------- MODULE ZonedBuddyProofs --------------------------
(***************************************************************************)
(* TLAPS proofs about ZonedBuddy, for any number of callers, any disjoint  *)
(* regions and any allocation sizes.                                       *)
(***************************************************************************)
EXTENDS ZonedBuddy, FiniteSetTheorems, SequenceTheorems, WellFoundedInduction, TLAPS

(***************************************************************************)
(* Halving a number for the next bit (add_zone's shift).                   *)
(***************************************************************************)
LEMMA Halving ==
  ASSUME NEW n \in Nat
  PROVE  /\ n \div 2 \in Nat
         /\ n % 2 \in {0, 1}
         /\ n = (2 * (n \div 2)) + (n % 2)
  OBVIOUS

(* An update keeps a function's type if the new value has it.              *)
LEMMA ExceptType ==
  ASSUME NEW S, NEW T, NEW f \in [S -> T], NEW i, NEW v, i \in S => v \in T
  PROVE  [f EXCEPT ![i] = v] \in [S -> T]
  OBVIOUS

(* What indexing the zone vector yields.                                   *)
LEMMA ZoneType ==
  ASSUME TypeOK, NEW i \in Nat \ {0}, i <= Len(zones)
  PROVE  /\ i \in Active
         /\ i \in ZoneIds
         /\ zones[i] \in Run
         /\ zones[i].start \in Nat
         /\ zones[i].size \in Nat \ {0}
  <1>1. Len(zones) \in Nat /\ i \in 1 .. Len(zones)
    BY DEF TypeOK
  <1>2. zones[i] \in Run
    BY <1>1, ElementOfSeq DEF TypeOK
  <1>3. i \in ZoneIds
    BY <1>1, BoundsAssumption DEF TypeOK, ZoneIds
  <1> QED
    BY <1>1, <1>2, <1>3 DEF Active, Run

(* What the buddy of zone i may return lies in the zone and is free.       *)
LEMMA FitsInZone ==
  ASSUME TypeOK, NEW i \in Active, NEW n \in Nat \ {0}, NEW a \in BuddyFits(i, n)
  PROVE  /\ a \in Nat
         /\ Span(a, n) \subseteq Nat
         /\ InZone(i, a, n)
         /\ Span(a, n) \cap taken[i] = {}
  <1>1. i \in Nat \ {0} /\ i <= Len(zones)
    BY DEF Active, TypeOK
  <1>2. zones[i].start \in Nat /\ zones[i].size \in Nat
    BY <1>1, ZoneType
  <1>3. /\ a \in Span(zones[i].start, zones[i].size)
        /\ a + n <= zones[i].start + zones[i].size
        /\ Span(a, n) \cap taken[i] = {}
    BY DEF BuddyFits
  <1>4. a \in Nat /\ a >= zones[i].start
    BY <1>2, <1>3 DEF Span
  <1> QED
    BY <1>2, <1>3, <1>4 DEF InZone, Span

(***************************************************************************)
(* Every variable keeps its type (the state of zoned_buddy.rs:14-31 and    *)
(* the locals of its methods).                                             *)
(***************************************************************************)
LEMMA TypeInit == Init => TypeOK
  BY BoundsAssumption DEF Init, TypeOK, ZoneIds

(* Every step keeps the types.                                             *)
LEMMA TypeNext == TypeOK /\ [Next]_vars => TypeOK'
  <1> SUFFICES ASSUME TypeOK, [Next]_vars PROVE TypeOK'
    OBVIOUS
  <1> USE DEF TypeOK, zoneVars, callerVars
  <1>1. ASSUME NEW r \in Regions, AddZone(r) PROVE TypeOK'
    BY <1>1, RegionsAssumption DEF AddZone
  <1>2. CASE AddZoneSkip
    BY <1>2, Halving DEF AddZoneSkip, NextBit
  <1>3. CASE AddZonePush
    <2>1. adding' \in [start : Nat, rest : Nat, size_p2 : Nat \ {0}]
      BY <1>3, Halving DEF AddZonePush, NextBit, NextStart
    <2>2. zones' \in Seq(Run) /\ Len(zones') <= MaxZones
      <3>1. [start |-> adding.start, size |-> adding.size_p2] \in Run
        BY DEF Run
      <3> QED
        BY <3>1, <1>3, BoundsAssumption DEF AddZonePush
    <2>3. taken' \in [ZoneIds -> SUBSET Nat]
      BY <1>3, ExceptType DEF AddZonePush
    <2>4. allocated' \in [ZoneIds -> Int]
      <3>1. allocated \in [ZoneIds -> Int] /\ 0 \in Int
        OBVIOUS
      <3>2. allocated' = [allocated EXCEPT ![Len(zones) + 1] = 0]
        BY <1>3 DEF AddZonePush
      <3> HIDE DEF TypeOK
      <3> QED
        BY <3>1, <3>2, ExceptType
    <2> QED
      BY <1>3, <2>1, <2>2, <2>3, <2>4 DEF AddZonePush
  <1>4. CASE AddZoneFails
    BY <1>4 DEF AddZoneFails
  <1>5. ASSUME NEW c \in Callers, CallerNext(c) PROVE TypeOK'
    <2> USE DEF Return
    <2>1. ASSUME NEW n \in Sizes, Alloc(c, n) PROVE TypeOK'
      BY <2>1, SizesAssumption DEF Alloc
    <2>2. CASE AllocHit(c)
      <3>1. PICK a \in BuddyFits(at[c], want[c]) :
              BuddyAlloc(at[c], a, want[c]) /\ addr' = [addr EXCEPT ![c] = a]
        BY <2>2 DEF AllocHit
      <3>2. at[c] \in Active /\ want[c] \in Nat \ {0}
        BY <2>2, ZoneType DEF AllocHit
      <3>3. a \in Nat /\ Span(a, want[c]) \subseteq Nat
        BY <3>1, <3>2, FitsInZone
      <3>4. taken' \in [ZoneIds -> SUBSET Nat]
        BY <3>1, <3>3 DEF BuddyAlloc
      <3> QED
        BY <2>2, <3>1, <3>3, <3>4 DEF AllocHit
    <2>3. CASE AllocMiss(c)
      BY <2>3 DEF AllocMiss
    <2>4. CASE AllocCount(c)
      <3>1. allocated' \in [ZoneIds -> Int]
        <4>1. at[c] \in ZoneIds => allocated[at[c]] + want[c] \in Int
          OBVIOUS
        <4>2. allocated' = [allocated EXCEPT ![at[c]] = allocated[at[c]] + want[c]]
          BY <2>4 DEF AllocCount
        <4> QED
          BY <4>1, <4>2, ExceptType
      <3>2. live' \subseteq Run
        BY <2>4 DEF AllocCount, Run
      <3> QED
        BY <2>4, <3>1, <3>2 DEF AllocCount
    <2>5. CASE AllocNone(c)
      BY <2>5 DEF AllocNone
    <2>6. ASSUME NEW a \in live, Free(c, a) PROVE TypeOK'
      BY <2>6 DEF Free, Run
    <2>7. CASE FreeHit(c)
      BY <2>7 DEF FreeHit, BuddyFree
    <2>8. CASE FreeUncount(c)
      <3>1. allocated' \in [ZoneIds -> Int]
        <4>1. at[c] \in ZoneIds => allocated[at[c]] - want[c] \in Int
          OBVIOUS
        <4> QED
          BY <4>1, <2>8, ExceptType DEF FreeUncount
      <3>2. at' \in [Callers -> Nat \ {0}]
        BY <2>8 DEF FreeUncount
      <3> QED
        BY <2>8, <3>1, <3>2 DEF FreeUncount
    <2>9. CASE FreeMiss(c)
      BY <2>9 DEF FreeMiss
    <2>10. CASE FreeDone(c)
      BY <2>10 DEF FreeDone
    <2>11. CASE AllocatedMemory(c)
      BY <2>11 DEF AllocatedMemory
    <2>12. CASE SumLoad(c)
      <3>1. acc' \in [Callers -> Int]
        <4>1. acc[c] + allocated[at[c]] \in Int
          BY <2>12, ZoneType DEF SumLoad
        <4>2. acc \in [Callers -> Int]
          OBVIOUS
        <4>3. acc' = [acc EXCEPT ![c] = acc[c] + allocated[at[c]]]
          BY <2>12 DEF SumLoad
        <4> HIDE DEF TypeOK
        <4> QED
          BY <4>1, <4>2, <4>3, ExceptType
      <3>2. at' \in [Callers -> Nat \ {0}]
        <4>1. at[c] + 1 \in Nat \ {0} /\ at \in [Callers -> Nat \ {0}]
          OBVIOUS
        <4>2. at' = [at EXCEPT ![c] = at[c] + 1]
          BY <2>12 DEF SumLoad
        <4> HIDE DEF TypeOK
        <4> QED
          BY <4>1, <4>2, ExceptType
      <3>3. UNCHANGED <<zones, todo, adding, taken, allocated, pc, want, addr, live>>
        BY <2>12 DEF SumLoad
      <3> QED
        BY <3>1, <3>2, <3>3
    <2>13. CASE SumDone(c)
      BY <2>13 DEF SumDone
    <2> QED
      BY <1>5, <2>1, <2>2, <2>3, <2>4, <2>5, <2>6, <2>7, <2>8, <2>9, <2>10,
         <2>11, <2>12, <2>13 DEF CallerNext
  <1>6. CASE UNCHANGED vars
    BY <1>6 DEF vars
  <1> QED
    BY <1>1, <1>2, <1>3, <1>4, <1>5, <1>6 DEF Next

(* Type correctness of ZonedBuddy in every reachable state.                *)
THEOREM TypeCorrect == Spec => []TypeOK
  BY TypeInit, TypeNext, PTL DEF Spec

-----------------------------------------------------------------------------
(***************************************************************************)
(* The shift of add_zone's loop: what a piece does not cover, the later    *)
(* bits do.                                                                *)
(***************************************************************************)
LEMMA ShiftEven ==
  ASSUME NEW n \in Nat, NEW p \in Nat, n % 2 = 0
  PROVE  (n \div 2) * (2 * p) = n * p
  <1>1. PICK q \in Nat : q = n \div 2 /\ n = 2 * q
    BY Halving
  <1> QED
    BY <1>1

(* An odd rest: what is left starts behind the piece cut off.              *)
LEMMA ShiftOdd ==
  ASSUME NEW n \in Nat, NEW p \in Nat, n % 2 = 1
  PROVE  p + ((n \div 2) * (2 * p)) = n * p
  <1>1. PICK q \in Nat : q = n \div 2 /\ n = (2 * q) + 1
    BY Halving
  <1> QED
    BY <1>1

(* Appending a zone leaves the others where they are.                      *)
LEMMA PushZone ==
  ASSUME TypeOK, AddZonePush
  PROVE  /\ Len(zones') = Len(zones) + 1
         /\ Active' = Active \cup {Len(zones) + 1}
         /\ Len(zones) + 1 \in ZoneIds
         /\ Len(zones) + 1 \notin Active
         /\ \A i \in Active : zones'[i] = zones[i]
         /\ zones'[Len(zones) + 1]
              = [start |-> adding.start, size |-> adding.size_p2]
  <1>1. zones \in Seq(Run) /\ Len(zones) \in Nat
    BY DEF TypeOK
  <1>2. zones' = Append(zones, [start |-> adding.start, size |-> adding.size_p2])
    BY DEF AddZonePush
  <1>3. Len(zones) + 1 \in ZoneIds
    BY <1>1, BoundsAssumption DEF AddZonePush, ZoneIds
  <1> QED
    BY <1>1, <1>2, <1>3 DEF Active

(***************************************************************************)
(* Zones never overlap, nor do they overlap what add_zone has still to     *)
(* add: the part of the induction about add_zone.                          *)
(***************************************************************************)
LEMMA ZoneInvNext == ZoneInv /\ [Next]_vars => ZoneInv'
  <1> SUFFICES ASSUME ZoneInv, [Next]_vars PROVE ZoneInv'
    OBVIOUS
  <1>1. TypeOK /\ TypeOK'
    BY TypeNext DEF ZoneInv
  <1>2. \A i \in Active : zones[i].start \in Nat /\ zones[i].size \in Nat \ {0}
    <2> TAKE i \in Active
    <2>1. i \in Nat \ {0} /\ i <= Len(zones)
      BY <1>1 DEF TypeOK, Active
    <2> QED
      BY <1>1, <2>1, ZoneType
  <1>3. \A r \in todo : r.start \in Nat /\ r.size \in Nat
    BY <1>1, RegionsAssumption DEF TypeOK
  <1>4. /\ adding.start \in Nat /\ adding.rest \in Nat
        /\ adding.size_p2 \in Nat \ {0} /\ Remaining \in Nat
    BY <1>1 DEF TypeOK, Remaining
  <1>5. CASE UNCHANGED zoneVars
    <2>1. ZonesApart'
      BY <1>5 DEF zoneVars, ZoneInv, ZonesApart, Active, Apart
    <2>2. RestApart'
      BY <1>5 DEF zoneVars, ZoneInv, RestApart, Active, Apart, Remaining
    <2> QED
      BY <1>1, <2>1, <2>2 DEF ZoneInv
  <1>6. ASSUME NEW r \in Regions, AddZone(r) PROVE ZoneInv'
    <2>1. /\ zones' = zones /\ todo' = todo \ {r} /\ r \in todo
          /\ adding' = [start |-> r.start, rest |-> r.size, size_p2 |-> 1]
      BY <1>6 DEF AddZone
    <2>2. ZonesApart'
      BY <2>1 DEF ZoneInv, ZonesApart, Active, Apart
    <2>3. adding'.start = r.start /\ Remaining' = r.size
      BY <2>1, <1>3 DEF Remaining
    <2>4. \A i \in Active : Apart(zones[i].start, zones[i].size, r.start, r.size)
      BY <2>1 DEF ZoneInv, RestApart
    <2>5. \A s \in todo' : Apart(s.start, s.size, r.start, r.size)
      BY <2>1, <1>1, <1>3, RegionsAssumption DEF TypeOK, Apart
    <2>6. RestApart'
      BY <2>1, <2>3, <2>4, <2>5 DEF ZoneInv, RestApart, Active, Apart
    <2> QED
      BY <1>1, <2>2, <2>6 DEF ZoneInv
  <1>7. CASE AddZoneSkip
    <2>1. /\ zones' = zones /\ todo' = todo /\ adding.rest > 0
          /\ adding' = [start |-> adding.start, rest |-> adding.rest \div 2,
                        size_p2 |-> 2 * adding.size_p2]
      BY <1>7 DEF AddZoneSkip, NextBit
    <2>2. ZonesApart'
      BY <2>1 DEF ZoneInv, ZonesApart, Active, Apart
    <2>3. adding'.start = adding.start /\ Remaining' = Remaining
      BY <1>4, <1>7, <2>1, ShiftEven DEF AddZoneSkip, Remaining
    <2>4. RestApart'
      BY <2>1, <2>3 DEF ZoneInv, RestApart, Active, Apart
    <2> QED
      BY <1>1, <2>2, <2>4 DEF ZoneInv
  <1>8. CASE AddZonePush
    <2> DEFINE k == Len(zones) + 1
    <2>1. /\ todo' = todo /\ adding.rest > 0
          /\ adding' = [start |-> adding.start + adding.size_p2,
                        rest |-> adding.rest \div 2,
                        size_p2 |-> 2 * adding.size_p2]
      BY <1>8, <1>4 DEF AddZonePush, NextBit, NextStart
    <2>2. /\ Active' = Active \cup {k} /\ k \notin Active
          /\ \A i \in Active : zones'[i] = zones[i]
          /\ zones'[k].start = adding.start /\ zones'[k].size = adding.size_p2
      BY <1>1, <1>8, PushZone
    <2>3. /\ adding'.start = adding.start + adding.size_p2
          /\ Remaining = adding.size_p2 + Remaining'
      <3>1. adding.size_p2 + ((adding.rest \div 2) * (2 * adding.size_p2))
              = adding.rest * adding.size_p2
        BY <1>4, <1>8, ShiftOdd DEF AddZonePush, NextStart
      <3> QED
        BY <2>1, <3>1 DEF Remaining
    <2>4. Remaining' \in Nat
      BY <1>1 DEF TypeOK, Remaining
    <2>5. \A i \in Active :
            Apart(zones[i].start, zones[i].size, adding.start, Remaining)
      BY <2>1 DEF ZoneInv, RestApart
    <2>6. \A r \in todo : Apart(r.start, r.size, adding.start, Remaining)
      BY <2>1 DEF ZoneInv, RestApart
    <2>7. ZonesApart'
      <3>1. \A i, j \in Active : i = j \/ Apart(zones[i].start, zones[i].size,
                                              zones[j].start, zones[j].size)
        BY DEF ZoneInv, ZonesApart
      <3>2. \A i \in Active :
              /\ Apart(zones[i].start, zones[i].size, adding.start, adding.size_p2)
              /\ Apart(adding.start, adding.size_p2, zones[i].start, zones[i].size)
        BY <1>2, <1>4, <2>3, <2>4, <2>5 DEF Apart
      <3>3. ASSUME NEW i \in Active', NEW j \in Active', i # j
            PROVE  Apart(zones'[i].start, zones'[i].size,
                         zones'[j].start, zones'[j].size)
        <4>1. CASE i \in Active /\ j \in Active
          BY <4>1, <3>1, <3>3, <2>2
        <4>2. CASE i = k /\ j \in Active
          BY <4>2, <3>2, <2>2
        <4>3. CASE j = k /\ i \in Active
          BY <4>3, <3>2, <2>2
        <4> QED
          BY <4>1, <4>2, <4>3, <3>3, <2>2
      <3> QED
        BY <3>3 DEF ZonesApart, Apart
    <2>8. RestApart'
      <3>1. \A i \in Active : Apart(zones[i].start, zones[i].size,
                                   adding'.start, Remaining')
        BY <1>2, <1>4, <2>3, <2>4, <2>5 DEF Apart
      <3>2. Apart(adding.start, adding.size_p2, adding'.start, Remaining')
        BY <1>4, <2>3 DEF Apart
      <3>3. \A i \in Active' : Apart(zones'[i].start, zones'[i].size,
                                    adding'.start, Remaining')
        BY <2>2, <3>1, <3>2
      <3>4. \A r \in todo' : Apart(r.start, r.size, adding'.start, Remaining')
        BY <1>3, <1>4, <2>1, <2>3, <2>4, <2>6 DEF Apart
      <3>5. \A r \in todo : Apart(adding.start, adding.size_p2, r.start, r.size)
        BY <1>3, <1>4, <2>3, <2>4, <2>6 DEF Apart
      <3>6. \A r \in todo' : \A i \in Active' :
              Apart(zones'[i].start, zones'[i].size, r.start, r.size)
        BY <2>1, <2>2, <3>5 DEF ZoneInv, RestApart
      <3> QED
        BY <3>3, <3>4, <3>6 DEF RestApart, Apart
    <2> QED
      BY <1>1, <2>7, <2>8 DEF ZoneInv
  <1>9. CASE AddZoneFails
    <2>1. zones' = zones /\ todo' = todo /\ adding'.rest = 0
      BY <1>9, <1>1 DEF AddZoneFails, TypeOK
    <2>2. ZonesApart'
      BY <2>1 DEF ZoneInv, ZonesApart, Active, Apart
    <2>3. RestApart'
      BY <2>1 DEF ZoneInv, RestApart, Active, Apart
    <2> QED
      BY <1>1, <2>2, <2>3 DEF ZoneInv
  <1>10. ASSUME NEW c \in Callers, CallerNext(c) PROVE UNCHANGED zoneVars
    BY <1>10 DEF CallerNext, Alloc, AllocHit, AllocMiss, AllocCount, AllocNone,
         Free, FreeHit, FreeUncount, FreeMiss, FreeDone, AllocatedMemory,
         SumLoad, SumDone
  <1>11. CASE UNCHANGED vars
    BY <1>11, <1>5 DEF vars, zoneVars
  <1> QED
    BY <1>5, <1>6, <1>7, <1>8, <1>9, <1>10, <1>11 DEF Next

-----------------------------------------------------------------------------
(* Indexing an existing zone.                                              *)
LEMMA ActiveZone ==
  ASSUME TypeOK, NEW i \in Active
  PROVE  /\ i \in Nat \ {0} /\ i \in ZoneIds /\ i <= Len(zones)
         /\ zones[i].start \in Nat /\ zones[i].size \in Nat \ {0}
  <1>1. i \in Nat \ {0} /\ i <= Len(zones)
    BY DEF TypeOK, Active
  <1> QED
    BY <1>1, ZoneType

(* A run inside a zone consists of blocks of that zone.                    *)
LEMMA RunInZone ==
  ASSUME TypeOK, NEW i \in Active, NEW s \in Nat, NEW n \in Nat, InZone(i, s, n)
  PROVE  Span(s, n) \subseteq Span(zones[i].start, zones[i].size)
  BY ActiveZone DEF InZone, Span

(* No block is in two zones.                                               *)
LEMMA OneZone ==
  ASSUME ZoneInv, NEW i \in Active, NEW j \in Active, NEW b,
         b \in Span(zones[i].start, zones[i].size),
         b \in Span(zones[j].start, zones[j].size)
  PROVE  i = j
  <1>1. /\ zones[i].start \in Nat /\ zones[i].size \in Nat
        /\ zones[j].start \in Nat /\ zones[j].size \in Nat
    BY ActiveZone DEF ZoneInv
  <1>2. i = j \/ Apart(zones[i].start, zones[i].size, zones[j].start, zones[j].size)
    BY DEF ZoneInv, ZonesApart
  <1> QED
    BY <1>1, <1>2 DEF Apart, Span

(* The range test of free accepts a run in one zone only.                  *)
LEMMA OneHit ==
  ASSUME ZoneInv, NEW i \in Active, NEW j \in Active,
         NEW s \in Nat, NEW n \in Nat \ {0}, InZone(i, s, n), InZone(j, s, n)
  PROVE  i = j
  <1>1. s \in Span(s, n)
    BY DEF Span
  <1>2. /\ s \in Span(zones[i].start, zones[i].size)
        /\ s \in Span(zones[j].start, zones[j].size)
    BY <1>1, RunInZone DEF ZoneInv
  <1> QED
    BY <1>2, OneZone

(* What a caller holds, the buddy of its zone considers taken.             *)
LEMMA HolderTaken ==
  ASSUME HoldInv, NEW c \in Callers, Holding(c)
  PROVE  \E i \in Active : /\ InZone(i, addr[c], want[c])
                           /\ Span(addr[c], want[c]) \subseteq taken[i]
  <1>1. addr[c] \in Nat /\ want[c] \in Nat \ {0}
    BY DEF HoldInv, ZoneInv, TypeOK
  <1>2. CallerOwns(c)
    BY DEF HoldInv, CallersOwn
  <1>3. CASE pc[c] = "count"
    BY <1>2, <1>3 DEF CallerOwns
  <1>4. CASE pc[c] = "free"
    <2>1. PICK i \in Active : at[c] <= i /\ InZone(i, addr[c], want[c])
      BY <1>4 DEF Holding
    <2>2. PICK j \in Active : /\ InZone(j, addr[c], want[c])
                              /\ at[c] <= j => Span(addr[c], want[c]) \subseteq taken[j]
      BY <1>2, <1>4 DEF CallerOwns
    <2>3. i = j
      BY <1>1, <2>1, <2>2, OneHit DEF HoldInv
    <2> QED
      BY <2>1, <2>2, <2>3
  <1> QED
    BY <1>3, <1>4 DEF Holding

(* Callers other than the one that moves stay where they are.              *)
Others(c) ==
  \A d \in Callers \ {c} :
    /\ pc'[d] = pc[d] /\ want'[d] = want[d]
    /\ at'[d] = at[d] /\ addr'[d] = addr[d]

(* A step of a caller touches no zone and no other caller.                 *)
LEMMA CallerFrame ==
  ASSUME TypeOK, NEW c \in Callers, CallerNext(c)
  PROVE  zones' = zones /\ Others(c)
  <1> USE DEF TypeOK, Others, zoneVars, Return
  <1>1. ASSUME NEW n \in Sizes, Alloc(c, n) PROVE zones' = zones /\ Others(c)
    BY <1>1 DEF Alloc
  <1>2. CASE AllocHit(c)
    BY <1>2 DEF AllocHit
  <1>3. CASE AllocMiss(c)
    BY <1>3 DEF AllocMiss
  <1>4. CASE AllocCount(c)
    BY <1>4 DEF AllocCount
  <1>5. CASE AllocNone(c)
    BY <1>5 DEF AllocNone
  <1>6. ASSUME NEW a \in live, Free(c, a) PROVE zones' = zones /\ Others(c)
    BY <1>6 DEF Free
  <1>7. CASE FreeHit(c)
    BY <1>7 DEF FreeHit
  <1>8. CASE FreeUncount(c)
    BY <1>8 DEF FreeUncount
  <1>9. CASE FreeMiss(c)
    BY <1>9 DEF FreeMiss
  <1>10. CASE FreeDone(c)
    BY <1>10 DEF FreeDone
  <1>11. CASE AllocatedMemory(c)
    BY <1>11 DEF AllocatedMemory
  <1>12. CASE SumLoad(c)
    BY <1>12 DEF SumLoad
  <1>13. CASE SumDone(c)
    BY <1>13 DEF SumDone
  <1> QED
    BY <1>1, <1>2, <1>3, <1>4, <1>5, <1>6, <1>7, <1>8, <1>9, <1>10, <1>11,
       <1>12, <1>13 DEF CallerNext

(* The other callers hold what they held,                                  *)
LEMMA OthersHold ==
  ASSUME NEW c \in Callers, zones' = zones, Others(c),
         NEW d \in Callers \ {c}
  PROVE  Holding(d)' <=> Holding(d)
  BY DEF Others, Holding, Active, InZone

(* and own it.                                                             *)
LEMMA OthersOwn ==
  ASSUME NEW c \in Callers, zones' = zones, taken' = taken, Others(c),
         NEW d \in Callers \ {c}, CallerOwns(d)
  PROVE  CallerOwns(d)'
  BY DEF Others, CallerOwns, Active, InZone

(***************************************************************************)
(* A step that hands no block over: buddies and live allocations are       *)
(* unchanged and the caller that moves holds after it what it held before. *)
(***************************************************************************)
LEMMA Quiet ==
  ASSUME HoldInv, ZoneInv', NEW c \in Callers, zones' = zones, taken' = taken,
         live' = live, Others(c), CallerOwns(c)',
         Holding(c)' <=> Holding(c),
         Holding(c) => addr'[c] = addr[c] /\ want'[c] = want[c]
  PROVE  HoldInv'
  <1>1. TakenInZone'
    BY DEF HoldInv, TakenInZone, Active
  <1>2. LiveTaken'
    BY DEF HoldInv, LiveTaken, Active, InZone
  <1>3. CallersOwn'
    BY OthersOwn DEF HoldInv, CallersOwn
  <1>4. \A d \in Callers :
          /\ Holding(d)' <=> Holding(d)
          /\ Holding(d) => addr'[d] = addr[d] /\ want'[d] = want[d]
    BY OthersHold DEF Others
  <1>5. HoldersApart'
    BY <1>4 DEF HoldInv, HoldersApart, Disjoint
  <1>6. NoLostBlock'
    BY <1>4 DEF HoldInv, NoLostBlock
  <1> QED
    BY <1>1, <1>2, <1>3, <1>5, <1>6 DEF HoldInv

(* add_zone hands no block over either; it pushes only when no caller is   *)
(* inside the allocator.                                                   *)
LEMMA HoldAddZone ==
  ASSUME HoldInv, ZoneInv', zones' = zones, taken' = taken, live' = live,
         UNCHANGED callerVars
  PROVE  HoldInv'
  <1>1. TakenInZone'
    BY DEF HoldInv, TakenInZone, Active
  <1>2. LiveTaken'
    BY DEF HoldInv, LiveTaken, Active, InZone
  <1>3. CallersOwn'
    BY DEF HoldInv, CallersOwn, CallerOwns, Active, InZone, callerVars
  <1>4. HoldersApart'
    BY DEF HoldInv, HoldersApart, Disjoint, Holding, Active, InZone, callerVars
  <1>5. NoLostBlock'
    BY DEF HoldInv, NoLostBlock, Holding, Active, InZone, callerVars
  <1> QED
    BY <1>1, <1>2, <1>3, <1>4, <1>5 DEF HoldInv

(* add_zone pushes a zone: nobody holds anything of it yet.                *)
LEMMA HoldPush ==
  ASSUME HoldInv, ZoneInv', AddZonePush
  PROVE  HoldInv'
  <1> DEFINE k == Len(zones) + 1
  <1>1. TypeOK
    BY DEF HoldInv, ZoneInv
  <1>2. /\ Active' = Active \cup {k} /\ k \notin Active /\ k \in ZoneIds
        /\ \A i \in Active : zones'[i] = zones[i]
    BY <1>1, PushZone
  <1>3. /\ live' = live /\ pc' = pc
        /\ taken' = [taken EXCEPT ![k] = {}]
    BY DEF AddZonePush, callerVars
  <1>4. \A c \in Callers : pc[c] = "idle"
    BY DEF AddZonePush, Readers
  <1>5. taken'[k] = {} /\ \A i \in ZoneIds \ {k} : taken'[i] = taken[i]
    BY <1>1, <1>2, <1>3 DEF TypeOK
  <1>6. \A i \in Active : i \in ZoneIds \ {k}
    BY <1>1, <1>2, ActiveZone
  <1>7. TakenInZone'
    BY <1>2, <1>5, <1>6 DEF HoldInv, TakenInZone
  <1>8. LiveTaken'
    <2>1. ASSUME NEW a \in live
          PROVE  \E i \in Active' :
                   /\ InZone(i, a.start, a.size)'
                   /\ Span(a.start, a.size) \subseteq taken'[i]
      <3>1. PICK i \in Active : /\ InZone(i, a.start, a.size)
                                /\ Span(a.start, a.size) \subseteq taken[i]
        BY DEF HoldInv, LiveTaken
      <3> QED
        BY <3>1, <1>2, <1>5, <1>6 DEF InZone
    <2> QED
      BY <1>3, <2>1 DEF LiveTaken, InZone
  <1>9. \A c \in Callers : ~ Holding(c) /\ ~ Holding(c)'
    BY <1>3, <1>4 DEF Holding
  <1>10. CallersOwn'
    BY <1>3, <1>4 DEF CallersOwn, CallerOwns
  <1>11. HoldersApart'
    BY <1>3, <1>9 DEF HoldInv, HoldersApart, Disjoint
  <1>12. NoLostBlock'
    BY <1>3, <1>5, <1>9 DEF HoldInv, NoLostBlock
  <1> QED
    BY <1>7, <1>8, <1>10, <1>11, <1>12 DEF HoldInv

(***************************************************************************)
(* alloc obtains blocks nobody holds: those of its own zone because the    *)
(* buddy had them free, those of other zones because zones do not overlap. *)
(***************************************************************************)
LEMMA HoldAllocHit ==
  ASSUME HoldInv, ZoneInv', NEW c \in Callers, AllocHit(c), Others(c)
  PROVE  HoldInv'
  <1> DEFINE k == at[c]
             n == want[c]
  <1>1. TypeOK /\ ZoneInv
    BY DEF HoldInv, ZoneInv
  <1>2. k \in Active /\ n \in Nat \ {0} /\ k \in ZoneIds
    BY <1>1, ZoneType DEF AllocHit, TypeOK
  <1>3. PICK a \in BuddyFits(k, n) :
          BuddyAlloc(k, a, n) /\ addr' = [addr EXCEPT ![c] = a]
    BY DEF AllocHit
  <1>4. a \in Nat /\ InZone(k, a, n) /\ Span(a, n) \cap taken[k] = {}
    BY <1>1, <1>2, FitsInZone
  <1>5. Span(a, n) \subseteq Span(zones[k].start, zones[k].size)
    BY <1>1, <1>2, <1>4, RunInZone
  <1>6. /\ zones' = zones /\ live' = live /\ Active' = Active
        /\ pc'[c] = "count" /\ at'[c] = k /\ want'[c] = n /\ addr'[c] = a
        /\ pc[c] = "alloc"
    BY <1>1, <1>3 DEF AllocHit, zoneVars, TypeOK, Active
  <1>7. /\ taken'[k] = taken[k] \cup Span(a, n)
        /\ \A i \in ZoneIds \ {k} : taken'[i] = taken[i]
    BY <1>1, <1>2, <1>3 DEF BuddyAlloc, TypeOK
  <1>8. \A i \in ZoneIds : taken[i] \subseteq taken'[i]
    BY <1>7
  <1>9. \A i \in Active : Span(a, n) \cap taken[i] = {}
    <2> TAKE i \in Active
    <2>1. i \in ZoneIds /\ taken[i] \subseteq Span(zones[i].start, zones[i].size)
      BY <1>1, ActiveZone DEF HoldInv, TakenInZone
    <2> QED
      BY <1>1, <1>2, <1>4, <1>5, <2>1, OneZone
  <1>10. TakenInZone'
    BY <1>2, <1>5, <1>6, <1>7 DEF HoldInv, TakenInZone
  <1>11. LiveTaken'
    <2>1. \A i \in Active : i \in ZoneIds
      BY <1>1, ActiveZone
    <2> QED
      BY <1>6, <1>8, <2>1 DEF HoldInv, LiveTaken, InZone
  <1>12. CallersOwn'
    <2>1. CallerOwns(c)'
      BY <1>2, <1>4, <1>6, <1>7 DEF CallerOwns, InZone
    <2>2. ASSUME NEW d \in Callers \ {c} PROVE CallerOwns(d)'
      <3>1. CallerOwns(d)
        BY DEF HoldInv, CallersOwn
      <3>2. \A i \in Active : taken[i] \subseteq taken'[i]
        BY <1>1, <1>8, ActiveZone
      <3> QED
        BY <1>6, <3>1, <3>2 DEF CallerOwns, InZone, Others
    <2> QED
      BY <2>1, <2>2 DEF CallersOwn
  <1>13. Holding(c)' /\ ~ Holding(c)
    BY <1>6 DEF Holding
  <1>14. \A d \in Callers \ {c} :
           /\ Holding(d)' <=> Holding(d)
           /\ addr'[d] = addr[d] /\ want'[d] = want[d]
    BY <1>6, OthersHold DEF Others
  <1>15. \A d \in Callers : Holding(d) => Disjoint(a, n, addr[d], want[d])
    BY <1>9, HolderTaken DEF Disjoint
  <1>16. \A b \in live : Disjoint(a, n, b.start, b.size)
    BY <1>9 DEF HoldInv, LiveTaken, Disjoint
  <1>17. HoldersApart'
    <2>1. \A x, y \in live : x = y \/ Disjoint(x.start, x.size, y.start, y.size)
      BY DEF HoldInv, HoldersApart
    <2>2. ASSUME NEW d \in Callers, Holding(d)'
          PROVE  /\ \A x \in live : Disjoint(addr'[d], want'[d], x.start, x.size)
                 /\ \A e \in Callers : Holding(e)' /\ d # e =>
                      Disjoint(addr'[d], want'[d], addr'[e], want'[e])
      <3>1. CASE d = c
        BY <3>1, <1>6, <1>14, <1>15, <1>16
      <3>2. CASE d # c
        <4>1. Holding(d) /\ addr'[d] = addr[d] /\ want'[d] = want[d]
          BY <3>2, <2>2, <1>14
        <4>2. \A x \in live : Disjoint(addr[d], want[d], x.start, x.size)
          BY <4>1 DEF HoldInv, HoldersApart
        <4>3. Disjoint(addr[d], want[d], a, n)
          BY <4>1, <1>15 DEF Disjoint
        <4>4. \A e \in Callers : Holding(e) /\ d # e =>
                Disjoint(addr[d], want[d], addr[e], want[e])
          BY <4>1 DEF HoldInv, HoldersApart
        <4> QED
          BY <4>1, <4>2, <4>3, <4>4, <1>6, <1>14
      <3> QED
        BY <3>1, <3>2
    <2> QED
      BY <1>6, <2>1, <2>2 DEF HoldersApart, Disjoint
  <1>18. NoLostBlock'
    <2>1. ASSUME NEW i \in ZoneIds, NEW b \in taken'[i]
          PROVE  \/ \E x \in live : b \in Span(x.start, x.size)
                 \/ \E d \in Callers : Holding(d)' /\ b \in Span(addr'[d], want'[d])
      <3>1. CASE b \in taken[i]
        BY <3>1, <1>13, <1>14 DEF HoldInv, NoLostBlock
      <3>2. CASE b \notin taken[i]
        <4>1. b \in Span(a, n)
          BY <3>2, <2>1, <1>7
        <4> QED
          BY <4>1, <1>6, <1>13
      <3> QED
        BY <3>1, <3>2
    <2> QED
      BY <1>6, <2>1 DEF NoLostBlock
  <1> QED
    BY <1>10, <1>11, <1>12, <1>17, <1>18 DEF HoldInv

(* The caller's blocks become a live allocation.                           *)
LEMMA HoldAllocCount ==
  ASSUME HoldInv, ZoneInv', NEW c \in Callers, AllocCount(c), Others(c)
  PROVE  HoldInv'
  <1> DEFINE x == [start |-> addr[c], size |-> want[c]]
  <1>1. TypeOK
    BY DEF HoldInv, ZoneInv
  <1>2. /\ zones' = zones /\ taken' = taken /\ live' = live \cup {x}
        /\ pc[c] = "count" /\ pc'[c] = "idle" /\ Active' = Active
        /\ x.start = addr[c] /\ x.size = want[c]
    BY <1>1 DEF AllocCount, Return, zoneVars, TypeOK, Active
  <1>3. Holding(c) /\ ~ Holding(c)'
    BY <1>2 DEF Holding
  <1>4. \A d \in Callers \ {c} :
          /\ Holding(d)' <=> Holding(d)
          /\ addr'[d] = addr[d] /\ want'[d] = want[d]
    BY <1>2, OthersHold DEF Others
  <1>5. TakenInZone'
    BY <1>2 DEF HoldInv, TakenInZone
  <1>6. LiveTaken'
    <2>1. \E i \in Active : /\ InZone(i, x.start, x.size)
                            /\ Span(x.start, x.size) \subseteq taken[i]
      BY <1>2, <1>3, HolderTaken
    <2> QED
      BY <1>2, <2>1 DEF HoldInv, LiveTaken, InZone
  <1>7. CallersOwn'
    BY <1>2, OthersOwn DEF HoldInv, CallersOwn, CallerOwns
  <1>8. /\ \A y \in live : Disjoint(x.start, x.size, y.start, y.size)
        /\ \A d \in Callers \ {c} : Holding(d) =>
             Disjoint(addr[d], want[d], x.start, x.size)
    BY <1>2, <1>3 DEF HoldInv, HoldersApart
  <1>9. HoldersApart'
    <2>1. \A y, z \in live' : y = z \/ Disjoint(y.start, y.size, z.start, z.size)
      <3>1. \A y \in live : Disjoint(y.start, y.size, x.start, x.size)
        BY <1>8 DEF Disjoint
      <3> QED
        BY <1>2, <1>8, <3>1 DEF HoldInv, HoldersApart
    <2>2. ASSUME NEW d \in Callers, Holding(d)'
          PROVE  /\ \A y \in live' : Disjoint(addr'[d], want'[d], y.start, y.size)
                 /\ \A e \in Callers : Holding(e)' /\ d # e =>
                      Disjoint(addr'[d], want'[d], addr'[e], want'[e])
      <3>1. d # c /\ Holding(d) /\ addr'[d] = addr[d] /\ want'[d] = want[d]
        BY <2>2, <1>3, <1>4
      <3>2. \A y \in live : Disjoint(addr[d], want[d], y.start, y.size)
        BY <3>1 DEF HoldInv, HoldersApart
      <3>3. \A e \in Callers : Holding(e)' /\ d # e =>
              Disjoint(addr[d], want[d], addr'[e], want'[e])
        BY <3>1, <1>3, <1>4 DEF HoldInv, HoldersApart
      <3> QED
        BY <3>1, <3>2, <3>3, <1>2, <1>8
    <2> QED
      BY <2>1, <2>2 DEF HoldersApart, Disjoint
  <1>10. NoLostBlock'
    <2>1. ASSUME NEW i \in ZoneIds, NEW b \in taken[i]
          PROVE  \/ \E y \in live' : b \in Span(y.start, y.size)
                 \/ \E d \in Callers : Holding(d)' /\ b \in Span(addr'[d], want'[d])
      <3>1. CASE \E y \in live : b \in Span(y.start, y.size)
        BY <3>1, <1>2
      <3>2. CASE \E d \in Callers : Holding(d) /\ b \in Span(addr[d], want[d])
        BY <3>2, <1>2, <1>4
      <3> QED
        BY <3>1, <3>2 DEF HoldInv, NoLostBlock
    <2> QED
      BY <1>2, <2>1 DEF NoLostBlock
  <1> QED
    BY <1>5, <1>6, <1>7, <1>9, <1>10 DEF HoldInv

(* A live allocation becomes the caller's: its zone is still ahead.        *)
LEMMA HoldFree ==
  ASSUME HoldInv, ZoneInv', NEW c \in Callers, NEW x \in live, Free(c, x), Others(c)
  PROVE  HoldInv'
  <1>1. TypeOK
    BY DEF HoldInv, ZoneInv
  <1>2. /\ zones' = zones /\ taken' = taken /\ live' = live \ {x}
        /\ pc[c] = "idle" /\ pc'[c] = "free" /\ Active' = Active
        /\ addr'[c] = x.start /\ want'[c] = x.size /\ at'[c] = 1
    BY <1>1 DEF Free, zoneVars, TypeOK, Active
  <1>3. PICK i \in Active : /\ InZone(i, x.start, x.size)
                            /\ Span(x.start, x.size) \subseteq taken[i]
    BY DEF HoldInv, LiveTaken
  <1>4. 1 <= i
    BY <1>1, ActiveZone
  <1>5. ~ Holding(c) /\ Holding(c)'
    BY <1>2, <1>3, <1>4 DEF Holding, InZone
  <1>6. \A d \in Callers \ {c} :
          /\ Holding(d)' <=> Holding(d)
          /\ addr'[d] = addr[d] /\ want'[d] = want[d]
    BY <1>2, OthersHold DEF Others
  <1>7. TakenInZone'
    BY <1>2 DEF HoldInv, TakenInZone
  <1>8. LiveTaken'
    BY <1>2 DEF HoldInv, LiveTaken, InZone
  <1>9. CallersOwn'
    <2>1. CallerOwns(c)'
      BY <1>2, <1>3 DEF CallerOwns, InZone
    <2> QED
      BY <1>2, <2>1, OthersOwn DEF HoldInv, CallersOwn
  <1>10. HoldersApart'
    <2>1. \A y \in live' : /\ Disjoint(x.start, x.size, y.start, y.size)
                          /\ y \in live
      BY <1>2 DEF HoldInv, HoldersApart
    <2>2. \A y, z \in live' : y = z \/ Disjoint(y.start, y.size, z.start, z.size)
      BY <2>1 DEF HoldInv, HoldersApart
    <2>3. \A d \in Callers : Holding(d) =>
            /\ Disjoint(addr[d], want[d], x.start, x.size)
            /\ Disjoint(x.start, x.size, addr[d], want[d])
      BY DEF HoldInv, HoldersApart, Disjoint
    <2>4. ASSUME NEW d \in Callers, Holding(d)'
          PROVE  /\ \A y \in live' : Disjoint(addr'[d], want'[d], y.start, y.size)
                 /\ \A e \in Callers : Holding(e)' /\ d # e =>
                      Disjoint(addr'[d], want'[d], addr'[e], want'[e])
      <3>1. CASE d = c
        BY <3>1, <1>2, <1>6, <2>1, <2>3
      <3>2. CASE d # c
        <4>1. Holding(d) /\ addr'[d] = addr[d] /\ want'[d] = want[d]
          BY <3>2, <2>4, <1>6
        <4>2. \A y \in live' : Disjoint(addr[d], want[d], y.start, y.size)
          BY <2>1, <4>1 DEF HoldInv, HoldersApart
        <4>3. \A e \in Callers : Holding(e)' /\ d # e =>
                Disjoint(addr[d], want[d], addr'[e], want'[e])
          BY <1>2, <1>6, <2>3, <4>1 DEF HoldInv, HoldersApart
        <4> QED
          BY <4>1, <4>2, <4>3
      <3> QED
        BY <3>1, <3>2
    <2> QED
      BY <2>2, <2>4 DEF HoldersApart, Disjoint
  <1>11. NoLostBlock'
    <2>1. ASSUME NEW j \in ZoneIds, NEW b \in taken[j]
          PROVE  \/ \E y \in live' : b \in Span(y.start, y.size)
                 \/ \E d \in Callers : Holding(d)' /\ b \in Span(addr'[d], want'[d])
      <3>1. CASE \E y \in live : b \in Span(y.start, y.size)
        BY <3>1, <1>2, <1>5
      <3>2. CASE \E d \in Callers : Holding(d) /\ b \in Span(addr[d], want[d])
        BY <3>2, <1>5, <1>6
      <3> QED
        BY <3>1, <3>2 DEF HoldInv, NoLostBlock
    <2> QED
      BY <1>2, <2>1 DEF NoLostBlock
  <1> QED
    BY <1>7, <1>8, <1>9, <1>10, <1>11 DEF HoldInv

(* The blocks go back to the buddy: nobody else held any of them.          *)
LEMMA HoldFreeHit ==
  ASSUME HoldInv, ZoneInv', NEW c \in Callers, FreeHit(c), Others(c)
  PROVE  HoldInv'
  <1> DEFINE k == at[c]
             r == Span(addr[c], want[c])
  <1>1. TypeOK /\ ZoneInv /\ addr[c] \in Nat /\ want[c] \in Nat \ {0}
    BY DEF HoldInv, ZoneInv, TypeOK
  <1>2. k \in Active /\ k \in ZoneIds /\ InZone(k, addr[c], want[c])
    BY <1>1, ZoneType DEF FreeHit, TypeOK
  <1>3. /\ zones' = zones /\ live' = live /\ Active' = Active
        /\ pc[c] = "free" /\ pc'[c] = "uncount"
        /\ at'[c] = k /\ addr'[c] = addr[c] /\ want'[c] = want[c]
    BY <1>1 DEF FreeHit, zoneVars, TypeOK, Active
  <1>4. /\ taken'[k] = taken[k] \ r
        /\ \A i \in ZoneIds \ {k} : taken'[i] = taken[i]
    BY <1>1, <1>2 DEF FreeHit, BuddyFree, TypeOK
  <1>5. Holding(c) /\ ~ Holding(c)'
    <2>1. k <= k
      BY <1>1, <1>2, ActiveZone
    <2> QED
      BY <1>2, <1>3, <2>1 DEF Holding
  <1>6. \A d \in Callers \ {c} :
          /\ Holding(d)' <=> Holding(d)
          /\ addr'[d] = addr[d] /\ want'[d] = want[d]
    BY <1>3, OthersHold DEF Others
  <1>7. /\ \A x \in live : r \cap Span(x.start, x.size) = {}
        /\ \A d \in Callers \ {c} : Holding(d) => r \cap Span(addr[d], want[d]) = {}
    BY <1>5 DEF HoldInv, HoldersApart, Disjoint
  <1>8. \A i \in Active : \A q : q \subseteq taken[i] /\ r \cap q = {}
          => q \subseteq taken'[i]
    BY <1>1, <1>4, ActiveZone
  <1>9. TakenInZone'
    BY <1>2, <1>3, <1>4 DEF HoldInv, TakenInZone
  <1>10. LiveTaken'
    <2>1. ASSUME NEW x \in live
          PROVE  \E i \in Active : /\ InZone(i, x.start, x.size)
                                  /\ Span(x.start, x.size) \subseteq taken'[i]
      BY <1>7, <1>8 DEF HoldInv, LiveTaken
    <2> QED
      BY <1>3, <2>1 DEF LiveTaken, InZone
  <1>11. CallersOwn'
    <2>1. CallerOwns(c)'
      BY <1>2, <1>3 DEF CallerOwns, InZone
    <2>2. ASSUME NEW d \in Callers \ {c} PROVE CallerOwns(d)'
      <3>1. CallerOwns(d) /\ pc'[d] = pc[d] /\ at'[d] = at[d]
        BY DEF HoldInv, CallersOwn, Others
      <3>2. CASE pc[d] = "count"
        <4>1. Holding(d)
          BY <3>2 DEF Holding
        <4> QED
          BY <3>1, <3>2, <4>1, <1>3, <1>6, <1>7, <1>8 DEF CallerOwns, InZone
      <3>3. CASE pc[d] = "free"
        <4>1. PICK i \in Active :
                /\ InZone(i, addr[d], want[d])
                /\ at[d] <= i => Span(addr[d], want[d]) \subseteq taken[i]
          BY <3>1, <3>3 DEF CallerOwns
        <4>2. at[d] <= i => Span(addr[d], want[d]) \subseteq taken'[i]
          BY <3>3, <4>1, <1>7, <1>8 DEF Holding
        <4> QED
          BY <3>1, <3>3, <4>1, <4>2, <1>3, <1>6 DEF CallerOwns, InZone
      <3>4. CASE pc[d] \notin {"count", "free"}
        BY <3>1, <3>4, <1>3, <1>6 DEF CallerOwns, InZone
      <3> QED
        BY <3>2, <3>3, <3>4
    <2> QED
      BY <2>1, <2>2 DEF CallersOwn
  <1>12. HoldersApart'
    BY <1>3, <1>5, <1>6 DEF HoldInv, HoldersApart, Disjoint
  <1>13. NoLostBlock'
    <2>1. ASSUME NEW i \in ZoneIds, NEW b \in taken'[i]
          PROVE  \/ \E x \in live : b \in Span(x.start, x.size)
                 \/ \E d \in Callers : Holding(d)' /\ b \in Span(addr'[d], want'[d])
      <3>1. b \in taken[i]
        BY <1>4
      <3>2. b \notin r
        <4>1. CASE i = k
          BY <4>1, <1>4
        <4>2. CASE i # k
          <5>1. i \in Active /\ b \in Span(zones[i].start, zones[i].size)
            BY <3>1 DEF HoldInv, TakenInZone
          <5>2. r \subseteq Span(zones[k].start, zones[k].size)
            BY <1>1, <1>2, RunInZone
          <5> QED
            BY <4>2, <5>1, <5>2, <1>1, <1>2, OneZone
        <4> QED
          BY <4>1, <4>2
      <3> QED
        BY <3>1, <3>2, <1>6 DEF HoldInv, NoLostBlock
    <2> QED
      BY <1>3, <2>1 DEF NoLostBlock
  <1> QED
    BY <1>9, <1>10, <1>11, <1>12, <1>13 DEF HoldInv

(***************************************************************************)
(* After the fetch_sub the loop of free goes on past the only zone that    *)
(* contains the run; a zone that does not contain it is passed over.       *)
(***************************************************************************)
LEMMA HoldFreeUncount ==
  ASSUME HoldInv, ZoneInv', NEW c \in Callers, FreeUncount(c), Others(c)
  PROVE  HoldInv'
  <1>1. TypeOK /\ ZoneInv /\ addr[c] \in Nat /\ want[c] \in Nat \ {0}
    BY DEF HoldInv, ZoneInv, TypeOK
  <1>2. /\ zones' = zones /\ taken' = taken /\ live' = live /\ Active' = Active
        /\ pc[c] = "uncount" /\ pc'[c] = "free" /\ at'[c] = at[c] + 1
        /\ addr'[c] = addr[c] /\ want'[c] = want[c]
    BY <1>1 DEF FreeUncount, zoneVars, TypeOK, Active
  <1>3. /\ at[c] \in Active /\ at[c] \in Nat
        /\ InZone(at[c], addr[c], want[c])
    BY <1>1, <1>2 DEF HoldInv, CallersOwn, CallerOwns, TypeOK
  <1>4. ~ (at'[c] <= at[c])
    BY <1>2, <1>3
  <1>5. CallerOwns(c)'
    BY <1>2, <1>3, <1>4 DEF CallerOwns, InZone
  <1>6. ~ Holding(c)
    BY <1>2 DEF Holding
  <1>7. ~ Holding(c)'
    <2>1. \A i \in Active : InZone(i, addr[c], want[c]) => i = at[c]
      BY <1>1, <1>3, OneHit
    <2> QED
      BY <1>2, <1>4, <2>1 DEF Holding, InZone
  <1> QED
    BY <1>2, <1>5, <1>6, <1>7, Quiet

(* free passes a zone that is not the one of its block.                    *)
LEMMA HoldFreeMiss ==
  ASSUME HoldInv, ZoneInv', NEW c \in Callers, FreeMiss(c), Others(c)
  PROVE  HoldInv'
  <1>1. TypeOK /\ at[c] \in Nat \ {0}
    BY DEF HoldInv, ZoneInv, TypeOK
  <1>2. /\ zones' = zones /\ taken' = taken /\ live' = live /\ Active' = Active
        /\ pc[c] = "free" /\ pc'[c] = "free" /\ at'[c] = at[c] + 1
        /\ addr'[c] = addr[c] /\ want'[c] = want[c]
        /\ ~ InZone(at[c], addr[c], want[c])
    BY <1>1 DEF FreeMiss, zoneVars, TypeOK, Active
  <1>3. \A i \in Active : InZone(i, addr[c], want[c]) =>
          (at'[c] <= i <=> at[c] <= i)
    <2> TAKE i \in Active
    <2>1. i \in Nat
      BY <1>1, ActiveZone
    <2> QED
      BY <1>1, <1>2, <2>1
  <1>4. CallerOwns(c)'
    <2>1. CallerOwns(c)
      BY DEF HoldInv, CallersOwn
    <2> QED
      BY <1>2, <1>3, <2>1 DEF CallerOwns, InZone
  <1>5. Holding(c)' <=> Holding(c)
    BY <1>2, <1>3 DEF Holding, InZone
  <1> QED
    BY <1>2, <1>4, <1>5, Quiet

(* The steps of a caller that owns nothing before or after.                *)
LEMMA HoldRest ==
  ASSUME HoldInv, ZoneInv', NEW c \in Callers, Others(c),
         \/ \E n \in Sizes : Alloc(c, n)
         \/ AllocMiss(c) \/ AllocNone(c) \/ FreeDone(c)
         \/ AllocatedMemory(c) \/ SumLoad(c) \/ SumDone(c)
  PROVE  HoldInv'
  <1>1. TypeOK
    BY DEF HoldInv, ZoneInv
  <1>2. /\ zones' = zones /\ taken' = taken /\ live' = live
        /\ pc'[c] \in {"idle", "alloc", "sum"}
    BY <1>1 DEF Alloc, AllocMiss, AllocNone, FreeDone, AllocatedMemory, SumLoad,
         SumDone, zoneVars, Return, TypeOK
  <1>3. \/ pc[c] \in {"idle", "alloc", "sum"}
        \/ pc[c] = "free" /\ at[c] > Len(zones)
    BY DEF Alloc, AllocMiss, AllocNone, FreeDone, AllocatedMemory, SumLoad, SumDone
  <1>4. ~ Holding(c)' /\ CallerOwns(c)'
    BY <1>2 DEF Holding, CallerOwns
  <1>5. ~ Holding(c)
    <2>1. \A i \in Active : ~ (at[c] > Len(zones) /\ at[c] <= i)
      BY <1>1 DEF Active, TypeOK
    <2> QED
      BY <1>3, <2>1 DEF Holding
  <1> QED
    BY <1>2, <1>4, <1>5, Quiet

(* Initially there is no zone and nobody holds anything.                   *)
LEMMA HoldInvInit == Init => HoldInv
  <1> SUFFICES ASSUME Init PROVE HoldInv
    OBVIOUS
  <1>1. TypeOK
    BY TypeInit
  <1>2. /\ zones = << >> /\ Active = {} /\ todo = Regions /\ live = {}
        /\ \A i \in ZoneIds : taken[i] = {}
        /\ \A c \in Callers : pc[c] = "idle"
    BY DEF Init, Active
  <1>3. ZonesApart /\ RestApart
    BY <1>2 DEF Init, ZonesApart, RestApart
  <1>4. TakenInZone /\ LiveTaken /\ CallersOwn /\ NoLostBlock
    BY <1>2 DEF TakenInZone, LiveTaken, CallersOwn, CallerOwns, NoLostBlock
  <1>5. HoldersApart
    BY <1>2 DEF HoldersApart, Holding
  <1> QED
    BY <1>1, <1>3, <1>4, <1>5 DEF HoldInv, ZoneInv

(* Every step keeps HoldInv.                                               *)
LEMMA HoldInvNext == HoldInv /\ [Next]_vars => HoldInv'
  <1> SUFFICES ASSUME HoldInv, [Next]_vars PROVE HoldInv'
    OBVIOUS
  <1>1. TypeOK /\ ZoneInv'
    BY ZoneInvNext DEF HoldInv, ZoneInv
  <1>2. CASE UNCHANGED vars
    BY <1>1, <1>2, HoldAddZone DEF vars, callerVars
  <1>3. CASE (\E r \in Regions : AddZone(r)) \/ AddZoneSkip \/ AddZoneFails
    BY <1>1, <1>3, HoldAddZone DEF AddZone, AddZoneSkip, AddZoneFails
  <1>4. CASE AddZonePush
    BY <1>1, <1>4, HoldPush
  <1>5. ASSUME NEW c \in Callers, CallerNext(c) PROVE HoldInv'
    <2>1. Others(c)
      BY <1>1, <1>5, CallerFrame
    <2> QED
      BY <1>1, <1>5, <2>1, HoldAllocHit, HoldAllocCount, HoldFree, HoldFreeHit,
         HoldFreeUncount, HoldFreeMiss, HoldRest DEF CallerNext
  <1> QED
    BY <1>2, <1>3, <1>4, <1>5 DEF Next

(* HoldInv is an invariant of the allocator.                               *)
LEMMA HoldInvInvariant == Spec => []HoldInv
  BY HoldInvInit, HoldInvNext, PTL DEF Spec

(***************************************************************************)
(* alloc never returns blocks somebody else owns, however alloc, free and  *)
(* add_zone overlap (zoned_buddy.rs:40-95).                                *)
(***************************************************************************)
THEOREM NoDoubleAllocationThm == Spec => []NoDoubleAllocation
  <1>1. HoldInv => NoDoubleAllocation
    BY DEF HoldInv, HoldersApart, NoDoubleAllocation, Holding
  <1> QED
    BY <1>1, HoldInvInvariant, PTL

(***************************************************************************)
(* No block is lost: what a buddy considers taken, some live allocation or *)
(* call in progress accounts for (the range test of free, 88-94).          *)
(***************************************************************************)
THEOREM NoLostBlockThm == Spec => []NoLostBlock
  <1>1. HoldInv => NoLostBlock
    BY DEF HoldInv
  <1> QED
    BY <1>1, HoldInvInvariant, PTL

(***************************************************************************)
(* Steps of the allocator are steps of the pool, or stutter.               *)
(***************************************************************************)
LEMMA PoolQuiet ==
  ASSUME UNCHANGED <<zones, live>>
  PROVE  UNCHANGED <<live, Managed>>
  BY DEF Managed, Active

(* A pushed zone is a Grow of the abstract pool.                           *)
LEMMA PoolGrow ==
  ASSUME TypeOK, AddZonePush
  PROVE  Pool!Grow
  <1>1. /\ zones' = Append(zones, [start |-> adding.start, size |-> adding.size_p2])
        /\ live' = live /\ zones \in Seq(Run)
    BY DEF AddZonePush, TypeOK
  <1>2. Active \subseteq Active' /\ \A i \in Active : zones'[i] = zones[i]
    BY <1>1 DEF Active
  <1>3. Managed \subseteq Managed'
    BY <1>2 DEF Managed
  <1> QED
    BY <1>1, <1>3 DEF Pool!Grow

(* The return of alloc is a Take: the run is managed and in no other hand. *)
LEMMA PoolTake ==
  ASSUME HoldInv, NEW c \in Callers, AllocCount(c)
  PROVE  Pool!Take
  <1> DEFINE r == [start |-> addr[c], size |-> want[c]]
  <1>1. /\ pc[c] = "count" /\ live' = live \cup {r} /\ zones' = zones
        /\ addr[c] \in Nat /\ want[c] \in Nat \ {0} /\ zones \in Seq(Run)
        /\ live \subseteq Run
    BY DEF AllocCount, zoneVars, HoldInv, ZoneInv, TypeOK
  <1>2. at[c] \in Active /\ InZone(at[c], addr[c], want[c])
    BY <1>1 DEF HoldInv, CallersOwn, CallerOwns
  <1>3. TypeOK
    BY DEF HoldInv, ZoneInv
  <1>4. Span(addr[c], want[c]) \subseteq Span(zones[at[c]].start, zones[at[c]].size)
    BY <1>1, <1>2, <1>3, RunInZone
  <1>5. Span(addr[c], want[c]) \subseteq Managed
    BY <1>2, <1>4 DEF Managed
  <1>6. \A a \in live : Disjoint(addr[c], want[c], a.start, a.size)
    BY <1>1 DEF HoldInv, HoldersApart, Holding
  <1>7. \A a : Pool!Blocks(a) = Span(a.start, a.size)
    BY DEF Pool!Blocks, Span
  <1>8. r \in live' /\ r.size > 0 /\ Pool!Blocks(r) \subseteq Managed
    BY <1>1, <1>5, <1>7
  <1>9. \A a \in live : Pool!Blocks(a) \cap Pool!Blocks(r) = {}
    BY <1>6, <1>7 DEF Disjoint
  <1>10. Managed' = Managed
    BY <1>1 DEF Managed, Active
  <1> QED
    BY <1>1, <1>8, <1>9, <1>10 DEF Pool!Take

(* Every step is a step of the abstract pool or a stutter.                 *)
LEMMA PoolNext ==
  HoldInv /\ [Next]_vars => [Pool!Next]_<<live, Managed>>
  <1> SUFFICES ASSUME HoldInv, [Next]_vars PROVE [Pool!Next]_<<live, Managed>>
    OBVIOUS
  <1>1. CASE UNCHANGED vars
    BY <1>1, PoolQuiet DEF vars
  <1>2. CASE (\E r \in Regions : AddZone(r)) \/ AddZoneSkip \/ AddZoneFails
    BY <1>2, PoolQuiet DEF AddZone, AddZoneSkip, AddZoneFails
  <1>3. CASE AddZonePush
    BY <1>3, PoolGrow DEF Pool!Next, HoldInv, ZoneInv
  <1>4. ASSUME NEW c \in Callers, CallerNext(c)
        PROVE  [Pool!Next]_<<live, Managed>>
    <2>1. CASE AllocCount(c)
      BY <2>1, PoolTake DEF Pool!Next
    <2>2. CASE \E a \in live : Free(c, a)
      <3>1. PICK a \in live : Free(c, a)
        BY <2>2
      <3>2. live' = live \ {a} /\ zones' = zones
        BY <3>1 DEF Free, zoneVars
      <3>3. Managed' = Managed
        BY <3>2 DEF Managed, Active
      <3> QED
        BY <3>2, <3>3 DEF Pool!Next, Pool!Give
    <2>3. CASE ~ AllocCount(c) /\ ~ (\E a \in live : Free(c, a))
      <3>1. UNCHANGED <<zones, live>>
        BY <1>4, <2>3 DEF CallerNext, Alloc, AllocHit, AllocMiss, AllocNone,
           FreeHit, FreeUncount, FreeMiss, FreeDone, AllocatedMemory, SumLoad,
           SumDone, zoneVars
      <3> QED
        BY <3>1, PoolQuiet
    <2> QED
      BY <2>1, <2>2, <2>3
  <1> QED
    BY <1>1, <1>2, <1>3, <1>4 DEF Next

(***************************************************************************)
(* The allocator implements the pool of pages its callers rely on, for any *)
(* callers, regions and sizes (zoned_buddy.rs:40-95).                      *)
(***************************************************************************)
THEOREM ImplementsPagePoolThm == Spec => ImplementsPagePool
  <1>1. Init => Pool!Init
    BY DEF Init, Pool!Init, Managed, Active
  <1>2. HoldInv /\ [Next]_vars => [Pool!Next]_<<live, Managed>>
    BY PoolNext
  <1> QED
    BY <1>1, <1>2, HoldInvInvariant, PTL DEF Spec, ImplementsPagePool, Pool!Spec

-----------------------------------------------------------------------------
(***************************************************************************)
(* The counters.                                                           *)
(***************************************************************************)

(* A run has as many blocks as its size says.                              *)
LEMMA SpanCardinality ==
  ASSUME NEW s \in Nat, NEW n \in Nat \ {0}
  PROVE  IsFiniteSet(Span(s, n)) /\ Cardinality(Span(s, n)) = n
  <1>1. s \in Int /\ s + n - 1 \in Int
    OBVIOUS
  <1> QED
    BY <1>1, FS_Interval DEF Span

(* The sets a counter counts are finite.                                   *)
LEMMA CountedFinite ==
  ASSUME HoldInv, NEW i \in Active
  PROVE  /\ IsFiniteSet(Counted(i)) /\ Cardinality(Counted(i)) \in Nat
         /\ IsFiniteSet(Unsettled(i)) /\ Cardinality(Unsettled(i)) \in Nat
  <1>1. i \in ZoneIds /\ zones[i].start \in Nat /\ zones[i].size \in Nat \ {0}
    BY ActiveZone DEF HoldInv, ZoneInv
  <1>2. IsFiniteSet(Span(zones[i].start, zones[i].size))
    BY <1>1, SpanCardinality
  <1>3. Counted(i) \subseteq Span(zones[i].start, zones[i].size)
    BY <1>1 DEF HoldInv, TakenInZone, Counted
  <1>4. IsFiniteSet(Callers \X Span(zones[i].start, zones[i].size))
    BY <1>2, BoundsAssumption, FS_Product
  <1>5. IsFiniteSet(Counted(i))
    BY <1>2, <1>3, FS_Subset
  <1>6. IsFiniteSet(Unsettled(i))
    BY <1>4, FS_Subset DEF Unsettled
  <1> QED
    BY <1>5, <1>6, FS_CardinalityType

(* Taking blocks that are not in a set.                                    *)
LEMMA AddRun ==
  ASSUME NEW S, IsFiniteSet(S), NEW T, IsFiniteSet(T), S \cap T = {}
  PROVE  Cardinality(S \cup T) = Cardinality(S) + Cardinality(T)
  <1>1. Cardinality(S \cup T) = Cardinality(S) + Cardinality(T) - Cardinality(S \cap T)
    BY FS_Union
  <1>2. Cardinality(S \cap T) = 0
    BY FS_EmptySet
  <1>3. Cardinality(S) \in Nat /\ Cardinality(T) \in Nat
    BY FS_CardinalityType
  <1> QED
    BY <1>1, <1>2, <1>3

(* Giving back blocks that are in a set.                                    *)
LEMMA RemoveRun ==
  ASSUME NEW S, IsFiniteSet(S), NEW T, T \subseteq S
  PROVE  Cardinality(S \ T) = Cardinality(S) - Cardinality(T)
  <1>1. S \cap T = T
    OBVIOUS
  <1> QED
    BY <1>1, FS_Difference

(* The blocks of one call among the unsettled ones.                        *)
LEMMA PairCardinality ==
  ASSUME NEW C, IsFiniteSet(C), Cardinality(C) = 1, NEW S, IsFiniteSet(S)
  PROVE  IsFiniteSet(C \X S) /\ Cardinality(C \X S) = Cardinality(S)
  <1>1. /\ IsFiniteSet(C \X S)
        /\ Cardinality(C \X S) = 1 * Cardinality(S)
    BY FS_Product
  <1>2. Cardinality(S) \in Nat
    BY FS_CardinalityType
  <1> QED
    BY <1>1, <1>2

(* Steps of a caller that neither counts nor uncounts.                     *)
LEMMA CountQuiet ==
  ASSUME CountersExact, NEW c \in Callers, zones' = zones, taken' = taken,
         allocated' = allocated, Others(c),
         pc[c] \notin {"count", "uncount"}, pc'[c] \notin {"count", "uncount"}
  PROVE  CountersExact'
  <1>1. ASSUME NEW i \in ZoneIds
        PROVE  Counted(i)' = Counted(i) /\ Unsettled(i)' = Unsettled(i)
    <2>1. \A d \in Callers : pc[d] = "count" \/ pc'[d] = "count" =>
            /\ pc'[d] = pc[d] /\ at'[d] = at[d] /\ addr'[d] = addr[d] /\ want'[d] = want[d]
      BY DEF Others
    <2>2. \A d \in Callers : pc[d] = "uncount" \/ pc'[d] = "uncount" =>
            /\ pc'[d] = pc[d] /\ at'[d] = at[d] /\ addr'[d] = addr[d] /\ want'[d] = want[d]
      BY DEF Others
    <2>3. Counted(i)' = Counted(i)
      BY <2>1 DEF Counted
    <2>4. Unsettled(i)' = Unsettled(i)
      <3> SUFFICES ASSUME NEW p \in Callers \X Span(zones[i].start, zones[i].size)
                   PROVE  p \in Unsettled(i)' <=> p \in Unsettled(i)
        BY DEF Unsettled
      <3>1. p[1] \in Callers
        OBVIOUS
      <3> QED
        BY <2>2, <3>1 DEF Unsettled
    <2> QED
      BY <2>3, <2>4
  <1> QED
    BY <1>1 DEF CountersExact, Active

(* Steps of add_zone.                                                      *)
LEMMA CountAddZone ==
  ASSUME CountersExact, UNCHANGED <<zones, taken, allocated, pc, at, addr, want>>
  PROVE  CountersExact'
  BY DEF CountersExact, Active, Counted, Unsettled

(* AddZonePush: the new zone starts with nothing taken and a zero counter. *)
LEMMA CountPush ==
  ASSUME HoldInv, CountersExact, AddZonePush
  PROVE  CountersExact'
  <1>1. /\ \A c \in Callers : pc[c] = "idle"
        /\ pc' = pc /\ at' = at /\ addr' = addr /\ want' = want
    BY DEF AddZonePush, Readers, callerVars
  <1>2. PICK k : k = Len(zones) + 1
    OBVIOUS
  <1>3. /\ zones \in Seq(Run) /\ Len(zones) < MaxZones /\ k \in ZoneIds /\ k \notin Active
        /\ taken \in [ZoneIds -> SUBSET Nat] /\ allocated \in [ZoneIds -> Int]
    BY <1>2, BoundsAssumption DEF AddZonePush, HoldInv, ZoneInv, TypeOK, ZoneIds, Active
  <1>4. /\ zones' = Append(zones, [start |-> adding.start, size |-> adding.size_p2])
        /\ taken' = [taken EXCEPT ![k] = {}] /\ allocated' = [allocated EXCEPT ![k] = 0]
    BY <1>2 DEF AddZonePush
  <1>5. /\ Len(zones') = Len(zones) + 1 /\ \A i \in Active : zones'[i] = zones[i]
        /\ Active' = Active \cup {k}
    BY <1>2, <1>3, <1>4 DEF Active
  <1>6. \A i \in ZoneIds : Unsettled(i)' = {}
    BY <1>1 DEF Unsettled
  <1>7. \A i \in ZoneIds : Unsettled(i) = {}
    BY <1>1 DEF Unsettled
  <1>8. \A i \in ZoneIds : Counted(i) = taken[i] /\ Counted(i)' = taken'[i]
    BY <1>1 DEF Counted
  <1>9. ASSUME NEW i \in ZoneIds
        PROVE  allocated'[i] = IF i \in Active' THEN Cardinality(Counted(i)') + Cardinality(Unsettled(i)')
                               ELSE 0
    <2>1. CASE i = k
      <3>1. Counted(i)' = {} /\ Unsettled(i)' = {} /\ allocated'[i] = 0 /\ i \in Active'
        BY <1>3, <1>4, <1>5, <1>6, <1>8, <2>1
      <3> QED
        BY <3>1, FS_EmptySet
    <2>2. CASE i # k
      <3>1. Counted(i)' = Counted(i) /\ Unsettled(i)' = Unsettled(i) /\ allocated'[i] = allocated[i]
        BY <1>3, <1>4, <1>6, <1>7, <1>8, <2>2
      <3>2. i \in Active' <=> i \in Active
        BY <1>5, <2>2
      <3> QED
        BY <3>1, <3>2 DEF CountersExact
    <2> QED
      BY <2>1, <2>2
  <1> QED
    BY <1>9 DEF CountersExact

(* The buddy hands out blocks that are not counted yet.                    *)
LEMMA CountAllocHit ==
  ASSUME HoldInv, CountersExact, NEW c \in Callers, Others(c), AllocHit(c)
  PROVE  CountersExact'
  <1>1. PICK k, n : k = at[c] /\ n = want[c]
    OBVIOUS
  <1>2. PICK a \in BuddyFits(k, n) : /\ taken' = [taken EXCEPT ![k] = @ \cup Span(a, n)]
                                     /\ addr' = [addr EXCEPT ![c] = a]
    BY <1>1 DEF AllocHit, BuddyAlloc
  <1>3. /\ zones' = zones /\ allocated' = allocated /\ pc[c] = "alloc" /\ pc'[c] = "count"
        /\ at'[c] = k /\ want'[c] = n /\ addr'[c] = a
        /\ taken \in [ZoneIds -> SUBSET Nat]
    BY <1>1, <1>2 DEF AllocHit, zoneVars, HoldInv, ZoneInv, TypeOK
  <1>4. Span(a, n) \cap taken[k] = {}
    BY DEF BuddyFits
  <1>5. ASSUME NEW i \in ZoneIds
        PROVE  Counted(i)' = Counted(i)
    <2>1. ASSUME NEW b
          PROVE  (\A d \in Callers : pc'[d] = "count" /\ at'[d] = i => b \notin Span(addr'[d], want'[d]))
                   <=> /\ (\A d \in Callers : pc[d] = "count" /\ at[d] = i => b \notin Span(addr[d], want[d]))
                       /\ i = k => b \notin Span(a, n)
      BY <1>3 DEF Others
    <2>2. i # k => taken'[i] = taken[i]
      BY <1>2, <1>3
    <2>3. i = k => taken'[i] = taken[i] \cup Span(a, n)
      BY <1>2, <1>3
    <2> QED
      BY <1>4, <2>1, <2>2, <2>3 DEF Counted
  <1>6. ASSUME NEW i \in ZoneIds
        PROVE  Unsettled(i)' = Unsettled(i)
    <2>1. \A d \in Callers : pc[d] = "uncount" \/ pc'[d] = "uncount" =>
            /\ pc'[d] = pc[d] /\ at'[d] = at[d] /\ addr'[d] = addr[d] /\ want'[d] = want[d]
      BY <1>3 DEF Others
    <2> SUFFICES ASSUME NEW p \in Callers \X Span(zones[i].start, zones[i].size)
                 PROVE  p \in Unsettled(i)' <=> p \in Unsettled(i)
      BY <1>3 DEF Unsettled
    <2>2. p[1] \in Callers
      OBVIOUS
    <2> QED
      BY <1>3, <2>1, <2>2 DEF Unsettled
  <1> QED
    BY <1>3, <1>5, <1>6 DEF CountersExact, Active

(* fetch_add counts the blocks of its call.                                *)
LEMMA CountAllocCount ==
  ASSUME HoldInv, CountersExact, NEW c \in Callers, Others(c), AllocCount(c)
  PROVE  CountersExact'
  <1>1. PICK k, a, n : k = at[c] /\ a = addr[c] /\ n = want[c]
    OBVIOUS
  <1>2. TypeOK /\ CallerOwns(c)
    BY DEF HoldInv, ZoneInv, CallersOwn
  <1>3. /\ zones' = zones /\ taken' = taken /\ pc[c] = "count" /\ pc'[c] = "idle"
        /\ allocated' = [allocated EXCEPT ![k] = @ + n]
        /\ allocated \in [ZoneIds -> Int] /\ a \in Nat /\ n \in Nat \ {0}
    BY <1>1, <1>2 DEF AllocCount, zoneVars, TypeOK, Return
  <1>4. k \in Active /\ k \in ZoneIds /\ Span(a, n) \subseteq taken[k]
    BY <1>1, <1>2, <1>3, ActiveZone DEF CallerOwns
  <1>5. \A d \in Callers \ {c} : pc[d] = "count" => Span(a, n) \cap Span(addr[d], want[d]) = {}
    BY <1>1, <1>3 DEF HoldInv, HoldersApart, Holding, Disjoint
  <1>6. ASSUME NEW i \in ZoneIds, i # k
        PROVE  Counted(i)' = Counted(i)
    BY <1>1, <1>3, <1>6 DEF Counted, Others
  <1>7. Counted(k)' = Counted(k) \cup Span(a, n) /\ Counted(k) \cap Span(a, n) = {}
    <2>1. ASSUME NEW b
          PROVE  (\A d \in Callers : pc'[d] = "count" /\ at'[d] = k => b \notin Span(addr'[d], want'[d]))
                   <=> \A d \in Callers \ {c} : pc[d] = "count" /\ at[d] = k => b \notin Span(addr[d], want[d])
      BY <1>3 DEF Others
    <2>2. ASSUME NEW b
          PROVE  (\A d \in Callers : pc[d] = "count" /\ at[d] = k => b \notin Span(addr[d], want[d]))
                   <=> /\ \A d \in Callers \ {c} : pc[d] = "count" /\ at[d] = k => b \notin Span(addr[d], want[d])
                       /\ b \notin Span(a, n)
      BY <1>1, <1>3
    <2>3. Counted(k)' = { b \in taken[k] : \A d \in Callers \ {c} :
                            pc[d] = "count" /\ at[d] = k => b \notin Span(addr[d], want[d]) }
      BY <1>3, <2>1 DEF Counted
    <2>4. \A b : b \in Counted(k) <=> b \in Counted(k)' /\ b \notin Span(a, n)
      BY <2>2, <2>3 DEF Counted
    <2>5. Span(a, n) \subseteq Counted(k)'
      BY <1>4, <1>5, <2>3
    <2> QED
      BY <2>4, <2>5
  <1>8. ASSUME NEW i \in ZoneIds
        PROVE  Unsettled(i)' = Unsettled(i)
    <2>1. \A d \in Callers : pc[d] = "uncount" \/ pc'[d] = "uncount" =>
            /\ pc'[d] = pc[d] /\ at'[d] = at[d] /\ addr'[d] = addr[d] /\ want'[d] = want[d]
      BY <1>3 DEF Others
    <2> SUFFICES ASSUME NEW p \in Callers \X Span(zones[i].start, zones[i].size)
                 PROVE  p \in Unsettled(i)' <=> p \in Unsettled(i)
      BY <1>3 DEF Unsettled
    <2>2. p[1] \in Callers
      OBVIOUS
    <2> QED
      BY <1>3, <2>1, <2>2 DEF Unsettled
  <1>9. /\ Cardinality(Counted(k)') = Cardinality(Counted(k)) + n
        /\ Cardinality(Counted(k)) \in Nat /\ Cardinality(Unsettled(k)) \in Nat
    <2>1. /\ IsFiniteSet(Counted(k)) /\ Cardinality(Counted(k)) \in Nat
          /\ Cardinality(Unsettled(k)) \in Nat
      BY <1>4, CountedFinite
    <2>2. IsFiniteSet(Span(a, n)) /\ Cardinality(Span(a, n)) = n
      BY <1>3, SpanCardinality
    <2>3. Cardinality(Counted(k) \cup Span(a, n)) = Cardinality(Counted(k)) + Cardinality(Span(a, n))
      BY <1>7, <2>1, <2>2, AddRun
    <2> QED
      BY <1>7, <2>1, <2>2, <2>3
  <1>10. allocated[k] = Cardinality(Counted(k)) + Cardinality(Unsettled(k))
    BY <1>4 DEF CountersExact
  <1>11. allocated'[k] = Cardinality(Counted(k)') + Cardinality(Unsettled(k)')
    BY <1>3, <1>4, <1>8, <1>9, <1>10
  <1>12. \A i \in ZoneIds \ {k} : allocated'[i] = allocated[i]
    BY <1>3
  <1>13. Active' = Active
    BY <1>3 DEF Active
  <1> QED
    BY <1>4, <1>6, <1>8, <1>11, <1>12, <1>13 DEF CountersExact

(* The buddy takes counted blocks back; they are unsettled until fetch_sub. *)
LEMMA CountFreeHit ==
  ASSUME HoldInv, CountersExact, NEW c \in Callers, Others(c), FreeHit(c)
  PROVE  CountersExact'
  <1>1. PICK k, a, n : k = at[c] /\ a = addr[c] /\ n = want[c]
    OBVIOUS
  <1>2. TypeOK /\ ZoneInv
    BY DEF HoldInv, ZoneInv
  <1>3. /\ zones' = zones /\ allocated' = allocated /\ pc[c] = "free" /\ pc'[c] = "uncount"
        /\ at'[c] = k /\ addr'[c] = a /\ want'[c] = n
        /\ taken' = [taken EXCEPT ![k] = @ \ Span(a, n)]
        /\ taken \in [ZoneIds -> SUBSET Nat] /\ a \in Nat /\ n \in Nat \ {0}
        /\ k \in Nat \ {0} /\ k <= Len(zones) /\ InZone(k, a, n)
    BY <1>1, <1>2 DEF FreeHit, BuddyFree, zoneVars, TypeOK
  <1>4. k \in Active /\ k \in ZoneIds
    <2>1. Len(zones) \in Nat
      BY <1>2 DEF TypeOK
    <2>2. k \in Active
      BY <1>3, <2>1 DEF Active
    <2> QED
      BY <1>2, <2>2, ActiveZone
  <1>5. Holding(c)
    BY <1>1, <1>3, <1>4 DEF Holding
  <1>6. Span(a, n) \subseteq taken[k]
    <2>1. PICK i \in Active : InZone(i, a, n) /\ Span(a, n) \subseteq taken[i]
      BY <1>1, <1>5, HolderTaken
    <2> QED
      BY <1>2, <1>3, <1>4, <2>1, OneHit
  <1>7. \A d \in Callers \ {c} : pc[d] = "count" => Span(a, n) \cap Span(addr[d], want[d]) = {}
    BY <1>1, <1>5 DEF HoldInv, HoldersApart, Holding, Disjoint
  <1>8. ASSUME NEW i \in ZoneIds
        PROVE  Counted(i)' = IF i = k THEN Counted(i) \ Span(a, n) ELSE Counted(i)
    <2>1. \A b : (\A d \in Callers : pc'[d] = "count" /\ at'[d] = i => b \notin Span(addr'[d], want'[d]))
                   <=> \A d \in Callers : pc[d] = "count" /\ at[d] = i => b \notin Span(addr[d], want[d])
      BY <1>3 DEF Others
    <2>2. taken'[i] = IF i = k THEN taken[i] \ Span(a, n) ELSE taken[i]
      BY <1>3
    <2> QED
      BY <2>1, <2>2 DEF Counted
  <1>9. Span(a, n) \subseteq Counted(k)
    BY <1>3, <1>6, <1>7 DEF Counted
  <1>10. ASSUME NEW i \in ZoneIds
         PROVE  /\ i # k => Unsettled(i)' = Unsettled(i)
                /\ i = k => /\ Unsettled(i)' = Unsettled(i) \cup ({c} \X Span(a, n))
                            /\ Unsettled(i) \cap ({c} \X Span(a, n)) = {}
    <2>1. \A d \in Callers \ {c} :
            /\ pc'[d] = pc[d] /\ at'[d] = at[d] /\ addr'[d] = addr[d] /\ want'[d] = want[d]
      BY DEF Others
    <2>2. ASSUME NEW d \in Callers, NEW b \in Span(zones[i].start, zones[i].size)
          PROVE  <<d, b>> \in Unsettled(i)' <=>
                   <<d, b>> \in Unsettled(i) \/ (i = k /\ d = c /\ b \in Span(a, n))
      BY <1>3, <2>1 DEF Unsettled
    <2>8. ASSUME NEW b
          PROVE  <<c, b>> \notin Unsettled(i)
      BY <1>3 DEF Unsettled
    <2>3. i = k => Span(a, n) \subseteq Span(zones[i].start, zones[i].size)
      BY <1>2, <1>3, <1>4, RunInZone
    <2>4. /\ Unsettled(i)' \subseteq Callers \X Span(zones[i].start, zones[i].size)
          /\ Unsettled(i) \subseteq Callers \X Span(zones[i].start, zones[i].size)
      BY <1>3 DEF Unsettled
    <2>5. i # k => Unsettled(i)' = Unsettled(i)
      BY <2>2, <2>4
    <2>6. i = k => Unsettled(i)' = Unsettled(i) \cup ({c} \X Span(a, n))
      BY <2>2, <2>3, <2>4
    <2>7. i = k => Unsettled(i) \cap ({c} \X Span(a, n)) = {}
      BY <2>8
    <2> QED
      BY <2>5, <2>6, <2>7
  <1>11. /\ Cardinality(Counted(k)') = Cardinality(Counted(k)) - n
         /\ Cardinality(Counted(k)) \in Nat
    <2>1. Cardinality(Counted(k) \ Span(a, n)) = Cardinality(Counted(k)) - Cardinality(Span(a, n))
      BY <1>4, <1>9, CountedFinite, RemoveRun
    <2> QED
      BY <1>3, <1>4, <1>8, <2>1, CountedFinite, SpanCardinality
  <1>12. /\ Cardinality(Unsettled(k)') = Cardinality(Unsettled(k)) + n
         /\ Cardinality(Unsettled(k)) \in Nat
    <2>1. IsFiniteSet({c} \X Span(a, n)) /\ Cardinality({c} \X Span(a, n)) = n
      <3>1. a \in Nat /\ n \in Nat \ {0}
        BY <1>3
      <3>2. IsFiniteSet({c}) /\ Cardinality({c}) = 1
        BY FS_Singleton
      <3>3. IsFiniteSet(Span(a, n)) /\ Cardinality(Span(a, n)) = n
        BY <3>1, SpanCardinality
      <3> QED
        BY <3>2, <3>3, PairCardinality
    <2>2. IsFiniteSet(Unsettled(k)) /\ Cardinality(Unsettled(k)) \in Nat
      BY <1>4, CountedFinite
    <2>3. /\ Unsettled(k)' = Unsettled(k) \cup ({c} \X Span(a, n))
          /\ Unsettled(k) \cap ({c} \X Span(a, n)) = {}
      BY <1>4, <1>10
    <2>4. Cardinality(Unsettled(k) \cup ({c} \X Span(a, n)))
            = Cardinality(Unsettled(k)) + Cardinality({c} \X Span(a, n))
      BY <2>1, <2>2, <2>3, AddRun
    <2> QED
      BY <2>1, <2>2, <2>3, <2>4
  <1>13. allocated[k] = Cardinality(Counted(k)) + Cardinality(Unsettled(k))
    BY <1>4 DEF CountersExact
  <1>14. allocated'[k] = Cardinality(Counted(k)') + Cardinality(Unsettled(k)')
    BY <1>3, <1>11, <1>12, <1>13
  <1>15. Active' = Active
    BY <1>3 DEF Active
  <1> QED
    BY <1>3, <1>4, <1>8, <1>10, <1>14, <1>15 DEF CountersExact

(* fetch_sub settles them.                                                 *)
LEMMA CountFreeUncount ==
  ASSUME HoldInv, CountersExact, NEW c \in Callers, Others(c), FreeUncount(c)
  PROVE  CountersExact'
  <1>1. PICK k, a, n : k = at[c] /\ a = addr[c] /\ n = want[c]
    OBVIOUS
  <1>2. TypeOK /\ CallerOwns(c)
    BY DEF HoldInv, ZoneInv, CallersOwn
  <1>3. /\ zones' = zones /\ taken' = taken /\ pc[c] = "uncount" /\ pc'[c] = "free"
        /\ allocated' = [allocated EXCEPT ![k] = @ - n]
        /\ allocated \in [ZoneIds -> Int] /\ a \in Nat /\ n \in Nat \ {0}
    BY <1>1, <1>2 DEF FreeUncount, zoneVars, TypeOK
  <1>4. k \in Active /\ k \in ZoneIds /\ InZone(k, a, n)
    BY <1>1, <1>2, <1>3, ActiveZone DEF CallerOwns
  <1>5. ASSUME NEW i \in ZoneIds
        PROVE  Counted(i)' = Counted(i)
    <2>1. \A d \in Callers : pc[d] = "count" \/ pc'[d] = "count" =>
            /\ pc'[d] = pc[d] /\ at'[d] = at[d] /\ addr'[d] = addr[d] /\ want'[d] = want[d]
      BY <1>3 DEF Others
    <2> QED
      BY <1>3, <2>1 DEF Counted
  <1>6. ASSUME NEW i \in ZoneIds
        PROVE  Unsettled(i)' = IF i = k THEN Unsettled(i) \ ({c} \X Span(a, n)) ELSE Unsettled(i)
    <2>1. \A d \in Callers \ {c} :
            /\ pc'[d] = pc[d] /\ at'[d] = at[d] /\ addr'[d] = addr[d] /\ want'[d] = want[d]
      BY DEF Others
    <2>2. ASSUME NEW d \in Callers, NEW b \in Span(zones[i].start, zones[i].size)
          PROVE  <<d, b>> \in Unsettled(i)' <=> <<d, b>> \in Unsettled(i) /\ d # c
      BY <1>3, <2>1 DEF Unsettled
    <2>3. ASSUME NEW b \in Span(zones[i].start, zones[i].size)
          PROVE  <<c, b>> \in Unsettled(i) <=> i = k /\ b \in Span(a, n)
      BY <1>1, <1>3 DEF Unsettled
    <2>4. /\ Unsettled(i)' \subseteq Callers \X Span(zones[i].start, zones[i].size)
          /\ Unsettled(i) \subseteq Callers \X Span(zones[i].start, zones[i].size)
      BY <1>3 DEF Unsettled
    <2>5. i # k => Unsettled(i)' = Unsettled(i)
      BY <2>2, <2>3, <2>4
    <2>6. i = k => Unsettled(i)' = Unsettled(i) \ ({c} \X Span(a, n))
      BY <2>2, <2>3, <2>4
    <2> QED
      BY <2>5, <2>6
  <1>7. {c} \X Span(a, n) \subseteq Unsettled(k)
    <2>1. Span(a, n) \subseteq Span(zones[k].start, zones[k].size)
      BY <1>2, <1>3, <1>4, RunInZone
    <2> QED
      BY <1>1, <1>3, <2>1 DEF Unsettled
  <1>8. /\ Cardinality(Unsettled(k)') = Cardinality(Unsettled(k)) - n
        /\ Cardinality(Unsettled(k)) \in Nat /\ Cardinality(Counted(k)) \in Nat
    <2>1. /\ Cardinality(Unsettled(k) \ ({c} \X Span(a, n)))
               = Cardinality(Unsettled(k)) - Cardinality({c} \X Span(a, n))
          /\ Cardinality(Unsettled(k)) \in Nat /\ Cardinality(Counted(k)) \in Nat
      <3>1. /\ IsFiniteSet(Unsettled(k)) /\ Cardinality(Unsettled(k)) \in Nat
            /\ Cardinality(Counted(k)) \in Nat
        BY <1>4, CountedFinite
      <3> QED
        BY <1>7, <3>1, RemoveRun
    <2>2. Cardinality({c} \X Span(a, n)) = n
      <3>1. a \in Nat /\ n \in Nat \ {0}
        BY <1>3
      <3>2. IsFiniteSet({c}) /\ Cardinality({c}) = 1
        BY FS_Singleton
      <3>3. IsFiniteSet(Span(a, n)) /\ Cardinality(Span(a, n)) = n
        BY <3>1, SpanCardinality
      <3> QED
        BY <3>2, <3>3, PairCardinality
    <2> QED
      BY <1>4, <1>6, <2>1, <2>2
  <1>9. allocated[k] = Cardinality(Counted(k)) + Cardinality(Unsettled(k))
    BY <1>4 DEF CountersExact
  <1>10. allocated'[k] = Cardinality(Counted(k)') + Cardinality(Unsettled(k)')
    BY <1>3, <1>4, <1>5, <1>8, <1>9
  <1>11. \A i \in ZoneIds \ {k} : allocated'[i] = allocated[i]
    BY <1>3
  <1>12. Active' = Active
    BY <1>3 DEF Active
  <1> QED
    BY <1>4, <1>5, <1>6, <1>10, <1>11, <1>12 DEF CountersExact

(* All other steps of a caller.                                            *)
LEMMA CountRest ==
  ASSUME HoldInv, CountersExact, NEW c \in Callers, Others(c), CallerNext(c),
         ~ AllocHit(c), ~ AllocCount(c), ~ FreeHit(c), ~ FreeUncount(c)
  PROVE  CountersExact'
  <1>1. pc \in [Callers -> {"idle", "alloc", "count", "free", "uncount", "sum"}]
    BY DEF HoldInv, ZoneInv, TypeOK
  <1>2. /\ zones' = zones /\ taken' = taken /\ allocated' = allocated
        /\ pc[c] \notin {"count", "uncount"} /\ pc'[c] \notin {"count", "uncount"}
    BY <1>1 DEF CallerNext, Alloc, AllocMiss, AllocNone, Free, FreeMiss, FreeDone,
                AllocatedMemory, SumLoad, SumDone, Return, zoneVars
  <1> QED
    BY <1>2, CountQuiet

(* The counters are exact before any zone exists.                          *)
LEMMA CountersInit == Init => CountersExact
  BY DEF Init, CountersExact, Active

(* Every step keeps the counters exact.                                    *)
LEMMA CountersNext == HoldInv /\ CountersExact /\ [Next]_vars => CountersExact'
  <1> SUFFICES ASSUME HoldInv, CountersExact, [Next]_vars PROVE CountersExact'
    OBVIOUS
  <1>1. TypeOK
    BY DEF HoldInv, ZoneInv
  <1>2. CASE UNCHANGED vars
    BY <1>2, CountAddZone DEF vars
  <1>3. CASE (\E r \in Regions : AddZone(r)) \/ AddZoneSkip \/ AddZoneFails
    BY <1>3, CountAddZone DEF AddZone, AddZoneSkip, AddZoneFails, callerVars
  <1>4. CASE AddZonePush
    BY <1>4, CountPush
  <1>5. ASSUME NEW c \in Callers, CallerNext(c) PROVE CountersExact'
    <2>1. Others(c)
      BY <1>1, <1>5, CallerFrame
    <2> QED
      BY <1>5, <2>1, CountAllocHit, CountAllocCount, CountFreeHit, CountFreeUncount, CountRest
  <1> QED
    BY <1>2, <1>3, <1>4, <1>5 DEF Next

(* The whole inductive invariant of the allocator.                         *)
LEMMA IInvInvariant == Spec => []IInv
  <1>1. Init => IInv
    BY HoldInvInit, CountersInit DEF IInv
  <1>2. IInv /\ [Next]_vars => IInv'
    BY HoldInvNext, CountersNext DEF IInv
  <1> QED
    BY <1>1, <1>2, PTL DEF Spec

(***************************************************************************)
(* fetch_sub never takes a counter below zero, however alloc and free      *)
(* overlap (zoned_buddy.rs:77-78 and 91-92).                               *)
(***************************************************************************)
THEOREM CountersNeverWrapThm == Spec => []CountersNeverWrap
  <1>1. ASSUME IInv, NEW i \in ZoneIds PROVE allocated[i] >= 0
    <2>1. CASE i \in Active
      <3>1. Cardinality(Counted(i)) \in Nat /\ Cardinality(Unsettled(i)) \in Nat
        BY <1>1, <2>1, CountedFinite DEF IInv
      <3>2. allocated[i] = Cardinality(Counted(i)) + Cardinality(Unsettled(i))
        BY <1>1, <2>1 DEF IInv, CountersExact
      <3> QED
        BY <3>1, <3>2
    <2>2. CASE i \notin Active
      BY <1>1, <2>2 DEF IInv, CountersExact
    <2> QED
      BY <2>1, <2>2
  <1>2. IInv => CountersNeverWrap
    BY <1>1 DEF CountersNeverWrap
  <1> QED
    BY <1>2, IInvInvariant, PTL

(***************************************************************************)
(* When no call is between its buddy operation and its counter operation   *)
(* in a zone, the counter is the number of blocks taken                    *)
(* (zoned_buddy.rs:76-78 and 90-92).                                       *)
(***************************************************************************)
THEOREM CountersSettleThm == Spec => []CountersSettle
  <1>1. ASSUME IInv, NEW i \in ZoneIds,
               \A c \in Callers : pc[c] \in {"count", "uncount"} => at[c] # i
        PROVE  allocated[i] = Cardinality(taken[i])
    <2>1. Counted(i) = taken[i]
      BY <1>1 DEF Counted
    <2>2. Unsettled(i) = {}
      BY <1>1 DEF Unsettled
    <2>3. Cardinality(Unsettled(i)) = 0
      BY <2>2, FS_EmptySet
    <2>4. CASE i \in Active
      <3>1. Cardinality(Counted(i)) \in Nat
        BY <1>1, <2>4, CountedFinite DEF IInv
      <3>2. allocated[i] = Cardinality(Counted(i)) + Cardinality(Unsettled(i))
        BY <1>1, <2>4 DEF IInv, CountersExact
      <3> QED
        BY <2>1, <2>3, <3>1, <3>2
    <2>5. CASE i \notin Active
      <3>1. taken[i] = {}
        BY <1>1, <2>5 DEF IInv, HoldInv, TakenInZone
      <3>2. allocated[i] = 0
        BY <1>1, <2>5 DEF IInv, CountersExact
      <3> QED
        BY <3>1, <3>2, FS_EmptySet
    <2> QED
      BY <2>4, <2>5
  <1>2. IInv => CountersSettle
    BY <1>1 DEF CountersSettle
  <1> QED
    BY <1>2, IInvInvariant, PTL

-----------------------------------------------------------------------------
(***************************************************************************)
(* Induction: a set of natural numbers that is not empty has a least one.  *)
(***************************************************************************)
LEMMA Least ==
  ASSUME NEW S \in SUBSET Nat, S # {}
  PROVE  \E n \in S : \A k \in S : n <= k
  <1>1. PICK R : R = OpToRel(<, Nat)
    OBVIOUS
  <1>2. IsWellFoundedOn(R, Nat)
    BY <1>1, NatLessThanWellFounded
  <1>3. PICK n \in S : \A k \in S : ~ (<<k, n>> \in R)
    BY <1>2, WFMin
  <1>4. R = {ss \in Nat \X Nat : ss[1] < ss[2]}
    BY <1>1 DEF OpToRel
  <1>5. \A k \in S : ~ (k < n)
    BY <1>3, <1>4
  <1> QED
    BY <1>3, <1>5

(* The fold of total_memory over the first n zones.                        *)
IsSum(g, z, n) == g = [i \in 0 .. n |-> IF i = 0 THEN 0 ELSE g[i - 1] + z[i].size]

(* Such a function exists for every number of zones.                       *)
LEMMA SumExists ==
  ASSUME NEW z, NEW n \in Nat
  PROVE  \E g : IsSum(g, z, n)
  <1> DEFINE Without == { k \in Nat : ~ \E g : IsSum(g, z, k) }
  <1>1. 0 \notin Without
    <2>1. PICK g : g = [i \in 0 .. 0 |-> 0]
      OBVIOUS
    <2>2. IsSum(g, z, 0)
      BY <2>1 DEF IsSum
    <2> QED
      BY <2>2
  <1>2. ASSUME NEW k \in Nat, NEW g, IsSum(g, z, k) PROVE \E h : IsSum(h, z, k + 1)
    <2>1. PICK h : h = [i \in 0 .. k + 1 |-> IF i <= k THEN g[i] ELSE g[k] + z[k + 1].size]
      OBVIOUS
    <2>2. \A i \in 0 .. k : g[i] = IF i = 0 THEN 0 ELSE g[i - 1] + z[i].size
      BY <1>2 DEF IsSum
    <2>3. ASSUME NEW i \in 0 .. k + 1
          PROVE  h[i] = IF i = 0 THEN 0 ELSE h[i - 1] + z[i].size
      <3>1. CASE i = 0
        BY <2>1, <2>2, <3>1
      <3>2. CASE i # 0 /\ i <= k
        <4>1. i - 1 \in 0 .. k + 1 /\ i - 1 <= k /\ i \in 0 .. k
          BY <3>2
        <4>2. h[i] = g[i] /\ h[i - 1] = g[i - 1]
          BY <2>1, <3>2, <4>1
        <4> QED
          BY <2>2, <3>2, <4>1, <4>2
      <3>3. CASE i = k + 1
        <4>1. i - 1 = k /\ k \in 0 .. k + 1 /\ ~ (i <= k) /\ i # 0
          BY <3>3
        <4>2. h[i] = g[k] + z[k + 1].size /\ h[i - 1] = g[k]
          BY <2>1, <4>1
        <4> QED
          BY <3>3, <4>1, <4>2
      <3> QED
        BY <3>1, <3>2, <3>3
    <2>4. h = [i \in 0 .. k + 1 |-> IF i = 0 THEN 0 ELSE h[i - 1] + z[i].size]
      BY <2>1, <2>3
    <2> QED
      BY <2>4 DEF IsSum
  <1>3. SUFFICES ASSUME Without # {} PROVE FALSE
    OBVIOUS
  <1>4. PICK k \in Without : \A j \in Without : k <= j
    BY <1>3, Least
  <1>5. k \in Nat /\ k # 0 /\ k - 1 \in Nat /\ k - 1 \notin Without
    BY <1>1, <1>4
  <1>6. PICK g : IsSum(g, z, k - 1)
    BY <1>5
  <1>7. \E h : IsSum(h, z, (k - 1) + 1)
    BY <1>2, <1>5, <1>6
  <1>8. (k - 1) + 1 = k
    BY <1>5
  <1> QED
    BY <1>4, <1>7, <1>8

(* TotalMemory is the last value of one.                                   *)
LEMMA TotalMemoryIs ==
  ASSUME TypeOK
  PROVE  \E g : IsSum(g, zones, Len(zones)) /\ TotalMemory = g[Len(zones)]
  <1>1. Len(zones) \in Nat
    BY DEF TypeOK
  <1>2. PICK g : g = CHOOSE f : IsSum(f, zones, Len(zones))
    OBVIOUS
  <1>3. IsSum(g, zones, Len(zones))
    BY <1>1, <1>2, SumExists
  <1>4. g = CHOOSE f : f = [i \in 0 .. Len(zones) |->
                              IF i = 0 THEN 0 ELSE f[i - 1] + zones[i].size]
    BY <1>2 DEF IsSum
  <1>5. TotalMemory = g[Len(zones)]
    BY <1>4 DEF TotalMemory
  <1> QED
    BY <1>3, <1>5

(* The blocks of the first k zones.                                        *)
First(k) == UNION { Span(zones[i].start, zones[i].size) : i \in 1 .. k }

(* The fold counts them one zone at a time, as zones do not overlap.       *)
LEMMA SumCounts ==
  ASSUME ZoneInv, NEW g, IsSum(g, zones, Len(zones)), NEW n \in 0 .. Len(zones)
  PROVE  IsFiniteSet(First(n)) /\ g[n] = Cardinality(First(n))
  <1> DEFINE P(k) == IsFiniteSet(First(k)) /\ g[k] = Cardinality(First(k))
  <1> DEFINE Wrong == { k \in 0 .. Len(zones) : ~ P(k) }
  <1>1. TypeOK /\ Len(zones) \in Nat
    BY DEF ZoneInv, TypeOK
  <1>2. \A i \in 0 .. Len(zones) : g[i] = IF i = 0 THEN 0 ELSE g[i - 1] + zones[i].size
    BY <1>1 DEF IsSum
  <1>3. P(0)
    <2>1. First(0) = {}
      BY DEF First
    <2>2. g[0] = 0
      BY <1>1, <1>2
    <2> QED
      BY <2>1, <2>2, FS_EmptySet
  <1>4. ASSUME NEW k \in 1 .. Len(zones), P(k - 1) PROVE P(k)
    <2>1. PICK s, m : s = zones[k].start /\ m = zones[k].size
      OBVIOUS
    <2>2. k \in Active /\ s \in Nat /\ m \in Nat \ {0}
      BY <1>1, <2>1, ZoneType
    <2>3. First(k) = First(k - 1) \cup Span(s, m)
      BY <1>1, <2>1 DEF First
    <2>4. ASSUME NEW i \in 1 .. k - 1
          PROVE  Span(zones[i].start, zones[i].size) \cap Span(s, m) = {}
      <3>1. i \in Active /\ i # k /\ zones[i].start \in Nat /\ zones[i].size \in Nat
        BY <1>1, ZoneType
      <3>2. Apart(zones[i].start, zones[i].size, s, m)
        BY <2>1, <2>2, <3>1 DEF ZoneInv, ZonesApart
      <3> QED
        BY <2>2, <3>1, <3>2 DEF Apart, Span
    <2>5. First(k - 1) \cap Span(s, m) = {}
      BY <2>4 DEF First
    <2>6. IsFiniteSet(Span(s, m)) /\ Cardinality(Span(s, m)) = m
      BY <2>2, SpanCardinality
    <2>7. IsFiniteSet(First(k)) /\ Cardinality(First(k)) = Cardinality(First(k - 1)) + m
      <3>1. PICK F, T : F = First(k - 1) /\ T = Span(s, m)
        OBVIOUS
      <3>2. IsFiniteSet(F) /\ IsFiniteSet(T) /\ F \cap T = {}
        BY <1>4, <2>5, <2>6, <3>1
      <3>3. IsFiniteSet(F \cup T) /\ Cardinality(F \cup T) = Cardinality(F) + Cardinality(T)
        BY <3>2, AddRun, FS_Union
      <3> QED
        BY <2>3, <2>6, <3>1, <3>3
    <2>8. g[k] = g[k - 1] + m
      BY <1>1, <1>2, <2>1
    <2> QED
      BY <1>4, <2>7, <2>8
  <1> HIDE DEF P
  <1>5. SUFFICES ASSUME Wrong # {} PROVE FALSE
    BY DEF P
  <1>6. PICK k \in Wrong : \A j \in Wrong : k <= j
    <2>1. Wrong \in SUBSET Nat
      BY <1>1
    <2> QED
      BY <1>5, <2>1, Least
  <1>7. k \in 1 .. Len(zones) /\ P(k - 1)
    BY <1>1, <1>3, <1>6
  <1> QED
    BY <1>4, <1>6, <1>7

(***************************************************************************)
(* total_memory counts every managed block once, while add_zone cuts a     *)
(* region into zones and whatever is allocated (zoned_buddy.rs:97-104).    *)
(***************************************************************************)
THEOREM TotalIsManagedThm == Spec => []TotalIsManaged
  <1>1. ASSUME HoldInv PROVE TotalIsManaged
    <2>1. ZoneInv /\ TypeOK /\ Len(zones) \in Nat
      BY <1>1 DEF HoldInv, ZoneInv, TypeOK
    <2>2. PICK g : IsSum(g, zones, Len(zones)) /\ TotalMemory = g[Len(zones)]
      BY <2>1, TotalMemoryIs
    <2>3. g[Len(zones)] = Cardinality(First(Len(zones)))
      BY <2>1, <2>2, SumCounts
    <2>4. First(Len(zones)) = Managed
      BY DEF First, Managed, Active
    <2> QED
      BY <2>2, <2>3, <2>4 DEF TotalIsManaged
  <1> QED
    BY <1>1, HoldInvInvariant, PTL
=============================================================================
