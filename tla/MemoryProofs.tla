---------------------------- MODULE MemoryProofs ----------------------------
(***************************************************************************)
(* TLAPS proofs about BootMemory, for pages and words of any size and all  *)
(* memory maps, and about FormatSize: what memory the kernel manages, and  *)
(* how an amount of memory is printed.                                     *)
(***************************************************************************)
EXTENDS BootMemory, FormatSize, FiniteSetTheorems, SequenceTheorems, WellFoundedInduction, TLAPS

-----------------------------------------------------------------------------
(***************************************************************************)
(* Whole pages.                                                            *)
(***************************************************************************)

(* Multiples are ordered as their factors are.                             *)
LEMMA Multiples ==
  ASSUME NEW p \in Nat \ {0}, NEW a \in Int, NEW b \in Int
  PROVE  /\ a * p \in Int /\ b * p \in Int
         /\ a < b <=> a * p < b * p
         /\ a <= b <=> a * p <= b * p
         /\ a < b => a * p + p <= b * p
  <1>1. a * p \in Int /\ b * p \in Int
    OBVIOUS
  <1>2. ASSUME NEW c \in Int, NEW d \in Int, c < d PROVE c * p + p <= d * p
    <2>1. d - c - 1 \in Nat
      BY <1>2
    <2>2. (d - c - 1) * p \in Nat
      BY <2>1
    <2>3. d * p = (d - c - 1) * p + c * p + p
      OBVIOUS
    <2>4. c * p \in Int /\ d * p \in Int
      OBVIOUS
    <2> QED
      BY <2>2, <2>3, <2>4
  <1> QED
    BY <1>1, <1>2

(* Division with remainder.                                                *)
LEMMA Remainder ==
  ASSUME NEW p \in Nat \ {0}, NEW x \in Nat
  PROVE  /\ x % p \in 0 .. p - 1
         /\ \E q \in Nat : q * p \in Nat /\ x = q * p + (x % p)
  <1>1. PICK q, m : q = x \div p /\ m = x % p
    OBVIOUS
  <1>2. q \in Nat /\ m \in 0 .. p - 1 /\ x = p * q + m
    BY <1>1
  <1>3. p * q = q * p /\ q * p \in Nat
    BY <1>2
  <1> QED
    BY <1>1, <1>2, <1>3

(* A number without remainder is a multiple, and the other way round.      *)
LEMMA Aligned ==
  ASSUME NEW p \in Nat \ {0}, NEW x \in Nat
  PROVE  x % p = 0 <=> \E q \in Nat : x = q * p
  <1>1. PICK m : m = x % p
    OBVIOUS
  <1>2. PICK k \in Nat : k * p \in Nat /\ x = k * p + m
    BY <1>1, Remainder
  <1>3. m \in 0 .. p - 1
    BY <1>1, Remainder
  <1>4. m = 0 => x = k * p
    BY <1>2
  <1>5. ASSUME NEW q \in Nat, x = q * p PROVE m = 0
    <2>1. ~ (k < q)
      BY <1>2, <1>3, <1>5, Multiples
    <2>2. ~ (q < k)
      BY <1>2, <1>3, <1>5, Multiples
    <2>3. q = k
      BY <2>1, <2>2
    <2> QED
      BY <1>2, <1>3, <1>5, <2>3
  <1> QED
    BY <1>1, <1>4, <1>5

(* Sums and differences of whole pages; and pages are a page apart.        *)
LEMMA AlignedSum ==
  ASSUME NEW p \in Nat \ {0}, NEW x \in Nat, NEW y \in Nat, x % p = 0, y % p = 0
  PROVE  /\ (x + y) % p = 0
         /\ y <= x => (x - y) % p = 0
         /\ x < y => x + p <= y
  <1>1. PICK a \in Nat : x = a * p
    BY Aligned
  <1>2. PICK b \in Nat : y = b * p
    BY Aligned
  <1>3. x + y = (a + b) * p /\ x - y = (a - b) * p
    BY <1>1, <1>2
  <1>4. (x + y) % p = 0
    <2>1. a + b \in Nat /\ x + y \in Nat
      OBVIOUS
    <2> QED
      BY <1>3, <2>1, Aligned
  <1>5. ASSUME y <= x PROVE (x - y) % p = 0
    <2>1. b <= a
      BY <1>1, <1>2, <1>5, Multiples
    <2>2. a - b \in Nat /\ x - y \in Nat
      BY <1>5, <2>1
    <2> QED
      BY <1>3, <2>2, Aligned
  <1>6. ASSUME x < y PROVE x + p <= y
    <2>1. a < b
      BY <1>1, <1>2, <1>6, Multiples
    <2> QED
      BY <1>1, <1>2, <2>1, Multiples
  <1> QED
    BY <1>4, <1>5, <1>6

(* align_down_4k.                                                          *)
LEMMA AlignDownIs ==
  ASSUME NEW x \in Nat
  PROVE  /\ AlignDown(x) \in Nat /\ AlignDown(x) % PAGE = 0
         /\ AlignDown(x) <= x /\ x < AlignDown(x) + PAGE
  <1>1. PICK p : p = PAGE
    OBVIOUS
  <1>2. p \in Nat \ {0}
    BY <1>1, BootMemoryAssumption
  <1>3. PICK q \in Nat : q * p \in Nat /\ x = q * p + (x % p)
    BY <1>2, Remainder
  <1>4. x % p \in 0 .. p - 1
    BY <1>2, Remainder
  <1>5. AlignDown(x) = q * p
    BY <1>1, <1>3, <1>4 DEF AlignDown
  <1>6. (q * p) % p = 0
    BY <1>2, <1>3, Aligned
  <1> QED
    BY <1>1, <1>2, <1>3, <1>4, <1>5, <1>6

(* align_up_4k.                                                            *)
LEMMA AlignUpIs ==
  ASSUME NEW x \in Nat
  PROVE  /\ AlignUp(x) \in Nat /\ AlignUp(x) % PAGE = 0
         /\ x <= AlignUp(x) /\ AlignUp(x) <= x + PAGE - 1
  <1>1. PAGE \in Nat \ {0}
    BY BootMemoryAssumption
  <1>2. PICK y : y = x + PAGE - 1
    OBVIOUS
  <1>3. y \in Nat
    BY <1>1, <1>2
  <1>4. AlignUp(x) = AlignDown(y)
    BY <1>2 DEF AlignUp
  <1>5. PICK d : d = AlignDown(y)
    OBVIOUS
  <1>6. d \in Nat /\ d % PAGE = 0 /\ d <= y /\ y < d + PAGE
    BY <1>3, <1>5, AlignDownIs
  <1> QED
    BY <1>1, <1>2, <1>4, <1>5, <1>6

(* A whole page is not rounded, so rounding does not pass it.              *)
LEMMA AlignUpLeast ==
  ASSUME NEW x \in Nat, NEW y \in Nat, y % PAGE = 0, x <= y
  PROVE  AlignUp(x) <= y
  <1>1. PICK u : u = AlignUp(x)
    OBVIOUS
  <1>2. u \in Nat /\ u % PAGE = 0 /\ u <= x + PAGE - 1 /\ PAGE \in Nat \ {0}
    BY <1>1, AlignUpIs, BootMemoryAssumption
  <1>3. y < u => y + PAGE <= u
    BY <1>2, AlignedSum
  <1> QED
    BY <1>1, <1>2, <1>3

-----------------------------------------------------------------------------
(***************************************************************************)
(* The bits of a size.  As long as the bit is worth less than a page, the  *)
(* page is a multiple of it.                                               *)
(***************************************************************************)
Scaled(n) == (\E q \in Nat : n = q * PAGE) \/ (\E q \in Nat : PAGE = q * n)

(* A divisor of a page is even or 1.                                       *)
LEMMA PageDivisor ==
  ASSUME NEW n \in Nat \ {0}, NEW q \in Nat, PAGE = q * n
  PROVE  q # 0 /\ (q % 2 = 0 \/ q = 1)
  <1>1. PICK p : p = PAGE
    OBVIOUS
  <1>2. p \in Nat \ {0} /\ p = q * n /\ \A d \in 1 .. p : p % d = 0 /\ d % 2 = 1 => d = 1
    BY <1>1, BootMemoryAssumption DEF PowerOfTwo
  <1>3. q # 0
    <2>1. 0 * n = 0
      OBVIOUS
    <2> QED
      BY <1>2, <2>1
  <1>4. p = n * q
    BY <1>2
  <1>5. p % q = 0
    BY <1>2, <1>3, <1>4, Aligned
  <1>6. q <= p
    <2>1. 1 * q <= n * q
      BY <1>3, Multiples
    <2> QED
      BY <1>4, <2>1
  <1>7. q \in 1 .. p
    BY <1>2, <1>3, <1>6
  <1>8. q % 2 = 1 => q = 1
    BY <1>2, <1>5, <1>7
  <1> QED
    BY <1>3, <1>8

(* The next bit.                                                           *)
LEMMA ScaledNext ==
  ASSUME NEW n \in Nat \ {0}, Scaled(n)
  PROVE  Scaled(2 * n)
  <1>1. PAGE \in Nat \ {0}
    BY BootMemoryAssumption
  <1>2. ASSUME NEW q \in Nat, n = q * PAGE PROVE Scaled(2 * n)
    <2>1. 2 * n = (2 * q) * PAGE
      BY <1>1, <1>2
    <2>2. 2 * q \in Nat
      OBVIOUS
    <2> QED
      BY <2>1, <2>2 DEF Scaled
  <1>3. ASSUME NEW q \in Nat, PAGE = q * n PROVE Scaled(2 * n)
    <2>1. q % 2 = 0 \/ q = 1
      BY <1>3, PageDivisor
    <2>2. CASE q = 1
      <3>1. 2 * n = 2 * PAGE
        BY <1>3, <2>2
      <3> QED
        BY <3>1 DEF Scaled
    <2>3. CASE q % 2 = 0
      <3>1. PICK k \in Nat : q = 2 * k
        BY <2>3
      <3>2. PAGE = k * (2 * n)
        BY <1>3, <3>1
      <3> QED
        BY <3>2 DEF Scaled
    <2> QED
      BY <2>1, <2>2, <2>3
  <1> QED
    BY <1>2, <1>3 DEF Scaled

(* A set bit of a size in whole pages is a whole number of pages.          *)
LEMMA ScaledOdd ==
  ASSUME NEW n \in Nat \ {0}, Scaled(n), NEW r \in Nat, r % 2 = 1, (r * n) % PAGE = 0
  PROVE  n % PAGE = 0
  <1>1. PAGE \in Nat \ {0} /\ r * n \in Nat
    BY BootMemoryAssumption
  <1>2. ASSUME NEW q \in Nat, n = q * PAGE PROVE n % PAGE = 0
    BY <1>1, <1>2, Aligned
  <1>3. ASSUME NEW q \in Nat, PAGE = q * n PROVE n % PAGE = 0
    <2>1. PICK m \in Nat : r * n = m * PAGE
      BY <1>1, Aligned
    <2>2. r * n = (m * q) * n /\ m * q \in Nat
      BY <1>3, <2>1
    <2>3. r = m * q
      BY <2>2, Multiples
    <2>4. q % 2 = 0 \/ q = 1
      BY <1>3, PageDivisor
    <2>5. q % 2 # 0
      <3>1. SUFFICES ASSUME q % 2 = 0 PROVE FALSE
        OBVIOUS
      <3>2. PICK k \in Nat : q = 2 * k
        BY <3>1
      <3>3. r = 2 * (m * k) /\ m * k \in Nat
        BY <2>3, <3>2
      <3> QED
        BY <3>3
    <2>6. n = 1 * PAGE
      BY <1>1, <1>3, <2>4, <2>5
    <2> QED
      BY <1>1, <2>6, Aligned
  <1> QED
    BY <1>2, <1>3 DEF Scaled

-----------------------------------------------------------------------------
(***************************************************************************)
(* The inductive invariant of BootMemory.                                  *)
(***************************************************************************)

(* What is made of an area: Start and End are those of the one at hand.    *)
StartOf(a) ==
  AlignUp(IF Truncate(a.start) > KernelEnd THEN Truncate(a.start) ELSE KernelEnd)

EndOf(a) == Truncate(a.end)

(* How far add_zone is: what is left begins at a page, and the bit is      *)
(* in proportion to a page.                                                *)
Adding ==
  pc = "add_zone" =>
    /\ next <= Len(map) /\ Area.available /\ Worth
    /\ Start <= adding.start /\ adding.start % PAGE = 0
    /\ adding.start + adding.rest * adding.size_p2 = Start + Size
    /\ Scaled(adding.size_p2)

(* Every zone comes from an area the loop has reached, and from the part   *)
(* of it that add_zone has passed.                                         *)
Home(z, j) ==
  /\ map[j].available /\ StartOf(map[j]) <= z.start /\ z.end <= EndOf(map[j])
  /\ j <= next
  /\ j = next => pc = "panic" \/ (pc = "add_zone" /\ z.end <= adding.start)

Homes == \A i \in 1 .. Len(zones) : \E j \in 1 .. Len(map) : Home(zones[i], j)

WholeZones ==
  \A i \in 1 .. Len(zones) :
    zones[i].start % PAGE = 0 /\ zones[i].end % PAGE = 0 /\ zones[i].start < zones[i].end

(* Every area ends within what an address can name.                        *)
Addressable == \A a \in Areas : a.end <= WORD

ZonesApart ==
  Addressable => \A i, j \in 1 .. Len(zones) : i # j => Apart(zones[i], zones[j])

(* What the loop has passed is in a zone, or a loss has been reported.     *)
Covers(p) == \E i \in 1 .. Len(zones) : zones[i].start <= p /\ p < zones[i].end

PassedAreas ==
  ~ missed /\ pc # "panic" =>
    \A j \in 1 .. Len(map) : j < next /\ map[j].available /\ map[j].end < WORD =>
      \A p \in WholePages(map[j]) : Covers(p)

PassedPieces == pc = "add_zone" => \A p \in Nat : Start <= p /\ p < adding.start => Covers(p)

Done == pc = "done" => next > Len(map)

Inv ==
  /\ TypeOK /\ Adding /\ Homes /\ WholeZones /\ ZonesApart
  /\ PassedAreas /\ PassedPieces /\ Done

-----------------------------------------------------------------------------
(* The constants.                                                          *)
LEMMA Sizes ==
  /\ PAGE \in Nat \ {0} /\ WORD \in Nat \ {0} /\ KernelEnd \in Nat \ {0}
  BY BootMemoryAssumption

(* A memory map is a sequence of areas that do not overlap.                *)
LEMMA MapIs ==
  ASSUME map \in Maps
  PROVE  /\ Len(map) \in Nat /\ DOMAIN map = 1 .. Len(map)
         /\ \A j \in 1 .. Len(map) : map[j] \in Areas
         /\ \A j, k \in 1 .. Len(map) : j # k => Apart(map[j], map[k])
  <1>1. PICK n \in 0 .. MaxAreas : map \in [1 .. n -> Areas]
    BY DEF Maps
  <1>2. n \in Nat
    BY <1>1, BootMemoryAssumption
  <1>3. map \in Seq(Areas) /\ Len(map) = n
    BY <1>1, <1>2
  <1>4. \A j, k \in DOMAIN map : j # k => Apart(map[j], map[k])
    BY DEF Maps
  <1> QED
    BY <1>1, <1>2, <1>3, <1>4

(* A zone of the vector.                                                   *)
LEMMA ZoneIs ==
  ASSUME TypeOK
  PROVE  /\ Len(zones) \in Nat
         /\ \A i \in 1 .. Len(zones) :
              zones[i].start \in 0 .. WORD - 1 /\ zones[i].end \in 1 .. WORD - 1
         /\ DOMAIN zones = 1 .. Len(zones)
         /\ Range(zones) = { zones[i] : i \in 1 .. Len(zones) }
  <1>1. zones \in Seq([start : 0 .. WORD - 1, end : 1 .. WORD - 1])
    BY DEF TypeOK
  <1>2. Len(zones) \in Nat /\ DOMAIN zones = 1 .. Len(zones)
    BY <1>1
  <1>3. \A i \in 1 .. Len(zones) : zones[i] \in [start : 0 .. WORD - 1, end : 1 .. WORD - 1]
    BY <1>1, ElementOfSeq
  <1> QED
    BY <1>2, <1>3 DEF Range

(* The bounds made of an area.                                             *)
LEMMA AreaIs ==
  ASSUME NEW a \in Areas
  PROVE  /\ a.start \in Nat /\ a.end \in Nat /\ a.start < a.end
         /\ Truncate(a.start) \in 0 .. WORD - 1
         /\ StartOf(a) \in Nat /\ StartOf(a) % PAGE = 0
         /\ Truncate(a.start) <= StartOf(a) /\ KernelEnd <= StartOf(a)
         /\ EndOf(a) \in 0 .. WORD - 1
  <1>1. a.start \in Nat /\ a.end \in Nat /\ a.start < a.end
    BY BootMemoryAssumption
  <1>2. Truncate(a.start) \in 0 .. WORD - 1 /\ EndOf(a) \in 0 .. WORD - 1
    BY <1>1, Sizes, Remainder DEF Truncate, EndOf
  <1>3. PICK t, r : /\ t = Truncate(a.start)
                    /\ r = IF t > KernelEnd THEN t ELSE KernelEnd
    OBVIOUS
  <1>4. r \in Nat /\ t <= r /\ KernelEnd <= r
    BY <1>2, <1>3, Sizes
  <1>5. StartOf(a) = AlignUp(r)
    BY <1>3 DEF StartOf
  <1>6. AlignUp(r) \in Nat /\ AlignUp(r) % PAGE = 0 /\ r <= AlignUp(r)
    BY <1>4, AlignUpIs
  <1> QED
    BY <1>1, <1>2, <1>3, <1>4, <1>5, <1>6, Sizes

(* An area at low addresses is not truncated.                              *)
LEMMA AreaLow ==
  ASSUME NEW a \in Areas
  PROVE  /\ a.end < WORD => EndOf(a) = a.end
         /\ a.end <= WORD => EndOf(a) <= a.end /\ Truncate(a.start) = a.start
  <1>1. a.start \in Nat /\ a.end \in Nat /\ a.start < a.end /\ WORD \in Nat \ {0}
    BY AreaIs, Sizes
  <1>2. ASSUME NEW x \in Nat, NEW w \in Nat \ {0}, x < w PROVE x % w = x
    BY <1>2
  <1>3. EndOf(a) <= WORD - 1 /\ EndOf(a) \in Nat
    BY <1>1, AreaIs
  <1>4. a.end < WORD => EndOf(a) = a.end
    BY <1>1, <1>2 DEF EndOf, Truncate
  <1>5. a.end <= WORD => Truncate(a.start) = a.start
    BY <1>1, <1>2 DEF Truncate
  <1>6. a.end = WORD => EndOf(a) <= a.end
    BY <1>1, <1>3
  <1> QED
    BY <1>1, <1>4, <1>5, <1>6

(* The area the loop is at.                                                *)
LEMMA AtArea ==
  ASSUME TypeOK, next <= Len(map)
  PROVE  /\ next \in 1 .. Len(map) /\ Area \in Areas /\ Area = map[next]
         /\ Start = StartOf(Area) /\ End = EndOf(Area)
         /\ Start \in Nat /\ Start % PAGE = 0 /\ End \in 0 .. WORD - 1
         /\ Worth => /\ Size \in 0 .. WORD - 1 /\ Size % PAGE = 0
                     /\ Start + Size <= End /\ End < Start + Size + PAGE
  <1>1. Len(map) \in Nat /\ next \in 1 .. Len(map) /\ \A j \in 1 .. Len(map) : map[j] \in Areas
    BY MapIs DEF TypeOK
  <1>2. Area \in Areas /\ Area = map[next]
    BY <1>1 DEF Area
  <1>3. Start = StartOf(Area) /\ End = EndOf(Area)
    BY DEF Start, End, StartOf, EndOf, RawStart
  <1>4. Start \in Nat /\ Start % PAGE = 0 /\ End \in 0 .. WORD - 1
    BY <1>2, <1>3, AreaIs
  <1>5. ASSUME Worth
        PROVE  /\ Size \in 0 .. WORD - 1 /\ Size % PAGE = 0
               /\ Start + Size <= End /\ End < Start + Size + PAGE
    <2>1. PICK x, d : x = End - Start /\ d = AlignDown(x)
      OBVIOUS
    <2>2. x \in Nat /\ Size = d
      BY <1>4, <1>5, <2>1, Sizes DEF Worth, Size
    <2>3. d \in Nat /\ d % PAGE = 0 /\ d <= x /\ x < d + PAGE
      BY <2>1, <2>2, AlignDownIs
    <2> QED
      BY <1>4, <2>1, <2>2, <2>3, Sizes
  <1> QED
    BY <1>1, <1>2, <1>3, <1>4, <1>5

(* What is left of a size when a bit is 0.                                 *)
LEMMA ShiftEven ==
  ASSUME NEW n \in Nat, NEW p \in Nat, n % 2 = 0
  PROVE  n \div 2 \in Nat /\ n \div 2 <= n /\ (n \div 2) * (2 * p) = n * p
  <1>1. PICK q \in Nat : q = n \div 2 /\ n = 2 * q
    OBVIOUS
  <1> QED
    BY <1>1

(* And when it is 1.                                                       *)
LEMMA ShiftOdd ==
  ASSUME NEW n \in Nat, NEW p \in Nat, n % 2 = 1
  PROVE  n \div 2 \in Nat /\ n \div 2 <= n /\ p + ((n \div 2) * (2 * p)) = n * p
  <1>1. PICK q \in Nat : q = n \div 2 /\ n = (2 * q) + 1
    OBVIOUS
  <1> QED
    BY <1>1

(* The piece of the bit add_zone is at.                                    *)
LEMMA PieceIs ==
  ASSUME Inv, Piece, NEW s, NEW n, s = adding.start, n = adding.size_p2
  PROVE  /\ s \in Nat /\ n \in Nat \ {0} /\ s + n \in 0 .. WORD - 1
         /\ Start <= s /\ s + n <= End
         /\ s % PAGE = 0 /\ n % PAGE = 0 /\ (s + n) % PAGE = 0
         /\ (s + n) + (adding.rest \div 2) * (2 * n) = Start + Size
  <1>1. /\ next <= Len(map) /\ Worth /\ TypeOK /\ Start <= s /\ s % PAGE = 0 /\ Scaled(n)
        /\ s + adding.rest * n = Start + Size
    BY DEF Inv, Adding, Piece
  <1>2. s \in Nat /\ n \in Nat \ {0} /\ adding.rest \in Nat /\ adding.rest % 2 = 1
    BY <1>1, Sizes DEF TypeOK, Piece
  <1>3. /\ Start \in Nat /\ Start % PAGE = 0 /\ End \in 0 .. WORD - 1
        /\ Size \in Nat /\ Size % PAGE = 0 /\ Start + Size <= End
    BY <1>1, AtArea, Sizes
  <1>4. PICK r : r = adding.rest
    OBVIOUS
  <1>5. r \in Nat /\ r % 2 = 1 /\ r * n \in Nat /\ r * n = (Start + Size) - s
    BY <1>1, <1>2, <1>3, <1>4
  <1>6. (r * n) % PAGE = 0
    <2>1. (Start + Size) % PAGE = 0 /\ Start + Size \in Nat
      <3>1. PICK a, b : a = Start /\ b = Size
        OBVIOUS
      <3>2. (a + b) % PAGE = 0
        BY <1>3, <3>1, Sizes, AlignedSum
      <3> QED
        BY <1>3, <3>1, <3>2
    <2>2. s <= Start + Size
      BY <1>2, <1>3, <1>5
    <2> QED
      BY <1>1, <1>2, <1>5, <2>1, <2>2, Sizes, AlignedSum
  <1>7. n % PAGE = 0
    BY <1>1, <1>2, <1>5, <1>6, ScaledOdd
  <1>8. r \div 2 \in Nat /\ n + ((r \div 2) * (2 * n)) = r * n
    BY <1>2, <1>5, ShiftOdd
  <1>9. (r \div 2) * (2 * n) \in Nat
    BY <1>2, <1>8
  <1>10. (s + n) % PAGE = 0
    BY <1>1, <1>2, <1>7, Sizes, AlignedSum
  <1>11. (s + n) + (r \div 2) * (2 * n) = Start + Size /\ s + n <= Start + Size
    <2>1. PICK m : m = (r \div 2) * (2 * n)
      OBVIOUS
    <2>2. m \in Nat /\ n + m = (Start + Size) - s
      BY <1>5, <1>8, <1>9, <2>1
    <2>3. (s + n) + m = Start + Size /\ s + n <= Start + Size
      BY <1>2, <1>3, <2>2
    <2> QED
      BY <2>1, <2>3
  <1>12. s + n \in 0 .. WORD - 1 /\ s + n <= End
    BY <1>2, <1>3, <1>11, Sizes
  <1> QED
    BY <1>1, <1>2, <1>4, <1>7, <1>10, <1>11, <1>12

-----------------------------------------------------------------------------
(***************************************************************************)
(* The steps.                                                              *)
(***************************************************************************)

(* Initially there is no zone and the loop is at the first area.           *)
LEMMA InvInit == Init => Inv
  <1> SUFFICES ASSUME Init PROVE Inv
    OBVIOUS
  <1>1. /\ map \in Maps /\ next = 1 /\ zones = << >> /\ missed = FALSE /\ pc = "loop"
        /\ adding = [start |-> 0, rest |-> 0, size_p2 |-> 1]
    BY DEF Init
  <1>2. Len(map) \in Nat /\ Len(zones) = 0
    BY <1>1, MapIs
  <1>3. TypeOK
    <2>1. 0 \in 0 .. WORD - 1 /\ 1 \in Nat \ {0} /\ 1 \in 1 .. Len(map) + 1
      BY <1>2, Sizes
    <2>2. << >> \in Seq([start : 0 .. WORD - 1, end : 1 .. WORD - 1])
      OBVIOUS
    <2> QED
      BY <1>1, <2>1, <2>2 DEF TypeOK
  <1> QED
    BY <1>1, <1>2, <1>3
    DEF Inv, Adding, Homes, WholeZones, ZonesApart, PassedAreas, PassedPieces, Done

(* As long as the loop stays at an area, its bounds do.                    *)
LEMMA SameArea ==
  ASSUME map' = map, next' = next
  PROVE  /\ Area' = Area /\ Start' = Start /\ End' = End /\ Size' = Size
         /\ Worth' = Worth
  BY DEF Area, Start, End, Size, Worth, RawStart

(* The vector after a push.                                                *)
LEMMA PushIs ==
  ASSUME Inv, AddZonePush, NEW s, NEW n, s = adding.start, n = adding.size_p2
  PROVE  /\ Len(zones) \in Nat /\ Len(zones)' = Len(zones) + 1
         /\ \A i \in 1 .. Len(zones) : zones'[i] = zones[i]
         /\ zones'[Len(zones) + 1] = [start |-> s, end |-> s + n]
         /\ zones' \in Seq([start : 0 .. WORD - 1, end : 1 .. WORD - 1])
  <1>1. zones \in Seq([start : 0 .. WORD - 1, end : 1 .. WORD - 1])
    BY DEF Inv, TypeOK
  <1>2. zones' = Append(zones, [start |-> s, end |-> s + n])
    BY DEF AddZonePush
  <1>3. s \in Nat /\ n \in Nat \ {0} /\ s + n \in 0 .. WORD - 1
    BY PieceIs DEF AddZonePush
  <1>4. [start |-> s, end |-> s + n] \in [start : 0 .. WORD - 1, end : 1 .. WORD - 1]
    BY <1>3, Sizes
  <1> QED
    BY <1>1, <1>2, <1>4, AppendProperties

(* Types: no bound leaves the word.                                        *)
LEMMA TypeStep ==
  ASSUME Inv, [Next]_vars
  PROVE  TypeOK'
  <1>1. /\ map \in Maps /\ next \in 1 .. Len(map) + 1 /\ Len(map) \in Nat
        /\ adding \in [start : 0 .. WORD - 1, rest : 0 .. WORD - 1, size_p2 : Nat \ {0}]
        /\ zones \in Seq([start : 0 .. WORD - 1, end : 1 .. WORD - 1])
        /\ missed \in BOOLEAN /\ pc \in {"loop", "add_zone", "done", "panic"}
    BY MapIs DEF Inv, TypeOK
  <1>2. ASSUME Continue, next <= Len(map), missed' \in BOOLEAN PROVE TypeOK'
    <2>1. next' \in 1 .. Len(map) + 1
      BY <1>1, <1>2 DEF Continue
    <2> QED
      BY <1>1, <1>2, <2>1 DEF TypeOK, Continue
  <1>3. pc = "add_zone" => next <= Len(map)
    BY DEF Inv, Adding
  <1>4. CASE SkipReserved \/ SkipEmpty
    BY <1>1, <1>2, <1>4 DEF SkipReserved, SkipEmpty, Usable, InLoop
  <1>5. CASE AddZoneFails \/ AddZoneDone
    BY <1>1, <1>2, <1>3, <1>5 DEF AddZoneFails, AddZoneDone, Piece
  <1>6. CASE StartPanics \/ HeapPanics \/ Finish
    BY <1>1, <1>6 DEF StartPanics, HeapPanics, Finish, TypeOK
  <1>7. CASE AddZone
    <2>1. Start \in 0 .. WORD - 1 /\ Size \in 0 .. WORD - 1
      BY <1>7, AtArea, Sizes DEF AddZone, Usable, InLoop, Inv, Worth
    <2> QED
      BY <1>1, <1>7, <2>1 DEF AddZone, TypeOK
  <1>8. CASE AddZoneSkip
    <2>1. adding.rest \div 2 \in 0 .. WORD - 1
      BY <1>1, <1>8, ShiftEven, Sizes DEF AddZoneSkip
    <2> QED
      BY <1>1, <1>8, <2>1 DEF AddZoneSkip, NextBit, TypeOK
  <1>9. CASE AddZonePush
    <2>1. adding.rest \div 2 \in 0 .. WORD - 1
      BY <1>1, <1>9, ShiftOdd, Sizes DEF AddZonePush, Piece
    <2>2. adding.start + adding.size_p2 \in 0 .. WORD - 1
      BY <1>9, PieceIs DEF AddZonePush
    <2>3. zones' \in Seq([start : 0 .. WORD - 1, end : 1 .. WORD - 1])
      BY <1>9, PushIs
    <2> QED
      BY <1>1, <1>9, <2>1, <2>2, <2>3 DEF AddZonePush, NextBit, NextStart, TypeOK
  <1>10. CASE UNCHANGED vars
    BY <1>1, <1>10 DEF vars, TypeOK
  <1> QED
    BY <1>4, <1>5, <1>6, <1>7, <1>8, <1>9, <1>10 DEF Next

(* The bits add_zone goes through.                                         *)
LEMMA AddingStep ==
  ASSUME Inv, [Next]_vars
  PROVE  Adding'
  <1>1. TypeOK /\ Adding
    BY DEF Inv
  <1>2. CASE pc' # "add_zone"
    BY <1>2 DEF Adding
  <1>3. CASE AddZone
    <2>1. /\ next <= Len(map) /\ Area.available /\ Worth /\ map' = map /\ next' = next
          /\ adding' = [start |-> Start, rest |-> Size, size_p2 |-> 1]
      BY <1>3 DEF AddZone, Usable, InLoop
    <2>2. Start \in Nat /\ Start % PAGE = 0 /\ Size \in Nat
      BY <1>1, <2>1, AtArea, Sizes
    <2>3. Start + Size * 1 = Start + Size /\ PAGE = PAGE * 1
      BY <2>2, Sizes
    <2>4. Scaled(1)
      BY <2>3, Sizes DEF Scaled
    <2> QED
      BY <2>1, <2>2, <2>3, <2>4, SameArea DEF Adding, Scaled
  <1>4. CASE AddZoneSkip
    <2>1. PICK s, r, n : s = adding.start /\ r = adding.rest /\ n = adding.size_p2
      OBVIOUS
    <2>2. /\ pc = "add_zone" /\ r % 2 = 0 /\ map' = map /\ next' = next
          /\ adding' = [start |-> s, rest |-> r \div 2, size_p2 |-> 2 * n]
      BY <1>4, <2>1 DEF AddZoneSkip, NextBit
    <2>3. /\ next <= Len(map) /\ Area.available /\ Worth /\ Start <= s /\ s % PAGE = 0
          /\ s + r * n = Start + Size /\ Scaled(n)
      BY <1>1, <2>1, <2>2 DEF Adding
    <2>4. s \in Nat /\ r \in Nat /\ n \in Nat \ {0}
      BY <1>1, <2>1, Sizes DEF TypeOK
    <2>5. (r \div 2) * (2 * n) = r * n /\ Scaled(2 * n)
      BY <2>2, <2>3, <2>4, ShiftEven, ScaledNext
    <2> QED
      BY <2>2, <2>3, <2>5, SameArea DEF Adding, Scaled
  <1>5. CASE AddZonePush
    <2>1. PICK s, r, n : s = adding.start /\ r = adding.rest /\ n = adding.size_p2
      OBVIOUS
    <2>2. /\ pc = "add_zone" /\ Piece /\ map' = map /\ next' = next
          /\ adding' = [start |-> s + n, rest |-> r \div 2, size_p2 |-> 2 * n]
      BY <1>5, <2>1 DEF AddZonePush, NextBit, NextStart, Piece
    <2>3. next <= Len(map) /\ Area.available /\ Worth /\ Scaled(n)
      BY <1>1, <2>1, <2>2 DEF Adding
    <2>4. /\ s \in Nat /\ n \in Nat \ {0} /\ Start <= s /\ (s + n) % PAGE = 0
          /\ (s + n) + (r \div 2) * (2 * n) = Start + Size
      BY <2>1, <2>2, PieceIs
    <2>5. Start <= s + n
      <3>1. Start \in Nat
        BY <1>1, <2>3, AtArea
      <3> QED
        BY <2>4, <3>1
    <2>6. Scaled(2 * n)
      BY <2>3, <2>4, ScaledNext
    <2> QED
      BY <2>2, <2>3, <2>4, <2>5, <2>6, SameArea DEF Adding, Scaled
  <1>6. CASE UNCHANGED vars
    BY <1>1, <1>6, SameArea DEF vars, Adding, Scaled
  <1> QED
    BY <1>2, <1>3, <1>4, <1>5, <1>6
    DEF Next, SkipReserved, SkipEmpty, StartPanics, AddZoneFails, HeapPanics, AddZoneDone,
        Finish, Continue

(* What a step that pushes nothing does.                                   *)
LEMMA Quiet ==
  ASSUME Inv, [Next]_vars, ~ AddZonePush
  PROVE  /\ map' = map /\ zones' = zones /\ Len(zones)' = Len(zones)
         /\ \/ next' = next /\ pc' = pc /\ adding'.start = adding.start
            \/ next' = next + 1 /\ pc' = "loop" /\ next <= Len(map)
            \/ next' = next /\ (pc' = "panic" \/ (pc' = "done" /\ pc = "loop"))
            \/ next' = next /\ pc = "loop" /\ pc' = "add_zone"
  <1>1. pc = "add_zone" => next <= Len(map)
    BY DEF Inv, Adding
  <1>2. map' = map /\ zones' = zones
    BY DEF Next, vars, SkipReserved, SkipEmpty, StartPanics, AddZone, AddZoneSkip, AddZoneFails,
           HeapPanics, AddZoneDone, Finish, Continue
  <1> QED
    BY <1>1, <1>2
    DEF Next, vars, SkipReserved, SkipEmpty, StartPanics, AddZone, AddZoneSkip, AddZoneFails,
        HeapPanics, AddZoneDone, Finish, Continue, NextBit, Usable, InLoop, Piece

(* Zones stay in their areas.                                              *)
LEMMA HomesStep ==
  ASSUME Inv, [Next]_vars
  PROVE  Homes'
  <1>1. TypeOK /\ Homes /\ Len(map) \in Nat /\ next \in Nat /\ Len(zones) \in Nat
    BY MapIs, ZoneIs DEF Inv, TypeOK
  <1>2. CASE ~ AddZonePush
    <2>1. /\ map' = map /\ zones' = zones
          /\ \/ next' = next /\ pc' = pc /\ adding'.start = adding.start
             \/ next' = next + 1 /\ pc' = "loop"
             \/ next' = next /\ (pc' = "panic" \/ (pc' = "done" /\ pc = "loop"))
             \/ next' = next /\ pc = "loop" /\ pc' = "add_zone"
      BY <1>2, Quiet
    <2>2. ASSUME NEW i \in 1 .. Len(zones), NEW j \in 1 .. Len(map), Home(zones[i], j)
          PROVE  Home(zones[i], j)'
      <3>1. /\ j <= next
            /\ j = next => pc = "panic" \/ (pc = "add_zone" /\ zones[i].end <= adding.start)
        BY <2>2 DEF Home
      <3>2. j \in Nat
        BY <2>2
      <3>4. ASSUME next' = next
            PROVE  /\ j <= next'
                   /\ j = next' => pc' = "panic" \/ (pc' = "add_zone" /\ zones[i].end <= adding'.start)
        <4>1. pc' = "panic" \/ (pc' = pc /\ adding'.start = adding.start) \/ pc = "loop"
          BY <1>1, <2>1, <3>4
        <4> QED
          BY <3>1, <3>4, <4>1
      <3>5. ASSUME next' = next + 1 PROVE j < next'
        BY <1>1, <3>1, <3>2, <3>5
      <3>6. /\ j <= next'
            /\ j = next' => pc' = "panic" \/ (pc' = "add_zone" /\ zones[i].end <= adding'.start)
        BY <1>1, <2>1, <3>2, <3>4, <3>5
      <3>3. StartOf(map[j])' = StartOf(map[j]) /\ EndOf(map[j])' = EndOf(map[j])
        BY <2>1 DEF StartOf, EndOf
      <3> QED
        BY <2>1, <2>2, <3>6, <3>3 DEF Home
    <2> QED
      BY <1>1, <2>1, <2>2 DEF Homes
  <1>3. CASE AddZonePush
    <2>1. PICK s, n : s = adding.start /\ n = adding.size_p2
      OBVIOUS
    <2>2. /\ map' = map /\ next' = next /\ pc = "add_zone" /\ pc' = pc
          /\ adding'.start = s + n /\ Piece
      BY <1>3, <2>1 DEF AddZonePush, NextBit, NextStart, Piece
    <2>3. /\ Len(zones)' = Len(zones) + 1
          /\ \A i \in 1 .. Len(zones) : zones'[i] = zones[i]
          /\ zones'[Len(zones) + 1] = [start |-> s, end |-> s + n]
      BY <1>3, <2>1, PushIs
    <2>4. s \in Nat /\ n \in Nat \ {0} /\ Start <= s /\ s + n <= End
      BY <2>1, <2>2, PieceIs
    <2>5. /\ next \in 1 .. Len(map) /\ map[next].available
          /\ Start = StartOf(map[next]) /\ End = EndOf(map[next])
      BY <1>1, <2>2, AtArea DEF Inv, Adding
    <2>6. \A j \in 1 .. Len(map) : StartOf(map[j])' = StartOf(map[j]) /\ EndOf(map[j])' = EndOf(map[j])
      BY <2>2 DEF StartOf, EndOf
    <2>7. ASSUME NEW i \in 1 .. Len(zones) PROVE \E j \in 1 .. Len(map) : Home(zones[i], j)'
      <3>1. PICK j \in 1 .. Len(map) : Home(zones[i], j)
        BY <1>1 DEF Homes
      <3>2. zones[i].end \in Int /\ zones'[i] = zones[i]
        BY <1>1, <2>3, ZoneIs
      <3>3. j = next => zones[i].end <= s
        BY <2>1, <2>2, <3>1 DEF Home
      <3>4. j = next => zones[i].end <= s + n
        BY <2>4, <3>2, <3>3
      <3> QED
        BY <2>2, <2>6, <3>1, <3>2, <3>4 DEF Home
    <2>8. \E j \in 1 .. Len(map) : Home(zones[Len(zones)], j)'
      <3>1. PICK j \in 1 .. Len(map) : j = next
        BY <2>5
      <3>2. zones'[Len(zones)'].start = s /\ zones'[Len(zones)'].end = s + n
        BY <2>3
      <3>3. /\ map'[j].available /\ StartOf(map[j])' <= s /\ s + n <= EndOf(map[j])'
            /\ j = next' /\ pc' = "add_zone" /\ adding'.start = s + n
        BY <2>2, <2>4, <2>5, <2>6, <3>1
      <3>4. j <= next' /\ s + n <= adding'.start
        BY <2>4, <3>1, <3>3
      <3>5. Home(zones[Len(zones)], j)'
        BY <3>2, <3>3, <3>4 DEF Home
      <3> QED
        BY <3>5
    <2>9. ASSUME NEW i \in 1 .. Len(zones)' PROVE \E j \in 1 .. Len(map) : Home(zones[i], j)'
      <3>1. i \in 1 .. Len(zones) \/ i = Len(zones)'
        BY <1>1, <2>3, <2>9
      <3> QED
        BY <2>7, <2>8, <3>1
    <2> QED
      BY <2>2, <2>9 DEF Homes
  <1> QED
    BY <1>2, <1>3

(* Zones are whole pages.                                                  *)
LEMMA WholeStep ==
  ASSUME Inv, [Next]_vars
  PROVE  WholeZones'
  <1>1. WholeZones /\ Len(zones) \in Nat
    BY ZoneIs DEF Inv
  <1>2. CASE ~ AddZonePush
    BY <1>1, <1>2, Quiet DEF WholeZones
  <1>3. CASE AddZonePush
    <2>1. PICK s, n : s = adding.start /\ n = adding.size_p2
      OBVIOUS
    <2>2. /\ Len(zones)' = Len(zones) + 1
          /\ \A i \in 1 .. Len(zones) : zones'[i] = zones[i]
          /\ zones'[Len(zones) + 1] = [start |-> s, end |-> s + n]
      BY <1>3, <2>1, PushIs
    <2>3. s \in Nat /\ n \in Nat \ {0} /\ s % PAGE = 0 /\ (s + n) % PAGE = 0
      BY <1>3, <2>1, PieceIs DEF AddZonePush
    <2> QED
      BY <1>1, <2>2, <2>3 DEF WholeZones
  <1> QED
    BY <1>2, <1>3

(* The bounds made of an area lie within it, if an address reaches them.   *)
LEMMA WithinArea ==
  ASSUME Addressable, NEW a \in Areas
  PROVE  a.start <= StartOf(a) /\ EndOf(a) <= a.end
  <1>1. a.end <= WORD
    BY DEF Addressable
  <1>2. EndOf(a) <= a.end /\ Truncate(a.start) = a.start
    BY <1>1, AreaLow
  <1> QED
    BY <1>2, AreaIs

LEMMA Transitive ==
  ASSUME NEW x \in Int, NEW y \in Int, NEW z \in Int, x <= y, y <= z
  PROVE  x <= z
  OBVIOUS

(* A new zone overlaps no other: of the same area because add_zone moves   *)
(* on, of another because areas do not overlap.                            *)
LEMMA ApartStep ==
  ASSUME Inv, [Next]_vars
  PROVE  ZonesApart'
  <1>1. TypeOK /\ ZonesApart /\ Homes /\ Len(zones) \in Nat
    BY ZoneIs DEF Inv
  <1>2. CASE ~ AddZonePush
    BY <1>1, <1>2, Quiet DEF ZonesApart
  <1>3. CASE AddZonePush
    <2>1. PICK s, n : s = adding.start /\ n = adding.size_p2
      OBVIOUS
    <2>2. /\ Len(zones)' = Len(zones) + 1
          /\ \A i \in 1 .. Len(zones) : zones'[i] = zones[i]
          /\ zones'[Len(zones) + 1] = [start |-> s, end |-> s + n]
      BY <1>3, <2>1, PushIs
    <2>3. /\ pc = "add_zone" /\ next <= Len(map)
          /\ s \in Nat /\ n \in Nat \ {0} /\ Start <= s /\ s + n <= End
      BY <1>3, <2>1, PieceIs DEF AddZonePush, Piece, Inv, Adding
    <2>4. /\ next \in 1 .. Len(map) /\ map[next] \in Areas
          /\ Start = StartOf(map[next]) /\ End = EndOf(map[next])
          /\ \A j \in 1 .. Len(map) : map[j] \in Areas
          /\ \A j, k \in 1 .. Len(map) : j # k => Apart(map[j], map[k])
      BY <1>1, <2>3, AtArea, MapIs DEF TypeOK
    <2>5. ASSUME Addressable, NEW i \in 1 .. Len(zones)
          PROVE  zones[i].end <= s \/ s + n <= zones[i].start
      <3>1. PICK j \in 1 .. Len(map) : Home(zones[i], j)
        BY <1>1 DEF Homes
      <3>2. zones[i].start \in Int /\ zones[i].end \in Int
        BY <1>1, ZoneIs
      <3>3. CASE j = next
        BY <2>1, <2>3, <3>1, <3>3 DEF Home
      <3>4. CASE j # next
        <4>1. PICK a, b : a = map[j] /\ b = map[next]
          OBVIOUS
        <4>2. a \in Areas /\ b \in Areas /\ (a.end <= b.start \/ b.end <= a.start)
          BY <2>4, <3>4, <4>1 DEF Apart
        <4>3. /\ a.start \in Nat /\ a.end \in Nat /\ b.start \in Nat /\ b.end \in Nat
              /\ StartOf(a) \in Nat /\ EndOf(a) \in Nat
              /\ StartOf(b) \in Nat /\ EndOf(b) \in Nat
          BY <4>2, AreaIs, Sizes
        <4>4. a.start <= StartOf(a) /\ EndOf(a) <= a.end /\ b.start <= StartOf(b) /\ EndOf(b) <= b.end
          BY <2>5, <4>2, WithinArea
        <4>5. StartOf(a) <= zones[i].start /\ zones[i].end <= EndOf(a)
          BY <3>1, <4>1 DEF Home
        <4>6. StartOf(b) <= s /\ s + n <= EndOf(b)
          BY <2>3, <2>4, <4>1
        <4>7. PICK t : t = s + n
          OBVIOUS
        <4>8. s \in Int /\ t \in Int /\ StartOf(b) <= s /\ t <= EndOf(b)
          BY <2>3, <4>6, <4>7
        <4>9. CASE a.end <= b.start
          <5>1. zones[i].end <= a.end
            BY <3>2, <4>3, <4>4, <4>5, Transitive
          <5>2. b.start <= s
            BY <4>3, <4>4, <4>8, Transitive
          <5>3. zones[i].end <= b.start
            BY <3>2, <4>3, <4>9, <5>1, Transitive
          <5> QED
            BY <3>2, <4>3, <4>8, <5>2, <5>3, Transitive
        <4>10. CASE b.end <= a.start
          <5>1. t <= b.end
            BY <4>3, <4>4, <4>8, Transitive
          <5>2. a.start <= zones[i].start
            BY <3>2, <4>3, <4>4, <4>5, Transitive
          <5>3. t <= a.start
            BY <4>3, <4>8, <4>10, <5>1, Transitive
          <5>4. t <= zones[i].start
            BY <3>2, <4>3, <4>8, <5>2, <5>3, Transitive
          <5> QED
            BY <4>7, <5>4
        <4> QED
          BY <4>2, <4>9, <4>10
      <3> QED
        BY <3>3, <3>4
    <2>6. ASSUME Addressable, NEW i \in 1 .. Len(zones) + 1, NEW j \in 1 .. Len(zones) + 1, i # j
          PROVE  Apart(zones'[i], zones'[j])
      <3>1. CASE i <= Len(zones) /\ j <= Len(zones)
        <4>1. i \in 1 .. Len(zones) /\ j \in 1 .. Len(zones)
          BY <1>1, <3>1
        <4> QED
          BY <1>1, <2>2, <2>6, <4>1 DEF ZonesApart
      <3>2. CASE i <= Len(zones) /\ j = Len(zones) + 1
        <4>1. i \in 1 .. Len(zones)
          BY <1>1, <3>2
        <4> QED
          BY <2>2, <2>5, <2>6, <3>2, <4>1 DEF Apart
      <3>3. CASE i = Len(zones) + 1 /\ j <= Len(zones)
        <4>1. j \in 1 .. Len(zones)
          BY <1>1, <3>3
        <4> QED
          BY <2>2, <2>5, <2>6, <3>3, <4>1 DEF Apart
      <3> QED
        BY <1>1, <2>6, <3>1, <3>2, <3>3
    <2> QED
      BY <2>2, <2>6 DEF ZonesApart
  <1> QED
    BY <1>2, <1>3

(* The whole pages of an area above the kernel lie between its bounds.     *)
LEMMA PageInside ==
  ASSUME TypeOK, next <= Len(map), Area.end < WORD, NEW p \in WholePages(Area)
  PROVE  p \in Nat /\ Start <= p /\ p + PAGE <= End
  <1>1. PICK a : a = Area
    OBVIOUS
  <1>2. a \in Areas /\ Start = StartOf(a) /\ End = EndOf(a)
    BY <1>1, AtArea
  <1>3. a.start \in Nat /\ a.end \in Nat /\ a.start < a.end /\ a.end < WORD
    BY <1>1, <1>2, AreaIs
  <1>4. /\ p \in a.start .. a.end - 1 /\ p % PAGE = 0 /\ p + PAGE <= a.end
        /\ p >= KernelEnd
    BY <1>1 DEF WholePages, Bytes
  <1>5. End = a.end /\ Truncate(a.start) = a.start
    BY <1>2, <1>3, AreaLow, Sizes
  <1>6. PICK r : r = IF a.start > KernelEnd THEN a.start ELSE KernelEnd
    OBVIOUS
  <1>7. r \in Nat /\ p \in Nat /\ r <= p
    BY <1>3, <1>4, <1>6, Sizes
  <1>8. Start = AlignUp(r)
    BY <1>2, <1>5, <1>6 DEF StartOf
  <1> QED
    BY <1>4, <1>5, <1>7, <1>8, AlignUpLeast

(* A push keeps what is covered and covers the piece.                      *)
LEMMA CoversStep ==
  ASSUME Inv, [Next]_vars
  PROVE  \A p \in Nat :
           /\ Covers(p) => Covers(p)'
           /\ AddZonePush /\ adding.start <= p /\ p < adding.start + adding.size_p2 => Covers(p)'
  <1>1. SUFFICES ASSUME NEW p \in Nat
                 PROVE  /\ Covers(p) => Covers(p)'
                        /\ AddZonePush /\ adding.start <= p /\ p < adding.start + adding.size_p2
                             => Covers(p)'
    OBVIOUS
  <1>2. CASE ~ AddZonePush
    BY <1>2, Quiet DEF Covers
  <1>3. CASE AddZonePush
    <2>1. PICK s, n : s = adding.start /\ n = adding.size_p2
      OBVIOUS
    <2>2. /\ Len(zones) \in Nat /\ Len(zones)' = Len(zones) + 1
          /\ \A i \in 1 .. Len(zones) : zones'[i] = zones[i]
          /\ zones'[Len(zones) + 1] = [start |-> s, end |-> s + n]
      BY <1>3, <2>1, PushIs
    <2>3. ASSUME Covers(p) PROVE Covers(p)'
      <3>1. PICK i \in 1 .. Len(zones) : zones[i].start <= p /\ p < zones[i].end
        BY <2>3 DEF Covers
      <3>2. i \in 1 .. Len(zones)' /\ zones'[i] = zones[i]
        BY <2>2
      <3> QED
        BY <3>1, <3>2 DEF Covers
    <2>4. ASSUME s <= p, p < s + n PROVE Covers(p)'
      <3>1. PICK i : i = Len(zones) + 1
        OBVIOUS
      <3>2. i \in 1 .. Len(zones)' /\ zones'[i].start = s /\ zones'[i].end = s + n
        BY <2>2, <3>1
      <3> QED
        BY <2>4, <3>2 DEF Covers
    <2> QED
      BY <2>1, <2>3, <2>4
  <1> QED
    BY <1>2, <1>3

(* The pieces add_zone has passed.                                         *)
LEMMA PassedPiecesStep ==
  ASSUME Inv, [Next]_vars
  PROVE  PassedPieces'
  <1>1. TypeOK /\ PassedPieces
    BY DEF Inv
  <1>2. SUFFICES ASSUME pc' = "add_zone", NEW p \in Nat, Start' <= p, p < adding'.start
                 PROVE  Covers(p)'
    BY DEF PassedPieces
  <1>3. Covers(p) => Covers(p)'
    BY CoversStep
  <1>4. CASE AddZone
    <2>1. next <= Len(map) /\ map' = map /\ next' = next /\ adding'.start = Start
      BY <1>4 DEF AddZone, Usable, InLoop
    <2>2. Start' = Start /\ Start \in Nat
      BY <1>1, <2>1, AtArea, SameArea
    <2> QED
      BY <1>2, <2>1, <2>2
  <1>5. CASE AddZoneSkip \/ UNCHANGED vars
    <2>1. pc = "add_zone" /\ map' = map /\ next' = next /\ adding'.start = adding.start
      BY <1>2, <1>5 DEF AddZoneSkip, NextBit, vars
    <2>2. Start' = Start
      BY <2>1, SameArea
    <2> QED
      BY <1>1, <1>2, <1>3, <2>1, <2>2 DEF PassedPieces
  <1>6. CASE AddZonePush
    <2>1. PICK s, n : s = adding.start /\ n = adding.size_p2
      OBVIOUS
    <2>2. /\ pc = "add_zone" /\ map' = map /\ next' = next /\ adding'.start = s + n /\ Piece
      BY <1>6, <2>1 DEF AddZonePush, NextBit, NextStart, Piece
    <2>3. Start' = Start /\ s \in Nat /\ n \in Nat
      BY <2>1, <2>2, SameArea, PieceIs
    <2>4. CASE p < s
      BY <1>1, <1>2, <1>3, <2>1, <2>2, <2>3, <2>4 DEF PassedPieces
    <2>5. CASE s <= p
      BY <1>2, <1>6, <2>1, <2>2, <2>5, CoversStep
    <2> QED
      BY <2>3, <2>4, <2>5
  <1> QED
    BY <1>2, <1>4, <1>5, <1>6
    DEF Next, SkipReserved, SkipEmpty, StartPanics, AddZoneFails, HeapPanics, AddZoneDone,
        Finish, Continue

(* The area the loop leaves without a message has been covered.            *)
LEMMA LeavingIsCovered ==
  ASSUME Inv, [Next]_vars, next' = next + 1, missed' = FALSE,
         Area.available, Area.end < WORD, NEW p \in WholePages(Area)
  PROVE  Covers(p)
  <1>1. TypeOK /\ Adding /\ PassedPieces /\ next \in Nat
    BY MapIs DEF Inv, TypeOK
  <1>2. SkipEmpty \/ AddZoneDone
    BY <1>1 DEF Next, vars, SkipReserved, StartPanics, AddZone, AddZoneSkip, AddZonePush,
                AddZoneFails, HeapPanics, Finish
  <1>3. next <= Len(map)
    BY <1>1, <1>2 DEF SkipEmpty, Usable, InLoop, AddZoneDone, Adding
  <1>4. p \in Nat /\ Start <= p /\ p + PAGE <= End
    BY <1>1, <1>3, PageInside
  <1>5. Start \in Nat /\ End \in Nat /\ PAGE \in Nat \ {0}
    BY <1>1, <1>3, AtArea, Sizes
  <1>6. Worth
    BY <1>4, <1>5 DEF Worth
  <1>7. pc = "add_zone" /\ adding.rest = 0
    BY <1>2, <1>6 DEF SkipEmpty, AddZoneDone
  <1>8. Size \in Nat /\ End < Start + Size + PAGE
    BY <1>1, <1>3, <1>6, AtArea, Sizes
  <1>9. adding.start = Start + Size
    <2>1. adding.start + adding.rest * adding.size_p2 = Start + Size
      BY <1>1, <1>7 DEF Adding
    <2>2. adding.start \in Int /\ adding.size_p2 \in Int
      BY <1>1, Sizes DEF TypeOK
    <2>3. 0 * adding.size_p2 = 0
      BY <2>2
    <2> QED
      BY <1>7, <2>1, <2>2, <2>3
  <1>10. p < adding.start
    BY <1>4, <1>5, <1>8, <1>9
  <1> QED
    BY <1>1, <1>4, <1>7, <1>10 DEF PassedPieces

(* The areas the loop has passed.                                          *)
LEMMA PassedAreasStep ==
  ASSUME Inv, [Next]_vars
  PROVE  PassedAreas'
  <1>1. TypeOK /\ PassedAreas /\ next \in Nat /\ Len(map) \in Nat
    BY MapIs DEF Inv, TypeOK
  <1>2. SUFFICES ASSUME missed' = FALSE, pc' # "panic", NEW j \in 1 .. Len(map)', j < next',
                        map'[j].available, map'[j].end < WORD, NEW p \in WholePages(map[j])'
                 PROVE  Covers(p)'
    <2>1. missed' \in BOOLEAN
      BY TypeStep DEF TypeOK
    <2> QED
      BY <2>1 DEF PassedAreas
  <1>3. /\ map' = map /\ missed = FALSE /\ pc # "panic" /\ (next' = next \/ next' = next + 1)
    <2>1. missed \in BOOLEAN
      BY <1>1 DEF TypeOK
    <2> QED
      BY <1>2, <2>1
      DEF Next, vars, SkipReserved, SkipEmpty, StartPanics, AddZone, AddZoneSkip, AddZonePush,
          AddZoneFails, HeapPanics, AddZoneDone, Finish, Continue, Usable, InLoop, Piece
  <1>4. j \in 1 .. Len(map) /\ map[j].available /\ map[j].end < WORD /\ p \in WholePages(map[j])
    BY <1>2, <1>3 DEF WholePages, Bytes
  <1>5. p \in Nat
    <2>1. map[j] \in Areas
      BY <1>1, <1>4, MapIs DEF TypeOK
    <2>2. map[j].start \in Nat /\ map[j].end \in Nat
      BY <2>1, AreaIs
    <2> QED
      BY <1>4, <2>2 DEF WholePages, Bytes
  <1>6. Covers(p)
    <2>1. CASE j < next
      BY <1>1, <1>3, <1>4, <2>1 DEF PassedAreas
    <2>2. CASE j = next /\ next' = next + 1
      BY <1>2, <1>4, <2>2, LeavingIsCovered DEF Area
    <2> QED
      BY <1>1, <1>2, <1>3, <1>4, <2>1, <2>2
  <1> QED
    BY <1>5, <1>6, CoversStep

(* The loop ends behind the last area.                                     *)
LEMMA DoneStep ==
  ASSUME Inv, [Next]_vars
  PROVE  Done'
  BY DEF Inv, Done, Next, vars, SkipReserved, SkipEmpty, StartPanics, AddZone, AddZoneSkip,
         AddZonePush, AddZoneFails, HeapPanics, AddZoneDone, Finish, Continue, Piece

(* Every step preserves the invariant.                                     *)
LEMMA InvNext == Inv /\ [Next]_vars => Inv'
  BY TypeStep, AddingStep, HomesStep, WholeStep, ApartStep, PassedAreasStep, PassedPiecesStep,
     DoneStep DEF Inv

(* The invariant holds throughout.                                         *)
LEMMA Invariant == Spec => []Inv
  BY InvInit, InvNext, PTL DEF Spec

-----------------------------------------------------------------------------
(***************************************************************************)
(* The theorems about BootMemory.                                          *)
(***************************************************************************)

(***************************************************************************)
(* No bound that the loop of setup_paging or add_zone computes leaves the  *)
(* word once align_up_4k has not overflowed: neither the start of a piece  *)
(* nor its end (zoned_buddy.rs:87).                                        *)
(***************************************************************************)
THEOREM TypeOKThm == Spec => []TypeOK
  <1>1. Inv => TypeOK
    BY DEF Inv
  <1> QED
    BY <1>1, Invariant, PTL

(***************************************************************************)
(* As long as every area ends within the addresses, the allocator owns no  *)
(* byte of the kernel and none that was not reported as available          *)
(* (paging/mod.rs:76-95).                                                  *)
(***************************************************************************)
THEOREM ZonesAreAvailableThm == Addressable => (Spec => []ZonesAreAvailable)
  <1> SUFFICES ASSUME Addressable PROVE Spec => []ZonesAreAvailable
    OBVIOUS
  <1>1. ASSUME Inv PROVE ZonesAreAvailable
    <2>1. TypeOK /\ Homes /\ map \in Maps
      BY <1>1 DEF Inv, TypeOK
    <2>2. ASSUME NEW i \in 1 .. Len(zones), NEW b \in Bytes(zones[i])
          PROVE  b \in Available /\ b >= KernelEnd
      <3>1. PICK j \in 1 .. Len(map) : Home(zones[i], j)
        BY <2>1 DEF Homes
      <3>2. PICK a : a = map[j]
        OBVIOUS
      <3>3. a \in Areas /\ DOMAIN map = 1 .. Len(map)
        BY <2>1, <3>2, MapIs
      <3>4. a.available /\ StartOf(a) <= zones[i].start /\ zones[i].end <= EndOf(a)
        BY <3>1, <3>2 DEF Home
      <3>5. a.start <= StartOf(a) /\ EndOf(a) <= a.end /\ KernelEnd <= StartOf(a)
        BY <1>1, <3>3, WithinArea, AreaIs
      <3>6. /\ a.start \in Int /\ a.end \in Int /\ StartOf(a) \in Int /\ EndOf(a) \in Int
            /\ KernelEnd \in Int
        BY <3>3, AreaIs, Sizes
      <3>7. zones[i].start \in Int /\ zones[i].end \in Int
        BY <2>1, ZoneIs
      <3>8. b \in Int /\ zones[i].start <= b /\ b <= zones[i].end - 1
        BY <2>2, <3>7 DEF Bytes
      <3>9. StartOf(a) <= b /\ b <= EndOf(a) - 1
        BY <3>4, <3>6, <3>7, <3>8
      <3>10. b \in Bytes(a) /\ b >= KernelEnd
        BY <3>5, <3>6, <3>8, <3>9 DEF Bytes
      <3>11. a \in Range(map)
        BY <3>2, <3>3 DEF Range
      <3> QED
        BY <3>4, <3>10, <3>11 DEF Available
    <2>3. Range(zones) = { zones[i] : i \in 1 .. Len(zones) }
      BY <2>1, ZoneIs
    <2> QED
      BY <2>2, <2>3 DEF ZonesAreAvailable
  <1> QED
    BY <1>1, Invariant, PTL

(***************************************************************************)
(* Under the same condition the regions the loop hands over are what       *)
(* ZonedBuddy assumes: whole pages that do not overlap                     *)
(* (zoned_buddy.rs:41-46).                                                 *)
(***************************************************************************)
THEOREM ZonesFitAllocatorThm == Addressable => (Spec => []ZonesFitAllocator)
  <1> SUFFICES ASSUME Addressable PROVE Spec => []ZonesFitAllocator
    OBVIOUS
  <1>1. ASSUME Inv PROVE ZonesFitAllocator
    <2>1. TypeOK /\ WholeZones /\ ZonesApart
      BY <1>1 DEF Inv
    <2>2. /\ DOMAIN zones = 1 .. Len(zones)
          /\ Range(zones) = { zones[i] : i \in 1 .. Len(zones) }
      BY <2>1, ZoneIs
    <2> QED
      BY <1>1, <2>1, <2>2 DEF ZonesFitAllocator, WholeZones, ZonesApart
  <1> QED
    BY <1>1, Invariant, PTL

(***************************************************************************)
(* Whatever the areas, and wherever the heap runs out, no whole page above *)
(* the kernel is lost in silence (paging/mod.rs:84-93).                    *)
(***************************************************************************)
THEOREM LossIsReportedThm == Spec => []LossIsReported
  <1>1. ASSUME Inv PROVE LossIsReported
    <2>1. TypeOK /\ PassedAreas /\ Done /\ map \in Maps /\ next \in Nat
      BY <1>1, MapIs DEF Inv, TypeOK
    <2>2. SUFFICES ASSUME pc = "done", ~ missed, NEW a \in Range(map), a.available, a.end < WORD,
                          NEW p \in WholePages(a)
                   PROVE  \E z \in Range(zones) : p \in Bytes(z)
      BY DEF LossIsReported
    <2>3. PICK j \in 1 .. Len(map) : a = map[j]
      BY <2>1, MapIs DEF Range
    <2>4. j < next
      BY <2>1, <2>2, <2>3, MapIs DEF Done
    <2>5. PICK i \in 1 .. Len(zones) : zones[i].start <= p /\ p < zones[i].end
      BY <2>1, <2>2, <2>3, <2>4 DEF PassedAreas, Covers
    <2>6. p \in Int
      <3>1. a \in Areas
        BY <2>1, <2>3, MapIs
      <3>2. a.start \in Nat /\ a.end \in Nat
        BY <3>1, AreaIs
      <3> QED
        BY <3>2 DEF WholePages, Bytes
    <2>7. /\ zones[i].start \in Int /\ zones[i].end \in Int
          /\ zones[i] \in Range(zones)
      BY <2>1, ZoneIs
    <2>8. p \in Bytes(zones[i])
      BY <2>5, <2>6, <2>7 DEF Bytes
    <2> QED
      BY <2>7, <2>8
  <1> QED
    BY <1>1, Invariant, PTL

-----------------------------------------------------------------------------
(***************************************************************************)
(* Induction: a set of natural numbers that is not empty has a least one.  *)
(***************************************************************************)
LEMMA Least ==
  ASSUME NEW S \in SUBSET Nat, S # {}
  PROVE  \E n \in S : \A k \in S : n <= k
  <1>1. PICK R : R = OpToRel(<, Nat)
    OBVIOUS
  <1>2. IsWellFoundedOn(R, Nat)
    BY <1>1, NatLessThanWellFounded
  <1>3. PICK n \in S : \A k \in S : ~ (<<k, n>> \in R)
    BY <1>2, WFMin
  <1>4. R = {ss \in Nat \X Nat : ss[1] < ss[2]}
    BY <1>1 DEF OpToRel
  <1>5. \A k \in S : ~ (k < n)
    BY <1>3, <1>4
  <1> QED
    BY <1>3, <1>5

(* The fold of total_memory over the first n zones, in bytes.              *)
IsSum(g, z, n) == g = [i \in 0 .. n |-> IF i = 0 THEN 0 ELSE g[i - 1] + (z[i].end - z[i].start)]

(* Such a function exists for every number of zones.                       *)
LEMMA SumExists ==
  ASSUME NEW z, NEW n \in Nat
  PROVE  \E g : IsSum(g, z, n)
  <1> DEFINE Without == { k \in Nat : ~ \E g : IsSum(g, z, k) }
  <1>1. 0 \notin Without
    <2>1. PICK g : g = [i \in 0 .. 0 |-> 0]
      OBVIOUS
    <2>2. IsSum(g, z, 0)
      BY <2>1 DEF IsSum
    <2> QED
      BY <2>2
  <1>2. ASSUME NEW k \in Nat, NEW g, IsSum(g, z, k) PROVE \E h : IsSum(h, z, k + 1)
    <2>1. PICK h : h = [i \in 0 .. k + 1 |->
                          IF i <= k THEN g[i] ELSE g[k] + (z[k + 1].end - z[k + 1].start)]
      OBVIOUS
    <2>2. \A i \in 0 .. k : g[i] = IF i = 0 THEN 0 ELSE g[i - 1] + (z[i].end - z[i].start)
      BY <1>2 DEF IsSum
    <2>3. ASSUME NEW i \in 0 .. k + 1
          PROVE  h[i] = IF i = 0 THEN 0 ELSE h[i - 1] + (z[i].end - z[i].start)
      <3>1. CASE i = 0
        BY <2>1, <2>2, <3>1
      <3>2. CASE i # 0 /\ i <= k
        <4>1. i - 1 \in 0 .. k + 1 /\ i - 1 <= k /\ i \in 0 .. k
          BY <3>2
        <4>2. h[i] = g[i] /\ h[i - 1] = g[i - 1]
          BY <2>1, <3>2, <4>1
        <4> QED
          BY <2>2, <3>2, <4>1, <4>2
      <3>3. CASE i = k + 1
        <4>1. i - 1 = k /\ k \in 0 .. k + 1 /\ ~ (i <= k) /\ i # 0
          BY <3>3
        <4>2. h[i] = g[k] + (z[k + 1].end - z[k + 1].start) /\ h[i - 1] = g[k]
          BY <2>1, <4>1
        <4> QED
          BY <3>3, <4>1, <4>2
      <3> QED
        BY <3>1, <3>2, <3>3
    <2>4. h = [i \in 0 .. k + 1 |-> IF i = 0 THEN 0 ELSE h[i - 1] + (z[i].end - z[i].start)]
      BY <2>1, <2>3
    <2> QED
      BY <2>4 DEF IsSum
  <1>3. SUFFICES ASSUME Without # {} PROVE FALSE
    OBVIOUS
  <1>4. PICK k \in Without : \A j \in Without : k <= j
    BY <1>3, Least
  <1>5. k \in Nat /\ k # 0 /\ k - 1 \in Nat /\ k - 1 \notin Without
    BY <1>1, <1>4
  <1>6. PICK g : IsSum(g, z, k - 1)
    BY <1>5
  <1>7. \E h : IsSum(h, z, (k - 1) + 1)
    BY <1>2, <1>5, <1>6
  <1>8. (k - 1) + 1 = k
    BY <1>5
  <1> QED
    BY <1>4, <1>7, <1>8

(* The bytes of the first k zones.                                         *)
First(k) == UNION { Bytes(zones[i]) : i \in 1 .. k }

(* The bytes of a zone.                                                    *)
LEMMA BytesCardinality ==
  ASSUME NEW a \in Nat, NEW b \in Nat, a < b
  PROVE  IsFiniteSet(a .. b - 1) /\ Cardinality(a .. b - 1) = b - a
  <1>1. PICK c : c = b - 1
    OBVIOUS
  <1>2. c \in Int /\ a <= c /\ a \in Int
    BY <1>1
  <1>3. IsFiniteSet(a .. c) /\ Cardinality(a .. c) = c - a + 1
    BY <1>2, FS_Interval
  <1> QED
    BY <1>1, <1>3

(* The fold counts them one zone at a time, as zones do not overlap.       *)
LEMMA SumCounts ==
  ASSUME Addressable, Inv, NEW g, IsSum(g, zones, Len(zones)), NEW n \in 0 .. Len(zones)
  PROVE  IsFiniteSet(First(n)) /\ g[n] = Cardinality(First(n))
  <1> DEFINE P(k) == IsFiniteSet(First(k)) /\ g[k] = Cardinality(First(k))
  <1> DEFINE Wrong == { k \in 0 .. Len(zones) : ~ P(k) }
  <1>1. TypeOK /\ Len(zones) \in Nat
    BY ZoneIs DEF Inv
  <1>2. \A i \in 0 .. Len(zones) :
          g[i] = IF i = 0 THEN 0 ELSE g[i - 1] + (zones[i].end - zones[i].start)
    BY <1>1 DEF IsSum
  <1>3. P(0)
    <2>1. First(0) = {}
      BY DEF First
    <2>2. g[0] = 0
      BY <1>1, <1>2
    <2> QED
      BY <2>1, <2>2, FS_EmptySet
  <1>4. ASSUME NEW k \in 1 .. Len(zones), P(k - 1) PROVE P(k)
    <2>1. PICK s, e, B : s = zones[k].start /\ e = zones[k].end /\ B = s .. e - 1
      OBVIOUS
    <2>2. s \in Nat /\ e \in Nat /\ s < e
      BY <1>1, <2>1, ZoneIs, Sizes DEF Inv, WholeZones
    <2>3. First(k) = First(k - 1) \cup B
      BY <1>1, <2>1 DEF First, Bytes
    <2>4. ASSUME NEW i \in 1 .. k - 1 PROVE Bytes(zones[i]) \cap B = {}
      <3>1. i \in 1 .. Len(zones) /\ i # k
        BY <1>1
      <3>2. zones[i].start \in Int /\ zones[i].end \in Int
        BY <1>1, <3>1, ZoneIs
      <3>3. zones[i].end <= s \/ e <= zones[i].start
        BY <2>1, <3>1 DEF Inv, ZonesApart, Apart
      <3> QED
        BY <2>1, <2>2, <3>2, <3>3 DEF Bytes
    <2>5. First(k - 1) \cap B = {}
      BY <2>4 DEF First
    <2>6. IsFiniteSet(B) /\ Cardinality(B) = e - s
      BY <2>1, <2>2, BytesCardinality
    <2>7. IsFiniteSet(First(k)) /\ Cardinality(First(k)) = Cardinality(First(k - 1)) + (e - s)
      <3>1. PICK F0 : F0 = First(k - 1)
        OBVIOUS
      <3>2. IsFiniteSet(F0) /\ F0 \cap B = {}
        BY <1>4, <2>5, <3>1
      <3>3. IsFiniteSet(F0 \cup B) /\ Cardinality(F0 \cup B) = Cardinality(F0) + Cardinality(B)
        <4>1. Cardinality(F0 \cap B) = 0 /\ Cardinality(F0) \in Nat /\ Cardinality(B) \in Nat
          BY <2>6, <3>2, FS_EmptySet, FS_CardinalityType
        <4>2. /\ IsFiniteSet(F0 \cup B)
              /\ Cardinality(F0 \cup B) = Cardinality(F0) + Cardinality(B) - Cardinality(F0 \cap B)
          BY <2>6, <3>2, FS_Union
        <4> QED
          BY <4>1, <4>2
      <3> QED
        BY <2>3, <2>6, <3>1, <3>3
    <2>8. g[k] = g[k - 1] + (e - s)
      BY <1>1, <1>2, <2>1
    <2> QED
      BY <1>4, <2>7, <2>8
  <1> HIDE DEF P
  <1>5. SUFFICES ASSUME Wrong # {} PROVE FALSE
    BY DEF P
  <1>6. PICK k \in Wrong : \A j \in Wrong : k <= j
    <2>1. Wrong \in SUBSET Nat
      BY <1>1
    <2> QED
      BY <1>5, <2>1, Least
  <1>7. k \in 1 .. Len(zones) /\ P(k - 1)
    BY <1>1, <1>3, <1>6
  <1> QED
    BY <1>4, <1>6, <1>7

(***************************************************************************)
(* As long as every area ends within the addresses, total_memory counts    *)
(* the managed bytes, each once (zoned_buddy.rs:97-104).                   *)
(***************************************************************************)
THEOREM TotalIsManagedThm == Addressable => (Spec => []TotalIsManaged)
  <1> SUFFICES ASSUME Addressable PROVE Spec => []TotalIsManaged
    OBVIOUS
  <1>1. ASSUME Inv PROVE TotalIsManaged
    <2>1. TypeOK /\ Len(zones) \in Nat
      BY <1>1, ZoneIs DEF Inv
    <2>2. PICK g : g = CHOOSE f : IsSum(f, zones, Len(zones))
      OBVIOUS
    <2>3. IsSum(g, zones, Len(zones))
      BY <2>1, <2>2, SumExists
    <2>4. g = CHOOSE f : f = [i \in 0 .. Len(zones) |->
                                IF i = 0 THEN 0 ELSE f[i - 1] + (zones[i].end - zones[i].start)]
      BY <2>2 DEF IsSum
    <2>5. g[Len(zones)] = Cardinality(First(Len(zones)))
      BY <1>1, <2>1, <2>3, SumCounts
    <2>6. First(Len(zones)) = UNION { Bytes(z) : z \in Range(zones) }
      BY <2>1, ZoneIs DEF First
    <2> QED
      BY <2>4, <2>5, <2>6 DEF TotalIsManaged
  <1> QED
    BY <1>1, Invariant, PTL

-----------------------------------------------------------------------------
(***************************************************************************)
(* The Display of FormatSize (memory.rs), for words and units of any size. *)
(***************************************************************************)

(***************************************************************************)
(* The inductive invariant: value is the size in the unit of order, and    *)
(* the size has reached that unit.                                         *)
(***************************************************************************)
InUnit == value * Unit[order] <= size /\ size < value * Unit[order] + Unit[order]

Written == ~ Large /\ out = <<value, IF Whole THEN -1 ELSE Tenth, order>>

SizeInv ==
  /\ size \in 0 .. SIZES - 1 /\ value \in Nat /\ order \in 0 .. ORDERS - 1
  /\ InUnit
  /\ order > 0 => value > 0
  /\ out = Nothing \/ Written

-----------------------------------------------------------------------------
(* Division with remainder.                                                *)
LEMMA Quotient ==
  ASSUME NEW p \in Nat \ {0}, NEW x \in Nat
  PROVE  /\ x \div p \in Nat /\ (x \div p) * p \in Nat
         /\ (x \div p) * p <= x /\ x < (x \div p) * p + p
  <1>1. PICK q, m : q = x \div p /\ m = x % p
    OBVIOUS
  <1>2. q \in Nat /\ m \in 0 .. p - 1 /\ x = p * q + m
    BY <1>1
  <1>3. p * q = q * p /\ q * p \in Nat
    BY <1>2
  <1> QED
    BY <1>1, <1>2, <1>3

(* Shifting a number out of one unit into the next.                        *)
LEMMA NextUnit ==
  ASSUME NEW u \in Nat \ {0}, NEW k \in Nat \ {0}, NEW s \in Nat, NEW v \in Nat,
         v * u <= s, s < v * u + u
  PROVE  (v \div k) * (k * u) <= s /\ s < (v \div k) * (k * u) + k * u
  <1>1. PICK q : q = v \div k
    OBVIOUS
  <1>2. q \in Nat /\ q * k \in Nat /\ q * k <= v /\ v < q * k + k
    BY <1>1, Quotient
  <1>3. v + 1 <= (q + 1) * k
    <2>1. (q + 1) * k = q * k + k
      BY <1>2
    <2> QED
      BY <1>2, <2>1
  <1>4. (q * k) * u <= v * u /\ (v + 1) * u <= ((q + 1) * k) * u
    <2>1. q * k \in Int /\ v \in Int /\ v + 1 \in Int /\ (q + 1) * k \in Int
      BY <1>2
    <2> QED
      BY <1>2, <1>3, <2>1, Multiples
  <1>5. /\ (q * k) * u = q * (k * u) /\ (v + 1) * u = v * u + u
        /\ ((q + 1) * k) * u = q * (k * u) + k * u
    BY <1>2
  <1>6. v * u \in Nat /\ q * (k * u) \in Nat /\ k * u \in Nat
    BY <1>2
  <1> QED
    BY <1>1, <1>4, <1>5, <1>6

(* The digit behind the point.                                             *)
LEMMA Digit ==
  ASSUME NEW u \in Nat \ {0}, NEW s \in Nat, NEW v \in Nat, v * u <= s, s < v * u + u,
         NEW d, d = ((s * 10) \div u) % 10
  PROVE  /\ d \in 0 .. 9
         /\ (10 * v + d) * u <= 10 * s
         /\ 10 * s < (10 * v + d + 1) * u
  <1>1. PICK q : q = (s * 10) \div u
    OBVIOUS
  <1>2. q \in Nat /\ q * u \in Nat /\ q * u <= s * 10 /\ s * 10 < q * u + u
    BY <1>1, Quotient
  <1>3. (10 * v) * u = 10 * (v * u) /\ (10 * v + 10) * u = 10 * (v * u) + 10 * u /\ v * u \in Nat
    OBVIOUS
  <1>4. (q + 1) * u = q * u + u
    BY <1>2
  <1>5. (10 * v) * u < (q + 1) * u /\ q * u < (10 * v + 10) * u
    BY <1>2, <1>3, <1>4
  <1>6. 10 * v < q + 1 /\ q < 10 * v + 10
    BY <1>2, <1>5, Multiples
  <1>7. d \in 0 .. 9 /\ 10 * v + d = q
    <2>1. d = q % 10
      BY <1>1
    <2> QED
      BY <1>2, <1>6, <2>1
  <1> QED
    BY <1>2, <1>4, <1>7

(* The unit in use.                                                        *)
LEMMA Units ==
  ASSUME NEW o \in 0 .. ORDERS - 1
  PROVE  /\ Unit[o] \in Nat \ {0} /\ Unit[o + 1] = BASE * Unit[o]
         /\ Unit[o + 1] \in Nat \ {0}
         /\ BASE \in Nat \ {0} /\ 100 * Unit[o] <= SIZES /\ SIZES \in Nat
  <1>1. o \in 0 .. ORDERS /\ o + 1 \in 0 .. ORDERS
    BY FormatSizeAssumption
  <1> QED
    BY <1>1, FormatSizeAssumption

(* A number of one digit leaves room for a tenfold.                        *)
LEMMA TenfoldFits ==
  ASSUME SizeInv, ~ Whole
  PROVE  Tenfold < SIZES /\ Tenfold \in Nat
  <1>1. PICK u : u = Unit[order]
    OBVIOUS
  <1>2. u \in Nat \ {0} /\ 100 * u <= SIZES /\ SIZES \in Nat
    BY <1>1, Units DEF SizeInv
  <1>3. size \in Nat /\ size < value * u + u /\ value \in Nat /\ value + 1 <= 10
    BY <1>1, <1>2 DEF SizeInv, InUnit, Whole
  <1>4. (value + 1) * u <= 10 * u /\ (value + 1) * u = value * u + u
    BY <1>2, <1>3, Multiples
  <1>5. value * u \in Nat
    BY <1>2, <1>3
  <1> QED
    BY <1>2, <1>3, <1>4, <1>5 DEF Tenfold

(* Before the loop.                                                        *)
LEMMA SizeInit == FmtInit => SizeInv
  <1> SUFFICES ASSUME FmtInit PROVE SizeInv
    OBVIOUS
  <1>1. /\ size \in 0 .. SIZES - 1 /\ size \in Nat /\ value = size /\ order = 0 /\ Unit[0] = 1
        /\ 0 \in 0 .. ORDERS - 1 /\ out = Nothing
    BY FormatSizeAssumption DEF FmtInit
  <1>2. size * 1 = size
    BY <1>1
  <1> QED
    BY <1>1, <1>2 DEF SizeInv, InUnit

(* A round of the loop.                                                    *)
LEMMA SizeReduce == SizeInv /\ Reduce => SizeInv'
  <1> SUFFICES ASSUME SizeInv, Reduce PROVE SizeInv'
    OBVIOUS
  <1>1. PICK u, v, o : u = Unit[order] /\ v = value /\ o = order
    OBVIOUS
  <1>2. /\ size' = size /\ value' = v \div BASE /\ order' = o + 1 /\ out' = Nothing
        /\ v >= BASE /\ o + 1 < ORDERS
    BY <1>1 DEF Reduce, Large
  <1>3. /\ size \in 0 .. SIZES - 1 /\ size \in Nat /\ v \in Nat /\ o \in 0 .. ORDERS - 1
        /\ v * u <= size /\ size < v * u + u
        /\ u \in Nat \ {0} /\ Unit[o + 1] = BASE * u /\ BASE \in Nat \ {0} /\ SIZES \in Nat
    BY <1>1, Units, FormatSizeAssumption DEF SizeInv, InUnit
  <1>4. (v \div BASE) * (BASE * u) <= size /\ size < (v \div BASE) * (BASE * u) + BASE * u
    BY <1>3, NextUnit
  <1>5. v \div BASE \in Nat /\ v \div BASE > 0
    <2>1. PICK q : q = v \div BASE
      OBVIOUS
    <2>2. q \in Nat /\ q * BASE \in Nat /\ v < q * BASE + BASE
      BY <1>3, <2>1, Quotient
    <2>3. q # 0
      BY <1>2, <1>3, <2>2
    <2> QED
      BY <2>1, <2>2, <2>3
  <1>6. o + 1 \in 0 .. ORDERS - 1
    BY <1>2, <1>3, FormatSizeAssumption
  <1>7. InUnit'
    BY <1>2, <1>3, <1>4 DEF InUnit
  <1> QED
    BY <1>2, <1>3, <1>5, <1>6, <1>7 DEF SizeInv

(* The text is written.                                                    *)
LEMMA SizePrint == SizeInv /\ (PrintWhole \/ PrintTenth) => SizeInv'
  <1> SUFFICES ASSUME SizeInv, PrintWhole \/ PrintTenth PROVE SizeInv'
    OBVIOUS
  <1>1. UNCHANGED <<size, value, order>>
    BY DEF PrintWhole, PrintTenth
  <1>2. (Large' <=> Large) /\ (Whole' <=> Whole) /\ Tenth' = Tenth
    BY <1>1 DEF Large, Whole, Tenth, Tenfold
  <1>3. ~ Large /\ out' = <<value, IF Whole THEN -1 ELSE Tenth, order>>
    BY DEF PrintWhole, PrintTenth
  <1>4. Written'
    BY <1>1, <1>2, <1>3 DEF Written
  <1> QED
    BY <1>1, <1>4 DEF SizeInv, InUnit

(* The invariant holds in every state.                                     *)
LEMMA SizeInvariant == FmtSpec => []SizeInv
  <1>1. SizeInv /\ UNCHANGED fmtVars => SizeInv'
    BY DEF SizeInv, InUnit, Written, Large, Whole, Tenth, Tenfold, fmtVars
  <1>2. SizeInv /\ [FmtNext]_fmtVars => SizeInv'
    BY <1>1, SizeReduce, SizePrint DEF FmtNext
  <1> QED
    BY <1>2, SizeInit, PTL DEF FmtSpec

(***************************************************************************)
(* `self.0 * 10` is evaluated only where it does not overflow              *)
(* (memory.rs:50).                                                         *)
(***************************************************************************)
THEOREM NoOverflowThm == FmtSpec => []NoOverflow
  <1>1. SizeInv => NoOverflow
    BY TenfoldFits DEF NoOverflow
  <1> QED
    BY <1>1, SizeInvariant, PTL

(***************************************************************************)
(* The text is the size, rounded down to its last digit, in the largest    *)
(* unit the size reaches (memory.rs:38-53).                                *)
(***************************************************************************)
THEOREM RoundedDownThm == FmtSpec => []RoundedDown
  <1>1. SizeInv => RoundedDown
    <2> SUFFICES ASSUME SizeInv, out # Nothing PROVE RoundedDown
      BY DEF RoundedDown
    <2>1. PICK u, v, o, s, d : /\ u = Unit[order] /\ v = value /\ o = order /\ s = size
                               /\ d = IF Whole THEN -1 ELSE Tenth
      OBVIOUS
    <2>2. /\ s \in Nat /\ v \in Nat /\ o \in 0 .. ORDERS - 1 /\ u \in Nat \ {0}
          /\ v * u <= s /\ s < v * u + u /\ v * u \in Nat
          /\ Unit[o] = u /\ Unit[o + 1] = BASE * u /\ BASE \in Nat \ {0} /\ (o > 0 => v > 0)
      <3>1. /\ s \in Nat /\ v \in Nat /\ o \in 0 .. ORDERS - 1 /\ (o > 0 => v > 0)
            /\ Unit[o] = u /\ v * u <= s /\ s < v * u + u
        BY <2>1, FormatSizeAssumption DEF SizeInv, InUnit
      <3>2. u \in Nat \ {0} /\ Unit[o + 1] = BASE * u /\ BASE \in Nat \ {0}
        BY <3>1, Units
      <3>3. v * u \in Nat
        BY <3>1, <3>2
      <3> QED
        BY <3>1, <3>2, <3>3
    <2>3. out[1] = v /\ out[2] = d /\ out[3] = o /\ ~ Large
      BY <2>1 DEF SizeInv, Written
    <2>4. s < (v + 1) * u
      BY <2>2
    <2>5. ~ Whole => /\ d \in 0 .. 9
                     /\ (10 * v + d) * u <= 10 * s
                     /\ 10 * s < (10 * v + d + 1) * u
      <3> SUFFICES ASSUME ~ Whole
                   PROVE  /\ d \in 0 .. 9
                          /\ (10 * v + d) * u <= 10 * s
                          /\ 10 * s < (10 * v + d + 1) * u
        OBVIOUS
      <3>1. Tenfold % SIZES = s * 10
        <4>1. Tenfold \in Nat /\ Tenfold < SIZES /\ SIZES \in Nat
          BY TenfoldFits, FormatSizeAssumption
        <4>2. Tenfold % SIZES = Tenfold
          BY <4>1
        <4> QED
          BY <2>1, <4>2 DEF Tenfold
      <3>2. d = ((s * 10) \div u) % 10
        BY <2>1, <3>1 DEF Tenth
      <3> QED
        BY <2>2, <3>2, Digit
    <2>6. Whole <=> v >= 10
      BY <2>1 DEF Whole
    <2>7. d = -1 <=> v >= 10
      BY <2>1, <2>5, <2>6
    <2>8. o = 0 \/ u <= s
      <3>1. CASE v > 0
        <4>1. 1 * u <= v * u
          BY <2>2, <3>1, Multiples
        <4> QED
          BY <2>2, <4>1
      <3> QED
        BY <2>2, <3>1
    <2>9. o + 1 = ORDERS \/ s < Unit[o + 1]
      <3>1. CASE v < BASE
        <4>1. v + 1 <= BASE
          BY <2>2, <3>1
        <4>2. (v + 1) * u <= BASE * u
          BY <2>2, <4>1, Multiples
        <4>3. BASE * u \in Nat /\ (v + 1) * u \in Nat
          BY <2>2
        <4> QED
          BY <2>2, <2>4, <4>2, <4>3
      <3>2. CASE ~ (v < BASE)
        BY <2>1, <2>2, <2>3, <3>2, FormatSizeAssumption DEF Large
      <3> QED
        BY <3>1, <3>2
    <2>10. d # -1 => (10 * v + d) * u <= 10 * s /\ 10 * s < (10 * v + d + 1) * u
      BY <2>1, <2>5
    <2> QED
      BY <2>1, <2>2, <2>3, <2>4, <2>7, <2>8, <2>9, <2>10 DEF RoundedDown
  <1> QED
    BY <1>1, SizeInvariant, PTL
=============================================================================
