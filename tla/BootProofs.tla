----------------------------- MODULE BootProofs -----------------------------
(***************************************************************************)
(* Physical memory for every size of a page, a block and the machine:      *)
(* every page has one owner or is free, the free ones are counted, a       *)
(* child's memory is memory, and fork refuses for cause.  The USB bus, for *)
(* every hub and every configuration: the devices keep addresses and       *)
(* drivers of their own, endpoints are paired, and answers are matched.    *)
(***************************************************************************)
EXTENDS Memory, UsbBus, FiniteSetTheorems, SequenceTheorems, WellFoundedInduction, TLAPS

-----------------------------------------------------------------------------
(* Numbers.                                                                *)

LEMMA Before ==
    \E R : IsWellFoundedOn(R, Nat) /\ \A x, y \in Nat : y < x => <<y, x>> \in R
<1>1. ASSUME NEW x \in Nat, NEW y \in Nat, y < x PROVE <<y, x>> \in OpToRel(<, Nat)
  <2>1. <<y, x>> \in Nat \X Nat
    OBVIOUS
  <2>2. <<y, x>>[1] < <<y, x>>[2]
    BY <1>1
  <2> QED
    BY <2>1, <2>2, Zenon DEF OpToRel
<1>2. IsWellFoundedOn(OpToRel(<, Nat), Nat)
  BY NatLessThanWellFounded, Zenon
<1> QED
  BY <1>1, <1>2, Zenon

\* A set of numbers has a least one, which is what a scan finds.
LEMMA LeastNumber ==
    ASSUME NEW S \in SUBSET Nat, S # {}
    PROVE  \E x \in S : \A y \in S : x <= y
<1>1. PICK R : IsWellFoundedOn(R, Nat) /\ \A x, y \in Nat : y < x => <<y, x>> \in R
  BY Before
<1>2. PICK x \in S : \A y \in S : ~(<<y, x>> \in R)
  BY <1>1, WFMin
<1>3. ASSUME NEW y \in S PROVE x <= y
  <2>1. x \in Nat /\ y \in Nat
    OBVIOUS
  <2>2. y < x => <<y, x>> \in R
    BY <1>1, <2>1, Zenon
  <2> QED
    BY <1>2, <2>1, <2>2
<1> QED
  BY <1>3

LEMMA Grows ==
    ASSUME NEW a \in Int, NEW b \in Int, a <= b, NEW P \in Nat
    PROVE  a * P <= b * P
<1>1. PICK d \in Nat : b = a + d
  <2>1. b - a \in Nat /\ b = a + (b - a)
    OBVIOUS
  <2> QED
    BY <2>1
<1>2. b * P = a * P + d * P
  BY <1>1
<1>3. d * P \in Nat /\ a * P \in Int
  OBVIOUS
<1> QED
  BY <1>2, <1>3

LEMMA Quotient ==
    ASSUME NEW x \in Nat, NEW P \in Nat \ {0}
    PROVE  /\ x \div P \in Nat /\ x % P \in 0 .. P - 1
           /\ x = (x \div P) * P + (x % P)
BY Z3

\* A quotient is compared with a number as its dividend with the product.
LEMMA AtLeastQuotient ==
    ASSUME NEW x \in Nat, NEW P \in Nat \ {0}, NEW y \in Int
    PROVE  y * P <= x <=> y <= x \div P
<1> DEFINE q == x \div P
           r == x % P
<1>1. q \in Nat /\ r \in 0 .. P - 1 /\ x = q * P + r
  BY Quotient
<1> HIDE DEF q, r
<1>2. ASSUME y <= q PROVE y * P <= x
  <2>1. y * P <= q * P
    BY <1>1, <1>2, Grows
  <2>2. q * P \in Int /\ y * P \in Int
    BY <1>1
  <2> QED
    BY <1>1, <2>1, <2>2
<1>3. ASSUME ~(y <= q) PROVE ~(y * P <= x)
  <2>1. (q + 1) * P <= y * P
    BY <1>1, <1>3, Grows
  <2>2. (q + 1) * P = q * P + P /\ q * P \in Int /\ y * P \in Int
    BY <1>1
  <2> QED
    BY <1>1, <2>1, <2>2
<1> QED
  BY <1>2, <1>3 DEF q

\* Division is exact of a product, and then by the one and the other factor.
LEMMA ProductQuotient ==
    ASSUME NEW y \in Nat, NEW P \in Nat \ {0}
    PROVE  (y * P) \div P = y /\ (y * P) % P = 0
<1> DEFINE q == (y * P) \div P
<1>1. y * P \in Nat
  OBVIOUS
<1>2. q \in Nat /\ y <= q
  BY <1>1, Quotient, AtLeastQuotient
<1>3. ~(y + 1 <= q)
  <2>1. ~((y + 1) * P <= y * P)
    <3>1. (y + 1) * P = y * P + P
      OBVIOUS
    <3> QED
      BY <1>1, <3>1
  <2> QED
    BY <1>1, <2>1, AtLeastQuotient
<1>4. q = y
  BY <1>2, <1>3
<1> DEFINE r == (y * P) % P
<1>5. y * P = q * P + r /\ r \in 0 .. P - 1
  BY <1>1, Quotient
<1> HIDE DEF q, r
<1>6. q * P = y * P
  BY <1>4
<1>7. r = 0
  BY <1>1, <1>5, <1>6
<1> QED
  BY <1>4, <1>7 DEF q, r

-----------------------------------------------------------------------------
(* Ranges and the pages they cover.                                        *)

\* Rounding up, in pages: the first page that begins at a or after it.
LEMMA RoundedUp ==
    ASSUME NEW a \in Nat, NEW P \in Nat \ {0}
    PROVE  /\ AlignUp(a, P) \div P \in Nat
           /\ \A p \in Nat : p < AlignUp(a, P) \div P <=> p * P < a
<1> DEFINE q == (a + P - 1) \div P
<1>1. a + P - 1 \in Nat
  OBVIOUS
<1>2. q \in Nat /\ AlignUp(a, P) = q * P
  BY <1>1, Quotient DEF AlignUp, AlignDown
<1>3. AlignUp(a, P) \div P = q
  BY <1>2, ProductQuotient
<1>4. ASSUME NEW p \in Nat PROVE p < q <=> p * P < a
  <2>1. (p + 1) * P <= a + P - 1 <=> p + 1 <= q
    BY <1>1, AtLeastQuotient
  <2>2. (p + 1) * P = p * P + P /\ p * P \in Int
    OBVIOUS
  <2> HIDE DEF q
  <2> QED
    BY <1>2, <2>1, <2>2
<1> QED
  BY <1>2, <1>3, <1>4

Ranges == Nat \X Nat

\* A page is covered by a range when it is a page of the machine and has part
\* of the range in it.
LEMMA CoveredPages ==
    ASSUME Page \in Nat \ {0}, NEW n \in Nat, NEW r \in Ranges
    PROVE  \A p : p \in Covered(n, r) <=>
             /\ p \in 0 .. n - 1 /\ r[1] < r[2]
             /\ r[1] < (p + 1) * Page /\ p * Page < r[2]
<1>1. r[1] \in Nat /\ r[2] \in Nat
  BY DEF Ranges
<1>2. CASE r[2] <= r[1]
  BY <1>1, <1>2 DEF Covered
<1>3. CASE r[1] < r[2]
  <2> DEFINE e == AtMost(r[2], n * Page)
  <2>1. n * Page \in Nat /\ e \in Nat
    BY <1>1 DEF AtMost
  <2>2. Covered(n, r) = r[1] \div Page .. AlignUp(e, Page) \div Page - 1
    BY <1>1, <1>3 DEF Covered
  <2>3. r[1] \div Page \in Nat /\ AlignUp(e, Page) \div Page \in Nat
    BY <1>1, <2>1, Quotient, RoundedUp
  <2>4. ASSUME NEW p \in Nat
        PROVE  p \in Covered(n, r) <=>
                 p \in 0 .. n - 1 /\ r[1] < (p + 1) * Page /\ p * Page < r[2]
    <3>1. p < AlignUp(e, Page) \div Page <=> p * Page < e
      BY <2>1, RoundedUp
    <3>2. (p + 1) * Page <= r[1] <=> p + 1 <= r[1] \div Page
      <4>1. PICK lo \in Nat, y \in Int : lo = r[1] /\ y = p + 1
        BY <1>1
      <4>2. y * Page <= lo <=> y <= lo \div Page
        BY AtLeastQuotient
      <4> QED
        BY <4>1, <4>2
    <3>3. p * Page < n * Page <=> p < n
      <4>1. ASSUME p < n PROVE p * Page < n * Page
        <5>1. (p + 1) * Page <= n * Page
          BY <4>1, Grows
        <5>2. (p + 1) * Page = p * Page + Page /\ p * Page \in Int
          OBVIOUS
        <5> QED
          BY <2>1, <5>1, <5>2
      <4>2. ASSUME ~(p < n) PROVE ~(p * Page < n * Page)
        <5>1. n * Page <= p * Page
          BY <4>2, Grows
        <5> QED
          BY <2>1, <5>1
      <4> QED
        BY <4>1, <4>2
    <3>4. p * Page \in Nat /\ (p + 1) * Page \in Nat
      OBVIOUS
    <3>5. p * Page < e <=> p * Page < r[2] /\ p * Page < n * Page
      BY <1>1, <2>1, <3>4 DEF AtMost
    <3> HIDE DEF e
    <3>6. r[1] \div Page <= p <=> r[1] < (p + 1) * Page
      BY <1>1, <2>3, <3>2, <3>4
    <3> QED
      BY <2>2, <2>3, <3>1, <3>3, <3>5, <3>6
  <2>5. \A p \in Covered(n, r) : p \in Nat
    <3> HIDE DEF e
    <3> QED
      BY <2>2, <2>3
  <2> QED
    BY <1>3, <2>4, <2>5
<1> QED
  BY <1>1, <1>2, <1>3

-----------------------------------------------------------------------------
(* The lowest free pages.                                                  *)

\* What holds of 0 and of n + 1 when it holds of n < N holds up to N.
LEMMA CountsUp ==
    ASSUME NEW N \in Nat, NEW S, 0 \in S, \A n \in 0 .. N - 1 : n \in S => n + 1 \in S
    PROVE  0 .. N \subseteq S
<1> SUFFICES ASSUME ~(0 .. N \subseteq S) PROVE FALSE
  OBVIOUS
<1>1. (0 .. N) \ S \in SUBSET Nat /\ (0 .. N) \ S # {}
  OBVIOUS
<1>2. PICK x \in (0 .. N) \ S : \A y \in (0 .. N) \ S : x <= y
  BY <1>1, LeastNumber
<1>3. x # 0 /\ x \in Nat /\ x <= N
  BY <1>2
<1>4. x - 1 \in 0 .. N - 1 /\ x - 1 \in 0 .. N
  BY <1>3
<1>5. x - 1 \in S
  BY <1>2, <1>3, <1>4
<1> QED
  BY <1>2, <1>3, <1>4, <1>5

FreeTo(u, i) == {q \in 0 .. i - 1 : q \notin u}
Taken(u, k, i) == {p \in FreeTo(u, i) : Cardinality(FreeTo(u, p)) < k}

LEMMA FreeToFinite ==
    ASSUME NEW u, NEW i \in Nat
    PROVE  /\ IsFiniteSet(FreeTo(u, i)) /\ Cardinality(FreeTo(u, i)) \in Nat
           /\ \A k : IsFiniteSet(Taken(u, k, i)) /\ Cardinality(Taken(u, k, i)) \in Nat
<1>1. IsFiniteSet(0 .. i - 1)
  BY FS_Interval
<1>2. IsFiniteSet(FreeTo(u, i))
  BY <1>1, FS_Subset DEF FreeTo
<1>3. \A k : IsFiniteSet(Taken(u, k, i))
  BY <1>2, FS_Subset DEF Taken
<1> QED
  BY <1>2, <1>3, FS_CardinalityType

\* Of the free pages below i, k are taken or, when there are fewer, all.
LEMMA TakenCount ==
    ASSUME NEW u, NEW n \in Nat, NEW k \in Nat
    PROVE  Cardinality(Taken(u, k, n)) = AtMost(k, Cardinality(FreeTo(u, n)))
<1> DEFINE S == {i \in Nat : Cardinality(Taken(u, k, i)) = AtMost(k, Cardinality(FreeTo(u, i)))}
<1>1. 0 \in S
  <2>1. FreeTo(u, 0) = {} /\ Taken(u, k, 0) = {}
    BY DEF FreeTo, Taken
  <2> QED
    BY <2>1, FS_EmptySet DEF AtMost
<1>2. ASSUME NEW i \in 0 .. n - 1, i \in S PROVE i + 1 \in S
  <2> DEFINE c == Cardinality(FreeTo(u, i))
             t == Cardinality(Taken(u, k, i))
  <2>1. i \in Nat /\ c \in Nat /\ t \in Nat /\ t = AtMost(k, c)
    BY <1>2, FreeToFinite
  <2>2. CASE i \in u
    <3>1. FreeTo(u, i + 1) = FreeTo(u, i)
      BY <2>1, <2>2 DEF FreeTo
    <3>2. Taken(u, k, i + 1) = Taken(u, k, i)
      BY <3>1 DEF Taken
    <3> QED
      BY <2>1, <3>1, <3>2
  <2>3. CASE i \notin u
    <3>1. FreeTo(u, i + 1) = FreeTo(u, i) \cup {i} /\ i \notin FreeTo(u, i)
      BY <2>1, <2>3 DEF FreeTo
    <3>2. Cardinality(FreeTo(u, i + 1)) = c + 1
      BY <2>1, <3>1, FreeToFinite, FS_AddElement
    <3>3. i \notin Taken(u, k, i)
      BY <3>1 DEF Taken
    <3>4. CASE c < k
      <4>1. Taken(u, k, i + 1) = Taken(u, k, i) \cup {i}
        BY <3>1, <3>4 DEF Taken
      <4>2. Cardinality(Taken(u, k, i + 1)) = t + 1
        BY <2>1, <3>3, <4>1, FreeToFinite, FS_AddElement
      <4> HIDE DEF c, t
      <4> QED
        BY <2>1, <3>2, <3>4, <4>2 DEF AtMost
    <3>5. CASE ~(c < k)
      <4>1. Taken(u, k, i + 1) = Taken(u, k, i)
        BY <3>1, <3>5 DEF Taken
      <4>2. Cardinality(Taken(u, k, i + 1)) = t
        BY <4>1
      <4> HIDE DEF c, t
      <4> QED
        BY <2>1, <3>2, <3>5, <4>2 DEF AtMost
    <3> QED
      BY <3>4, <3>5
  <2> QED
    BY <2>2, <2>3
<1> HIDE DEF S
<1>3. 0 .. n \subseteq S
  BY <1>1, <1>2, CountsUp
<1> QED
  BY <1>3 DEF S

\* n calls of pmm_alloc_page find n free pages, or all there are.
LEMMA LowestFreePages ==
    ASSUME total \in Nat, NEW u, NEW m, m = Cardinality(Pages \ u), NEW n \in Nat
    PROVE  /\ m \in Nat
           /\ LowestFree(u, m, n) \subseteq Pages \ u
           /\ IsFiniteSet(LowestFree(u, m, n))
           /\ Cardinality(LowestFree(u, m, n)) = AtMost(n, m)
<1>1. Pages \ u = FreeTo(u, total)
  BY DEF Pages, FreeTo
<1>2. m \in Nat /\ AtMost(n, m) \in Nat /\ AtMost(n, m) <= m
  BY <1>1, FreeToFinite DEF AtMost
<1>3. LowestFree(u, m, n) = Taken(u, AtMost(n, m), total)
  <2>1. \A p : FreeTo(u, p) = {q \in 0 .. p - 1 : q \notin u}
    BY DEF FreeTo
  <2> QED
    BY <1>1, <2>1 DEF LowestFree, Taken
<1>4. Cardinality(Taken(u, AtMost(n, m), total)) = AtMost(AtMost(n, m), m)
  BY <1>1, <1>2, TakenCount
<1>5. AtMost(AtMost(n, m), m) = AtMost(n, m)
  BY <1>2 DEF AtMost
<1>6. Taken(u, AtMost(n, m), total) \subseteq FreeTo(u, total)
  BY DEF Taken
<1> QED
  BY <1>1, <1>2, <1>3, <1>4, <1>5, <1>6, FreeToFinite

-----------------------------------------------------------------------------
(* Counting what is free.                                                  *)

LEMMA PagesFinite ==
    ASSUME total \in Nat
    PROVE  \A s \in SUBSET Pages : IsFiniteSet(s) /\ Cardinality(s) \in Nat
<1>1. IsFiniteSet(Pages)
  <2>1. 0 \in Int /\ total - 1 \in Int
    OBVIOUS
  <2> QED
    BY <2>1, FS_Interval DEF Pages
<1> QED
  BY <1>1, FS_Subset, FS_CardinalityType

LEMMA CountTaken ==
    ASSUME total \in Nat, NEW u, NEW s \in SUBSET (Pages \ u)
    PROVE  Cardinality(Pages \ (u \cup s)) = Cardinality(Pages \ u) - Cardinality(s)
<1>1. IsFiniteSet(Pages \ u)
  BY PagesFinite
<1>2. (Pages \ u) \ s = Pages \ (u \cup s) /\ (Pages \ u) \cap s = s
  OBVIOUS
<1> QED
  BY <1>1, <1>2, FS_Difference

LEMMA CountGiven ==
    ASSUME total \in Nat, NEW u \in SUBSET Pages, NEW s
    PROVE  /\ Cardinality(Pages \ (u \ s)) = Cardinality(Pages \ u) + Cardinality(s \cap u)
           /\ Cardinality(s \cap u) \in Nat
<1>1. s \cap u \in SUBSET (Pages \ (u \ s)) /\ Pages \ ((u \ s) \cup (s \cap u)) = Pages \ u
  OBVIOUS
<1>2. Cardinality(Pages \ u) = Cardinality(Pages \ (u \ s)) - Cardinality(s \cap u)
  <2>1. PICK v, w : v = u \ s /\ w = s \cap u
    OBVIOUS
  <2>2. Cardinality(Pages \ (v \cup w)) = Cardinality(Pages \ v) - Cardinality(w)
    BY <1>1, <2>1, CountTaken
  <2> QED
    BY <1>1, <2>1, <2>2
<1>3. Cardinality(s \cap u) \in Nat /\ Cardinality(Pages \ (u \ s)) \in Nat
  BY PagesFinite
<1> QED
  BY <1>2, <1>3

-----------------------------------------------------------------------------
(* Blocks.                                                                 *)

IsBlock(pa, t) == t \in Nat /\ pa = t * (Block * Page)
BlockPages(t) == t * Block .. t * Block + Block - 1

LEMMA BlockFacts ==
    ASSUME MemoryAssumption, NEW pa, NEW t, IsBlock(pa, t)
    PROVE  /\ pa \in Nat /\ pa % (Block * Page) = 0 /\ pa \div (Block * Page) = t
           /\ PagesOf(pa) = BlockPages(t)
<1>1. Block \in Nat \ {0} /\ Page \in Nat \ {0} /\ t \in Nat
  BY DEF MemoryAssumption, IsBlock
<1>2. Block * Page \in Nat \ {0} /\ t * Block \in Nat
  <2>1. 1 * Page <= Block * Page
    BY <1>1, Grows
  <2> QED
    BY <1>1, <2>1
<1>3. pa = t * (Block * Page) /\ pa = (t * Block) * Page
  BY <1>1 DEF IsBlock
<1>4. pa \in Nat
  BY <1>1, <1>2, <1>3
<1>5. pa % (Block * Page) = 0 /\ pa \div (Block * Page) = t
  BY <1>1, <1>2, <1>3, ProductQuotient
<1>6. pa \div Page = t * Block
  BY <1>1, <1>2, <1>3, ProductQuotient
<1> QED
  BY <1>4, <1>5, <1>6 DEF PagesOf, BlockPages

\* What pmm_alloc_2mib_aligned returns is a free block.
LEMMA RoomIsBlock ==
    ASSUME MemoryAssumption, total \in Nat, NEW pa \in Room
    PROVE  \E t : IsBlock(pa, t) /\ PagesOf(pa) \in SUBSET (Pages \ used)
<1>1. Room = {Page * Min(Rooms)} /\ Rooms # {}
  BY DEF Room
<1>2. Rooms \in SUBSET Nat
  BY DEF Rooms, Pages
<1>3. Min(Rooms) \in Rooms
  BY <1>1, <1>2, LeastNumber DEF Min
<1>4. PICK b \in Rooms : pa = Page * b
  BY <1>1, <1>3
<1>5. /\ b \in Nat /\ b % Block = 0 /\ b + Block <= total
      /\ b .. b + Block - 1 \cap used = {}
  BY <1>4, <1>2 DEF Rooms
<1>6. Block \in Nat \ {0} /\ Page \in Nat \ {0}
  BY DEF MemoryAssumption
<1> DEFINE t == b \div Block
<1>7. t \in Nat /\ b = t * Block
  BY <1>5, <1>6, Quotient
<1> HIDE DEF t
<1>8. pa = t * (Block * Page)
  BY <1>4, <1>6, <1>7
<1>9. IsBlock(pa, t)
  BY <1>7, <1>8 DEF IsBlock
<1>10. PagesOf(pa) = b .. b + Block - 1
  BY <1>7, <1>9, BlockFacts DEF BlockPages
<1>11. b .. b + Block - 1 \subseteq Pages
  BY <1>5, <1>6 DEF Pages
<1> QED
  BY <1>5, <1>9, <1>10, <1>11

\* A block that has part of a range in it has a page that the range covers.
LEMMA BlockIsCovered ==
    ASSUME MemoryAssumption, NEW n \in Nat, NEW r \in Ranges, NEW t \in Nat,
           t * Block + Block <= n, r[1] < r[2],
           t * (Block * Page) < r[2], r[1] < (t + 1) * (Block * Page)
    PROVE  \E p \in BlockPages(t) : p \in Covered(n, r)
<1>1. Block \in Nat \ {0} /\ Page \in Nat \ {0} /\ r[1] \in Nat /\ r[2] \in Nat
  BY DEF MemoryAssumption, Ranges
<1>2. PICK b \in Nat : b = t * Block
  BY <1>1
<1>3. t * (Block * Page) = b * Page /\ (t + 1) * (Block * Page) = (b + Block) * Page
  BY <1>1, <1>2
<1>4. CASE r[1] < (b + 1) * Page
  <2>1. b \in BlockPages(t) /\ b \in 0 .. n - 1
    BY <1>1, <1>2 DEF BlockPages
  <2>2. b * Page < r[2]
    BY <1>3
  <2>3. b \in Covered(n, r)
    BY <1>1, <1>4, <2>1, <2>2, CoveredPages
  <2> QED
    BY <2>1, <2>3
<1>5. CASE ~(r[1] < (b + 1) * Page)
  <2>1. PICK lo \in Nat : lo = r[1]
    BY <1>1
  <2> DEFINE p == lo \div Page
             m == lo % Page
  <2>2. p \in Nat /\ lo = p * Page + m /\ m \in 0 .. Page - 1
    BY <1>1, <2>1, Quotient
  <2>3. \A y \in Nat : y * Page <= lo <=> y <= p
    BY <1>1, <2>1, AtLeastQuotient
  <2> HIDE DEF p, m
  <2>4. (p + 1) * Page = p * Page + Page /\ p * Page \in Nat
    BY <1>1, <2>2
  <2>5. p * Page <= r[1] /\ r[1] < (p + 1) * Page
    BY <1>1, <2>1, <2>2, <2>4
  <2>6. b + 1 <= p
    <3>1. b + 1 \in Nat /\ (b + 1) * Page \in Nat
      BY <1>1
    <3>2. (b + 1) * Page <= lo
      BY <1>5, <2>1, <3>1
    <3> QED
      BY <2>3, <3>1, <3>2
  <2>7. ~(b + Block <= p)
    <3>1. b + Block \in Nat /\ (b + Block) * Page \in Nat
      BY <1>1
    <3>2. ~((b + Block) * Page <= lo)
      BY <1>3, <2>1, <3>1
    <3> QED
      BY <2>3, <3>1, <3>2
  <2>8. p \in BlockPages(t) /\ p \in 0 .. n - 1
    BY <1>1, <1>2, <2>2, <2>6, <2>7 DEF BlockPages
  <2>9. p * Page < r[2]
    BY <1>1, <2>4, <2>5
  <2>10. p \in Covered(n, r)
    BY <1>1, <2>5, <2>8, <2>9, CoveredPages
  <2> QED
    BY <2>8, <2>10
<1> QED
  BY <1>4, <1>5

-----------------------------------------------------------------------------
(* The inductive invariant.                                                *)

UserPages == Covered(total, <<UserRegion, UserRegion + Block * Page>>)

MemTypeOK ==
    /\ machine \in Boots
    /\ total \in Nat
    /\ used \in SUBSET Pages /\ free_pages = Cardinality(Pages \ used)
    /\ children \in SUBSET [pa : Nat, tables : SUBSET Pages]
    /\ boot \in {"boot", "mapped", "up", "stopped"}

Held(c) == PagesOf(c.pa) \cup c.tables
Lasting == reserved \cup kernel \cup stale

\* Every used page belongs to one of those who took pages.
Owned ==
    /\ reserved \cap kernel = {} /\ reserved \cap stale = {} /\ kernel \cap stale = {}
    /\ \A p : p \in used <=> p \in Lasting \/ \E c \in children : p \in Held(c)
    /\ \A c \in children : Held(c) \cap Lasting = {} /\ PagesOf(c.pa) \cap c.tables = {}
    /\ \A c, d \in children : c # d => Held(c) \cap Held(d) = {}

\* A child has a block and some tables.
Children ==
    \A c \in children :
        /\ c.tables # {}
        /\ \E t : IsBlock(c.pa, t) /\ PagesOf(c.pa) \in SUBSET Pages

\* How far boot has come, and what has been reserved by then.
Booted ==
    /\ boot \in {"boot", "mapped"} /\ total # 0 =>
          /\ total = machine.size \div Page /\ machine.size >= MinPages * Page
          /\ reserved = Initial(machine)
    /\ boot = "boot" => kernel = {}
    /\ boot = "mapped" => total # 0 /\ Cardinality(kernel) = 4
    /\ boot # "up" => children = {} /\ stale = {} /\ device = {} /\ forked = "none"
    /\ total # 0 => UserPages \subseteq reserved
    /\ boot = "up" => Covered(total, machine.fb) \subseteq reserved \cup kernel

\* A block is device memory only if it has part of the framebuffer in it.
Devices ==
    \A t \in device : t \in Nat => /\ t * (Block * Page) < machine.fb[2]
                                  /\ machine.fb[1] < (t + 1) * (Block * Page)

MemInv == MemTypeOK /\ Owned /\ Children /\ Booted /\ Devices /\ ForkRefusesForCause

LEMMA MachineParts ==
    ASSUME MemoryAssumption, NEW m \in Boots
    PROVE  /\ m.size \in Nat /\ m.kernel \in Ranges /\ m.dtb \in Ranges /\ m.fb \in Ranges
           /\ <<0, Low>> \in Ranges /\ <<UserRegion, UserRegion + Block * Page>> \in Ranges
           /\ m.fb[1] \in Nat /\ m.fb[2] \in Nat
           /\ m.fb = <<0, 0>> \/ m.fb[1] < m.fb[2]
           /\ m.size \div Page \in Nat
<1>1. m \in [size : Nat, kernel : Nat \X Nat, dtb : Nat \X Nat, fb : Nat \X Nat]
  BY DEF MemoryAssumption
<1>2. /\ m.size \in Nat /\ m.kernel \in Ranges /\ m.dtb \in Ranges /\ m.fb \in Ranges
  BY <1>1 DEF Ranges
<1>3. Low \in Nat /\ UserRegion \in Nat /\ Block * Page \in Nat /\ Page \in Nat \ {0}
  BY DEF MemoryAssumption
<1>4. m.size \div Page \in Nat
  BY <1>2, <1>3, Quotient
<1> QED
  BY <1>2, <1>3, <1>4 DEF Ranges, MemoryAssumption

LEMMA CoveredIsPages ==
    ASSUME MemoryAssumption, NEW n \in Nat, NEW r \in Ranges
    PROVE  Covered(n, r) \subseteq 0 .. n - 1
<1>1. Page \in Nat \ {0}
  BY DEF MemoryAssumption
<1> QED
  BY <1>1, CoveredPages

LEMMA InitialPages ==
    ASSUME MemoryAssumption, NEW m \in Boots
    PROVE  /\ Initial(m) \subseteq 0 .. m.size \div Page - 1
           /\ Covered(m.size \div Page, <<UserRegion, UserRegion + Block * Page>>)
                \subseteq Initial(m)
<1> DEFINE n == m.size \div Page
<1>1. /\ Covered(n, <<0, Low>>) \subseteq 0 .. n - 1
      /\ Covered(n, m.kernel) \subseteq 0 .. n - 1
      /\ Covered(n, m.dtb) \subseteq 0 .. n - 1
      /\ Covered(n, <<UserRegion, UserRegion + Block * Page>>) \subseteq 0 .. n - 1
  BY MachineParts, CoveredIsPages
<1> QED
  BY <1>1 DEF Initial

LEMMA InitMem ==
    ASSUME MemoryAssumption, MemInit
    PROVE  MemInv
<1>1. /\ machine \in Boots /\ used = reserved /\ free_pages = total - Cardinality(reserved)
      /\ device = {} /\ boot = "boot" /\ kernel = {} /\ children = {} /\ stale = {}
      /\ forked = "none"
  BY DEF MemInit
<1>2. /\ total \in Nat /\ reserved \subseteq Pages
      /\ total # 0 => /\ total = machine.size \div Page /\ machine.size >= MinPages * Page
                      /\ reserved = Initial(machine)
                      /\ UserPages \subseteq reserved
  <2>1. CASE machine.size < MinPages * Page
    BY <2>1 DEF MemInit
  <2>2. CASE ~(machine.size < MinPages * Page)
    <3>1. total = machine.size \div Page /\ reserved = Initial(machine)
      BY <2>2 DEF MemInit
    <3>2. machine.size >= MinPages * Page
      <4>1. machine.size \in Nat /\ MinPages * Page \in Nat
        BY <1>1, MachineParts DEF MemoryAssumption
      <4> QED
        BY <2>2, <4>1
    <3> QED
      BY <1>1, <3>1, <3>2, InitialPages, MachineParts DEF Pages, UserPages
  <2> QED
    BY <2>1, <2>2
<1>3. free_pages = Cardinality(Pages \ used)
  <2>1. Cardinality(Pages) = total /\ IsFiniteSet(Pages)
    <3>1. 0 \in Int /\ total - 1 \in Int
      BY <1>2
    <3>2. Cardinality(Pages) = IF 0 > total - 1 THEN 0 ELSE total - 1 - 0 + 1
      BY <3>1, FS_Interval DEF Pages
    <3>3. IsFiniteSet(Pages)
      BY <3>1, FS_Interval DEF Pages
    <3> QED
      BY <1>2, <3>2, <3>3
  <2>2. Pages \cap reserved = reserved
    BY <1>2
  <2> QED
    BY <1>1, <2>1, <2>2, FS_Difference
<1>4. MemTypeOK
  BY <1>1, <1>2, <1>3 DEF MemTypeOK
<1>5. Owned
  BY <1>1 DEF Owned, Lasting
<1>6. Children /\ Devices /\ ForkRefusesForCause
  BY <1>1 DEF Children, Devices, ForkRefusesForCause
<1>7. Booted
  BY <1>1, <1>2 DEF Booted
<1> QED
  BY <1>4, <1>5, <1>6, <1>7 DEF MemInv

\* Boot: the kernel's tables.
LEMMA StepTables ==
    ASSUME MemoryAssumption, MemInv, mmu_init_identity
    PROVE  MemInv'
<1>1. /\ boot = "boot" /\ kernel' = LowestFree(used, free_pages, 4)
      /\ used' = used \cup kernel' /\ free_pages' = free_pages - Cardinality(kernel')
      /\ boot' = IF Cardinality(kernel') = 4 THEN "mapped" ELSE "stopped"
      /\ UNCHANGED <<total, device, machine, reserved, children, stale, forked>>
  BY DEF mmu_init_identity
<1>2. MemTypeOK /\ Owned /\ Booted /\ total \in Nat /\ free_pages = Cardinality(Pages \ used)
  BY DEF MemInv, MemTypeOK
<1>3. kernel' \in SUBSET (Pages \ used) /\ IsFiniteSet(kernel')
  BY <1>1, <1>2, LowestFreePages
<1>4. Pages' = Pages
  BY <1>1 DEF Pages
<1>5. free_pages' = Cardinality(Pages' \ used')
  BY <1>1, <1>2, <1>3, <1>4, CountTaken
<1>6. MemTypeOK'
  BY <1>1, <1>2, <1>3, <1>4, <1>5 DEF MemTypeOK
<1>7. children = {} /\ stale = {} /\ device = {} /\ forked = "none" /\ kernel = {}
  BY <1>1, <1>2 DEF Booted
<1>8. Owned'
  BY <1>1, <1>2, <1>3, <1>7 DEF Owned, Lasting
<1>9. Children' /\ Devices' /\ ForkRefusesForCause'
  BY <1>1, <1>7 DEF Children, Devices, ForkRefusesForCause
<1>10. Booted'
  <2>1. UserPages' = UserPages /\ boot' \in {"mapped", "stopped"}
    BY <1>1 DEF UserPages, Covered, AlignUp, AlignDown, AtMost
  <2>2. boot' = "mapped" => total # 0 /\ Cardinality(kernel') = 4
    <3>1. total = 0 => kernel' = {}
      BY <1>2, <1>3 DEF Pages
    <3>2. Cardinality({}) = 0
      BY FS_EmptySet
    <3> QED
      BY <1>1, <3>1, <3>2
  <2>3. total # 0 => UserPages \subseteq reserved
    BY <1>2 DEF Booted
  <2>4. total # 0 => /\ total = machine.size \div Page /\ machine.size >= MinPages * Page
                     /\ reserved = Initial(machine)
    BY <1>1, <1>2 DEF Booted
  <2>5. Initial(machine)' = Initial(machine)
    BY <1>1 DEF Initial
  <2> QED
    BY <1>1, <1>7, <2>1, <2>2, <2>3, <2>4, <2>5 DEF Booted
<1> QED
  BY <1>6, <1>8, <1>9, <1>10 DEF MemInv

\* Three pages are left for the self-test when the framebuffer is reserved.
LEMMA SelfTestPages ==
    ASSUME MemoryAssumption, RoomToBoot, MemInv, boot = "mapped",
           NEW s, s = Covered(total, machine.fb)
    PROVE  /\ s \in SUBSET Pages
           /\ free_pages - Cardinality(s \ used) = Cardinality(Pages \ (used \cup s))
           /\ Cardinality(Pages \ (used \cup s)) \in Nat
           /\ Cardinality(Pages \ (used \cup s)) >= 3
<1>1. MemTypeOK /\ Owned /\ Booted /\ total \in Nat /\ machine \in Boots
      /\ used \in SUBSET Pages /\ free_pages = Cardinality(Pages \ used)
  BY DEF MemInv, MemTypeOK
<1>2. /\ total = machine.size \div Page /\ machine.size >= MinPages * Page
      /\ reserved = Initial(machine) /\ Cardinality(kernel) = 4
      /\ children = {} /\ stale = {}
  BY <1>1 DEF Booted
<1>3. s \in SUBSET Pages
  BY <1>1, MachineParts, CoveredIsPages DEF Pages
<1>4. s \ used \in SUBSET (Pages \ used) /\ used \cup (s \ used) = used \cup s
  BY <1>3
<1>5. Cardinality(Pages \ (used \cup s)) = free_pages - Cardinality(s \ used)
  <2>1. PICK w : w = s \ used
    OBVIOUS
  <2>2. Cardinality(Pages \ (used \cup w)) = Cardinality(Pages \ used) - Cardinality(w)
    BY <1>1, <1>4, <2>1, CountTaken
  <2> QED
    BY <1>1, <1>4, <2>1, <2>2
<1>6. Cardinality(Pages \ (used \cup s)) \in Nat
  BY <1>1, PagesFinite
<1> DEFINE F == Pages \ (reserved \cup s)
<1>7. Cardinality(F) >= 7
  <2>1. Cardinality(0 .. machine.size \div Page - 1 \
                      (Initial(machine) \cup Covered(machine.size \div Page, machine.fb))) >= 7
    BY <1>1, <1>2 DEF RoomToBoot
  <2> QED
    BY <1>2, <2>1 DEF Pages
<1>8. kernel \in SUBSET Pages /\ used = reserved \cup kernel
  <2>1. \A p : p \in used <=> p \in reserved \/ p \in kernel
    BY <1>1, <1>2 DEF Owned, Lasting
  <2> QED
    BY <1>1, <2>1
<1>9. Pages \ (used \cup s) = F \ kernel
  BY <1>8
<1>10. IsFiniteSet(F) /\ IsFiniteSet(kernel)
  BY <1>1, <1>8, PagesFinite
<1>11. Cardinality(F \ kernel) = Cardinality(F) - Cardinality(F \cap kernel)
  BY <1>10, FS_Difference
<1>12. Cardinality(F \cap kernel) <= 4
  BY <1>2, <1>10, FS_Intersection
<1>13. Cardinality(F) \in Nat /\ Cardinality(F \cap kernel) \in Nat
  BY <1>10, FS_CardinalityType, FS_Intersection
<1> HIDE DEF F
<1>14. Cardinality(Pages \ (used \cup s)) >= 3
  <2>1. PICK a \in Nat, b \in Nat : a = Cardinality(F) /\ b = Cardinality(F \cap kernel)
    BY <1>13
  <2>2. Cardinality(Pages \ (used \cup s)) = a - b
    BY <1>9, <1>11, <2>1
  <2>3. a >= 7 /\ b <= 4
    BY <1>7, <1>12, <2>1
  <2> QED
    BY <2>2, <2>3
<1> QED
  BY <1>3, <1>5, <1>6, <1>14

\* Boot: the framebuffer.
LEMMA StepFramebuffer ==
    ASSUME MemoryAssumption, RoomToBoot, MemInv, NEW quick \in BOOLEAN, fb_init(quick)
    PROVE  MemInv'
<1>1. PICK s : s = Covered(total, machine.fb)
  OBVIOUS
<1>2. /\ boot = "mapped" /\ boot' = "up" /\ reserved' = reserved \cup (s \ used)
      /\ UNCHANGED <<total, machine, kernel, children, stale, forked>>
  BY <1>1 DEF fb_init
<1>3. /\ s \in SUBSET Pages
      /\ free_pages - Cardinality(s \ used) = Cardinality(Pages \ (used \cup s))
      /\ ~(free_pages - Cardinality(s \ used) < 3)
      /\ Cardinality(Pages \ (used \cup s)) \in Nat
  <2>1. boot = "mapped"
    BY <1>2
  <2>2. /\ s \in SUBSET Pages
        /\ free_pages - Cardinality(s \ used) = Cardinality(Pages \ (used \cup s))
        /\ Cardinality(Pages \ (used \cup s)) \in Nat
        /\ Cardinality(Pages \ (used \cup s)) >= 3
    BY <1>1, <2>1, SelfTestPages
  <2> QED
    BY <2>2
<1>4. used' = used \cup s /\ free_pages' = Cardinality(Pages \ (used \cup s))
  <2>1. GiveBack(used \cup s, free_pages - Cardinality(s \ used), {})
    BY <1>1, <1>3 DEF fb_init
  <2>2. {} \cap (used \cup s) = {} /\ Cardinality({}) = 0
    BY FS_EmptySet
  <2> QED
    BY <1>3, <2>1, <2>2 DEF GiveBack
<1>5. /\ MemTypeOK /\ Owned /\ Booted /\ total \in Nat /\ machine \in Boots
      /\ used \in SUBSET Pages
  BY DEF MemInv, MemTypeOK
<1>6. children = {} /\ stale = {} /\ forked = "none"
  BY <1>2, <1>5 DEF Booted
<1>7. Pages' = Pages
  BY <1>2 DEF Pages
<1>8. MemTypeOK'
  BY <1>2, <1>3, <1>4, <1>5, <1>7 DEF MemTypeOK
<1>9. Owned'
  <2>1. \A p : p \in used <=> p \in reserved \/ p \in kernel
    BY <1>5, <1>6 DEF Owned, Lasting
  <2>2. reserved \cap kernel = {}
    BY <1>5 DEF Owned
  <2> QED
    BY <1>2, <1>4, <1>6, <2>1, <2>2 DEF Owned, Lasting
<1>10. Children' /\ ForkRefusesForCause'
  BY <1>2, <1>6 DEF Children, ForkRefusesForCause
<1>11. Booted'
  <2>1. UserPages' = UserPages /\ Covered(total, machine.fb)' = Covered(total, machine.fb)
    BY <1>2 DEF UserPages, Covered, AlignUp, AlignDown, AtMost
  <2>2. s \subseteq reserved' \cup kernel'
    <3>1. \A p : p \in used <=> p \in reserved \/ p \in kernel
      BY <1>5, <1>6 DEF Owned, Lasting
    <3> QED
      BY <1>2, <3>1
  <2>3. total # 0 => UserPages \subseteq reserved
    BY <1>5 DEF Booted
  <2> QED
    BY <1>1, <1>2, <2>1, <2>2, <2>3 DEF Booted
<1>12. Devices'
  <2>1. CASE device' = {}
    BY <2>1 DEF Devices
  <2>2. CASE device' = AlignDown(machine.fb[1], Block * Page) \div (Block * Page)
                       .. AlignUp(machine.fb[2], Block * Page) \div (Block * Page) - 1
    <3>1. PICK lo \in Nat, hi \in Nat : lo = machine.fb[1] /\ hi = machine.fb[2]
      BY <1>5, MachineParts
    <3>2. PICK BP \in Nat \ {0} : BP = Block * Page
      <4>1. Block \in Nat \ {0} /\ Page \in Nat \ {0}
        BY DEF MemoryAssumption
      <4>2. 1 * Page <= Block * Page
        BY <4>1, Grows
      <4> QED
        BY <4>1, <4>2
    <3>3. AlignDown(lo, BP) \div BP = lo \div BP /\ lo \div BP \in Nat
      BY Quotient, ProductQuotient DEF AlignDown
    <3>4. AlignUp(hi, BP) \div BP \in Nat
      BY RoundedUp
    <3>5. ASSUME NEW t \in device', t \in Nat
          PROVE  t * BP < hi /\ lo < (t + 1) * BP
      <4>1. lo \div BP <= t /\ t < AlignUp(hi, BP) \div BP
        BY <2>2, <3>1, <3>2, <3>3, <3>4, <3>5
      <4>2. t * BP < hi
        BY <3>5, <4>1, RoundedUp
      <4>3. ~((t + 1) * BP <= lo)
        BY <3>3, <3>5, <4>1, AtLeastQuotient
      <4>4. (t + 1) * BP \in Nat
        BY <3>5
      <4> QED
        BY <4>2, <4>3, <4>4
    <3> QED
      BY <1>2, <3>1, <3>2, <3>5 DEF Devices
  <2> QED
    BY <2>1, <2>2 DEF fb_init
<1> QED
  BY <1>8, <1>9, <1>10, <1>11, <1>12 DEF MemInv

\* What boot has settled stays when only children come and go.
LEMMA BootStays ==
    ASSUME MemoryAssumption, MemInv, boot = "up",
           UNCHANGED <<total, device, boot, machine, reserved, kernel>>
    PROVE  Booted' /\ Devices' /\ Pages' = Pages
<1>1. Pages' = Pages /\ UserPages' = UserPages
  BY DEF Pages, UserPages, Covered, AlignUp, AlignDown, AtMost
<1>2. Covered(total, machine.fb)' = Covered(total, machine.fb)
  BY DEF Covered, AlignUp, AlignDown, AtMost
<1>3. Booted /\ Devices
  BY DEF MemInv
<1>4. Booted'
  BY <1>1, <1>2, <1>3 DEF Booted
<1>5. Devices'
  BY <1>3 DEF Devices
<1> QED
  BY <1>1, <1>4, <1>5

\* What a fork takes: a block, and three tables or all there are.
LEMMA ForkTakes ==
    ASSUME MemoryAssumption, MemInv, NEW pa \in Room,
           NEW tables, tables = LowestFree(used \cup PagesOf(pa), free_pages - Block, 3)
    PROVE  /\ pa \in Nat /\ PagesOf(pa) # {} /\ \E t : IsBlock(pa, t)
           /\ PagesOf(pa) \in SUBSET (Pages \ used)
           /\ tables \in SUBSET (Pages \ (used \cup PagesOf(pa)))
           /\ IsFiniteSet(tables) /\ Cardinality(tables) \in Nat
           /\ Cardinality(tables) = AtMost(3, free_pages - Block)
           /\ Cardinality(PagesOf(pa)) = Block /\ free_pages - Block \in Nat
           /\ free_pages - Block - Cardinality(tables)
                = Cardinality(Pages \ (used \cup PagesOf(pa) \cup tables))
<1>1. /\ total \in Nat /\ used \in SUBSET Pages
      /\ free_pages = Cardinality(Pages \ used)
      /\ Block \in Nat \ {0}
  BY DEF MemInv, MemTypeOK, MemoryAssumption
<1>2. PICK t : IsBlock(pa, t) /\ PagesOf(pa) \in SUBSET (Pages \ used)
  BY <1>1, RoomIsBlock
<1>3. pa \in Nat /\ PagesOf(pa) = BlockPages(t)
  BY <1>2, BlockFacts
<1>4. Cardinality(PagesOf(pa)) = Block /\ PagesOf(pa) # {}
  <2>1. PICK b \in Nat : b = t * Block
    BY <1>1, <1>2 DEF IsBlock
  <2>2. PagesOf(pa) = b .. b + Block - 1
    BY <1>3, <2>1 DEF BlockPages
  <2>3. PICK e \in Int : e = b + Block - 1
    BY <1>1
  <2>4. b \in Int /\ b <= e /\ e - b + 1 = Block
    BY <1>1, <2>3
  <2>5. Cardinality(b .. e) = IF b > e THEN 0 ELSE e - b + 1
    BY <2>4, FS_Interval
  <2>6. Cardinality(b .. e) = Block
    BY <2>4, <2>5
  <2>7. b \in b .. e
    BY <2>4
  <2> QED
    BY <2>2, <2>3, <2>6, <2>7
<1>5. PICK u : u = used \cup PagesOf(pa)
  OBVIOUS
<1>6. Cardinality(Pages \ u) = free_pages - Block
  BY <1>1, <1>2, <1>4, <1>5, CountTaken
<1>7. PICK m : m = free_pages - Block
  OBVIOUS
<1>8. /\ m \in Nat /\ tables \in SUBSET (Pages \ u)
      /\ IsFiniteSet(tables) /\ Cardinality(tables) = AtMost(3, m)
  <2>1. m = Cardinality(Pages \ u) /\ tables = LowestFree(u, m, 3) /\ 3 \in Nat
    BY <1>5, <1>6, <1>7
  <2> QED
    BY <1>1, <2>1, LowestFreePages
<1>9. Cardinality(Pages \ (u \cup tables)) = m - Cardinality(tables)
  BY <1>1, <1>6, <1>7, <1>8, CountTaken
<1>10. Cardinality(tables) \in Nat
  BY <1>8, FS_CardinalityType
<1> QED
  BY <1>2, <1>3, <1>4, <1>5, <1>7, <1>8, <1>9, <1>10

LEMMA StepFork ==
    ASSUME MemoryAssumption, MemInv, fork
    PROVE  MemInv'
<1>1. boot = "up" /\ UNCHANGED <<total, device, boot, machine, reserved, kernel>>
  BY DEF fork
<1>2. Booted' /\ Devices' /\ Pages' = Pages
  BY <1>1, BootStays
<1>3. /\ MemTypeOK /\ Owned /\ Children /\ total \in Nat /\ used \in SUBSET Pages
      /\ free_pages = Cardinality(Pages \ used) /\ Block \in Nat \ {0}
  BY DEF MemInv, MemTypeOK, MemoryAssumption
<1>4. CASE Room = {} /\ forked' = "EMFILE" /\ UNCHANGED <<used, free_pages, children, stale>>
  <2>1. MemTypeOK' /\ Owned' /\ Children'
    BY <1>1, <1>2, <1>3, <1>4 DEF MemTypeOK, Owned, Children, Held, Lasting
  <2>2. Rooms' = Rooms
    BY <1>1, <1>2, <1>4 DEF Rooms
  <2>3. free_pages \in Nat
    BY <1>3, PagesFinite
  <2>4. Rooms = {} \/ free_pages < Block + 3
    BY <1>3, <1>4, <2>3 DEF Room
  <2>5. ForkRefusesForCause'
    BY <1>4, <2>2, <2>4 DEF ForkRefusesForCause
  <2> QED
    BY <1>2, <2>1, <2>5 DEF MemInv
<1>5. ASSUME NEW pa \in Room, NEW block, block = PagesOf(pa), NEW tables,
             tables = LowestFree(used \cup block, free_pages - Block, 3),
             NEW n, n = free_pages - Block - Cardinality(tables),
             Cardinality(tables) = 3,
             used' = used \cup block \cup tables, free_pages' = n,
             children' = children \cup {[pa |-> pa, tables |-> tables]},
             forked' = "ok", stale' = stale
      PROVE  MemInv'
  <2> DEFINE c0 == [pa |-> pa, tables |-> tables]
  <2>1. /\ pa \in Nat /\ block # {} /\ \E t : IsBlock(pa, t)
        /\ block \in SUBSET (Pages \ used)
        /\ tables \in SUBSET (Pages \ (used \cup block))
        /\ n = Cardinality(Pages \ (used \cup block \cup tables))
    <3>1. tables = LowestFree(used \cup PagesOf(pa), free_pages - Block, 3)
      BY <1>5
    <3> QED
      BY <1>5, <3>1, ForkTakes
  <2>2. tables # {}
    <3>1. Cardinality({}) = 0
      BY FS_EmptySet
    <3> QED
      BY <1>5, <3>1
  <2>3. c0.pa = pa /\ c0.tables = tables /\ PagesOf(c0.pa) = block /\ Held(c0) = block \cup tables
    BY <1>5 DEF Held
  <2>4. c0 \in [pa : Nat, tables : SUBSET Pages]
    BY <2>1
  <2> HIDE DEF c0
  <2>5. children' = children \cup {c0}
    BY <1>5 DEF c0
  <2>6. MemTypeOK'
    BY <1>1, <1>2, <1>3, <1>5, <2>1, <2>4, <2>5 DEF MemTypeOK
  <2>7. \A c \in children : Held(c) \subseteq used
    BY <1>3 DEF Owned
  <2>8. Owned'
    <3>1. Lasting' = Lasting /\ Lasting \subseteq used
      BY <1>1, <1>3, <1>5 DEF Owned, Lasting
    <3>2. \A p : p \in used' <=> p \in Lasting' \/ \E c \in children' : p \in Held(c)
      <4>1. \A p : p \in used' <=> p \in used \/ p \in Held(c0)
        BY <1>5, <2>3
      <4> QED
        BY <1>3, <2>5, <3>1, <4>1 DEF Owned
    <3>3. Held(c0) \cap used = {} /\ PagesOf(c0.pa) \cap c0.tables = {}
      BY <2>1, <2>3
    <3>4. \A c \in children' : Held(c) \cap Lasting' = {} /\ PagesOf(c.pa) \cap c.tables = {}
      BY <1>3, <2>5, <3>1, <3>3 DEF Owned
    <3>5. \A c, d \in children' : c # d => Held(c) \cap Held(d) = {}
      BY <1>3, <2>5, <2>7, <3>3 DEF Owned
    <3> QED
      BY <1>1, <1>3, <1>5, <3>2, <3>4, <3>5 DEF Owned
  <2>9. Children'
    BY <1>2, <1>3, <2>1, <2>2, <2>3, <2>5 DEF Children
  <2>10. ForkRefusesForCause'
    BY <1>5 DEF ForkRefusesForCause
  <2> QED
    BY <1>2, <2>6, <2>8, <2>9, <2>10 DEF MemInv
<1>6. ASSUME NEW pa \in Room, NEW block, block = PagesOf(pa), NEW tables,
             tables = LowestFree(used \cup block, free_pages - Block, 3),
             NEW n, n = free_pages - Block - Cardinality(tables),
             Cardinality(tables) # 3,
             GiveBack(used \cup block \cup tables, n, block),
             stale' = stale \cup tables, forked' = "EMFILE", children' = children
      PROVE  MemInv'
  <2>1. /\ block \in SUBSET (Pages \ used)
        /\ tables \in SUBSET (Pages \ (used \cup block))
        /\ Cardinality(tables) \in Nat
        /\ Cardinality(tables) = AtMost(3, free_pages - Block)
        /\ Cardinality(block) = Block /\ free_pages - Block \in Nat
        /\ n = Cardinality(Pages \ (used \cup block \cup tables))
    <3>1. tables = LowestFree(used \cup PagesOf(pa), free_pages - Block, 3)
      BY <1>6
    <3> QED
      BY <1>6, <3>1, ForkTakes
  <2>2. PICK u : u = used \cup block \cup tables
    OBVIOUS
  <2>3. u \in SUBSET Pages /\ block \cap u = block /\ u \ block = used \cup tables
    BY <1>3, <2>1, <2>2
  <2>4. used' = used \cup tables /\ free_pages' = n + Block
    BY <1>6, <2>1, <2>2, <2>3 DEF GiveBack
  <2>5. free_pages' = Cardinality(Pages \ used')
    <3>1. Cardinality(Pages \ (u \ block)) = Cardinality(Pages \ u) + Cardinality(block \cap u)
      BY <1>3, <2>3, CountGiven
    <3> QED
      BY <2>1, <2>2, <2>3, <2>4, <3>1
  <2>6. MemTypeOK'
    BY <1>1, <1>2, <1>3, <1>6, <2>1, <2>4, <2>5 DEF MemTypeOK
  <2>7. Owned'
    <3>1. Lasting' = Lasting \cup tables /\ Lasting \subseteq used /\ tables \cap used = {}
      BY <1>1, <1>3, <1>6, <2>1 DEF Owned, Lasting
    <3>2. \A c \in children : Held(c) \subseteq used
      BY <1>3 DEF Owned
    <3>3. \A c \in children' : Held(c) \cap Lasting' = {}
      BY <1>3, <1>6, <3>1, <3>2 DEF Owned
    <3>4. \A p : p \in used' <=> p \in Lasting' \/ \E c \in children' : p \in Held(c)
      BY <1>3, <1>6, <2>4, <3>1 DEF Owned
    <3>5. reserved \subseteq used /\ kernel \subseteq used
      BY <3>1 DEF Lasting
    <3> QED
      BY <1>1, <1>3, <1>6, <3>1, <3>3, <3>4, <3>5 DEF Owned
  <2>8. Children'
    BY <1>2, <1>3, <1>6 DEF Children
  <2>9. ForkRefusesForCause'
    <3>1. PICK a \in Nat : a = free_pages - Block
      BY <2>1
    <3>2. a < 3
      BY <1>6, <2>1, <3>1 DEF AtMost
    <3>3. free_pages' = a - Cardinality(tables) + Block
      BY <1>6, <2>4, <3>1
    <3>4. free_pages' < Block + 3
      BY <1>3, <2>1, <3>2, <3>3
    <3> QED
      BY <3>4 DEF ForkRefusesForCause
  <2> QED
    BY <1>2, <2>6, <2>7, <2>8, <2>9 DEF MemInv
<1>7. ASSUME NEW pa \in Room,
             LET block  == PagesOf(pa)
                 tables == LowestFree(used \cup block, free_pages - Block, 3)
                 u      == used \cup block \cup tables
                 n      == free_pages - Block - Cardinality(tables)
             IN  IF Cardinality(tables) = 3
                 THEN /\ used' = u /\ free_pages' = n
                      /\ children' = children \cup {[pa |-> pa, tables |-> tables]}
                      /\ forked' = "ok" /\ stale' = stale
                 ELSE /\ GiveBack(u, n, block)
                      /\ stale' = stale \cup tables
                      /\ forked' = "EMFILE" /\ children' = children
      PROVE  MemInv'
  <2> DEFINE block  == PagesOf(pa)
             tables == LowestFree(used \cup block, free_pages - Block, 3)
             n      == free_pages - Block - Cardinality(tables)
  <2>1. CASE Cardinality(tables) = 3
    <3>1. /\ used' = used \cup block \cup tables /\ free_pages' = n
          /\ children' = children \cup {[pa |-> pa, tables |-> tables]}
          /\ forked' = "ok" /\ stale' = stale
      BY <1>7, <2>1
    <3> QED
      BY <1>5, <2>1, <3>1
  <2>2. CASE Cardinality(tables) # 3
    <3>1. /\ GiveBack(used \cup block \cup tables, n, block)
          /\ stale' = stale \cup tables
          /\ forked' = "EMFILE" /\ children' = children
      BY <1>7, <2>2
    <3> QED
      BY <1>6, <2>2, <3>1
  <2> QED
    BY <2>1, <2>2
<1> QED
  BY <1>4, <1>7 DEF fork

LEMMA StepReap ==
    ASSUME MemoryAssumption, MemInv, NEW c \in children, Reap(c)
    PROVE  MemInv'
<1>1. /\ children' = children \ {c} /\ stale' = stale \cup c.tables /\ forked' = "none"
      /\ GiveBack(used, free_pages, PagesOf(c.pa))
      /\ UNCHANGED <<total, device, boot, machine, reserved, kernel>>
  BY DEF Reap
<1>2. /\ MemTypeOK /\ Owned /\ Children /\ Booted /\ total \in Nat /\ used \in SUBSET Pages
      /\ free_pages = Cardinality(Pages \ used)
  BY DEF MemInv, MemTypeOK
<1>3. boot = "up"
  BY <1>2 DEF Booted
<1>4. Booted' /\ Devices' /\ Pages' = Pages
  BY <1>1, <1>3, BootStays
<1>5. PICK block : block = PagesOf(c.pa)
  OBVIOUS
<1>6. used' = used \ block /\ free_pages' = Cardinality(Pages \ (used \ block))
  <2>1. Cardinality(Pages \ (used \ block)) = Cardinality(Pages \ used) + Cardinality(block \cap used)
    BY <1>2, CountGiven
  <2> QED
    BY <1>1, <1>2, <1>5, <2>1 DEF GiveBack
<1>7. MemTypeOK'
  BY <1>1, <1>2, <1>4, <1>6 DEF MemTypeOK
<1>8. Owned'
  <2>1. Held(c) = block \cup c.tables /\ block \cap c.tables = {}
    BY <1>2, <1>5 DEF Held, Owned
  <2>2. Lasting' = Lasting \cup c.tables
    BY <1>1 DEF Lasting
  <2>3. block \cap Lasting = {} /\ c.tables \cap Lasting = {}
    BY <1>2, <2>1 DEF Owned
  <2>4. \A d \in children' : d \in children /\ Held(d) \cap Held(c) = {}
    BY <1>1, <1>2 DEF Owned
  <2>5. \A p : p \in used' <=> p \in Lasting' \/ \E d \in children' : p \in Held(d)
    <3>1. ASSUME NEW p, p \in used' PROVE p \in Lasting' \/ \E d \in children' : p \in Held(d)
      <4>1. p \in Lasting \/ \E d \in children : p \in Held(d)
        BY <1>2, <1>6, <3>1 DEF Owned
      <4> QED
        BY <1>1, <1>6, <2>1, <2>2, <3>1, <4>1
    <3>2. ASSUME NEW p, p \in Lasting' \/ \E d \in children' : p \in Held(d) PROVE p \in used'
      <4>1. p \in Held(c) \/ p \in Lasting \/ \E d \in children : p \in Held(d)
        BY <2>1, <2>2, <2>4, <3>2
      <4>2. p \in used
        BY <1>2, <4>1 DEF Owned
      <4>3. p \notin block
        BY <2>1, <2>2, <2>3, <2>4, <3>2
      <4> QED
        BY <1>6, <4>2, <4>3
    <3> QED
      BY <3>1, <3>2
  <2>6. \A d \in children' : Held(d) \cap Lasting' = {} /\ PagesOf(d.pa) \cap d.tables = {}
    BY <1>2, <2>1, <2>2, <2>4 DEF Owned
  <2>7. \A d, e \in children' : d # e => Held(d) \cap Held(e) = {}
    BY <1>2, <2>4 DEF Owned
  <2>8. reserved' \cap kernel' = {} /\ reserved' \cap stale' = {} /\ kernel' \cap stale' = {}
    <3>1. reserved \subseteq Lasting /\ kernel \subseteq Lasting
      BY DEF Lasting
    <3> QED
      BY <1>1, <1>2, <2>3, <3>1 DEF Owned
  <2> QED
    BY <2>5, <2>6, <2>7, <2>8 DEF Owned, Held
<1>9. Children'
  BY <1>1, <1>2, <1>4 DEF Children
<1>10. ForkRefusesForCause'
  BY <1>1 DEF ForkRefusesForCause
<1> QED
  BY <1>4, <1>7, <1>8, <1>9, <1>10 DEF MemInv

\* The whole invariant holds over boot, every order of forks and reaping, and
\* forks that fail half way: pmm.c counts what it has handed out, and what it
\* hands out belongs to no one.
THEOREM MemInvariant ==
    ASSUME MemoryAssumption, RoomToBoot PROVE MemSpec => []MemInv
<1>1. MemInit => MemInv
  BY InitMem
<1>2. MemInv /\ [MemNext]_memVars => MemInv'
  <2> SUFFICES ASSUME MemInv, [MemNext]_memVars PROVE MemInv'
    OBVIOUS
  <2>1. CASE mmu_init_identity
    BY <2>1, StepTables
  <2>2. ASSUME NEW quick \in BOOLEAN, fb_init(quick) PROVE MemInv'
    BY <2>2, StepFramebuffer
  <2>3. CASE fork
    BY <2>3, StepFork
  <2>4. ASSUME NEW c \in children, Reap(c) PROVE MemInv'
    BY <2>4, StepReap
  <2>5. CASE UNCHANGED memVars
    <3>1. UNCHANGED <<total, used, free_pages, device, boot, machine, reserved, kernel,
                      children, stale, forked>>
      BY <2>5 DEF memVars, pmm
    <3> QED
      BY <3>1 DEF MemInv, MemTypeOK, Owned, Held, PagesOf, Lasting, Children, Booted, Devices,
                  ForkRefusesForCause, Pages, UserPages, Covered, AlignUp, AlignDown, AtMost,
                  Rooms, Initial
  <2> QED
    BY <2>1, <2>2, <2>3, <2>4, <2>5 DEF MemNext
<1> QED
  BY <1>1, <1>2, PTL DEF MemSpec

LEMMA Accounted ==
    ASSUME MemoryAssumption, MemInv PROVE PagesAccounted
<1>1. /\ Owned /\ Children /\ free_pages = Cardinality(Pages \ used)
  BY DEF MemInv, MemTypeOK
<1>2. \A c \in children : PagesOf(c.pa) # {} /\ c.tables # {}
  <2>1. ASSUME NEW c \in children PROVE PagesOf(c.pa) # {} /\ c.tables # {}
    <3>1. PICK t : IsBlock(c.pa, t)
      BY <1>1 DEF Children
    <3>2. PagesOf(c.pa) = BlockPages(t)
      BY <3>1, BlockFacts
    <3>3. PICK b \in Nat : b = t * Block
      BY <3>1 DEF IsBlock, MemoryAssumption
    <3>4. b \in b .. b + Block - 1
      BY <3>3 DEF MemoryAssumption
    <3>5. c.tables # {}
      BY <1>1 DEF Children
    <3> QED
      BY <3>2, <3>3, <3>4, <3>5 DEF BlockPages
  <2> QED
    BY <2>1
<1>3. \A c \in children : Held(c) = PagesOf(c.pa) \cup c.tables /\ PagesOf(c.pa) \cap c.tables = {}
  BY <1>1 DEF Held, Owned
<1>4. \A c, d \in children :
        /\ c.tables # PagesOf(d.pa)
        /\ c # d => PagesOf(c.pa) # PagesOf(d.pa) /\ c.tables # d.tables
  <2>1. ASSUME NEW c \in children, NEW d \in children
        PROVE  /\ c.tables # PagesOf(d.pa)
               /\ c # d => PagesOf(c.pa) # PagesOf(d.pa) /\ c.tables # d.tables
    <3>1. c # d => Held(c) \cap Held(d) = {}
      BY <1>1 DEF Owned
    <3> QED
      BY <1>2, <1>3, <3>1
  <2> QED
    BY <2>1
<1>5. \A s \in Owners : \/ s \in {reserved, kernel, stale}
                        \/ \E c \in children : s = PagesOf(c.pa) \/ s = c.tables
  BY DEF Owners
<1>6. \A s, t \in Owners : s # t => s \cap t = {}
  <2> SUFFICES ASSUME NEW s \in Owners, NEW t \in Owners, s # t PROVE s \cap t = {}
    OBVIOUS
  <2>1. \A w \in {reserved, kernel, stale} : w \subseteq Lasting
    BY DEF Lasting
  <2>2. \A c \in children : Held(c) \cap Lasting = {}
    BY <1>1 DEF Owned
  <2>3. CASE s \in {reserved, kernel, stale} /\ t \in {reserved, kernel, stale}
    BY <1>1, <2>3 DEF Owned
  <2>4. ASSUME NEW w \in {reserved, kernel, stale}, NEW c \in children
        PROVE  w \cap PagesOf(c.pa) = {} /\ w \cap c.tables = {}
    BY <1>3, <2>1, <2>2
  <2>5. ASSUME NEW c \in children, s = PagesOf(c.pa) \/ s = c.tables,
               NEW d \in children, t = PagesOf(d.pa) \/ t = d.tables
        PROVE  s \cap t = {}
    <3>1. CASE c = d
      BY <1>3, <2>5, <3>1
    <3>2. CASE c # d
      <4>1. Held(c) \cap Held(d) = {}
        BY <1>1, <3>2 DEF Owned
      <4> QED
        BY <1>3, <2>5, <4>1
    <3> QED
      BY <3>1, <3>2
  <2> QED
    BY <1>5, <2>3, <2>4, <2>5
<1>7. UNION Owners = used
  <2>1. /\ reserved \in Owners /\ kernel \in Owners /\ stale \in Owners
        /\ \A c \in children : PagesOf(c.pa) \in Owners /\ c.tables \in Owners
    BY DEF Owners
  <2>2. ASSUME NEW p \in used PROVE p \in UNION Owners
    <3>1. p \in Lasting \/ \E c \in children : p \in Held(c)
      BY <1>1 DEF Owned
    <3> QED
      BY <1>3, <2>1, <3>1 DEF Lasting
  <2>3. ASSUME NEW s \in Owners, NEW p \in s PROVE p \in used
    <3>1. p \in Lasting \/ \E c \in children : p \in Held(c)
      BY <1>3, <1>5 DEF Lasting
    <3> QED
      BY <1>1, <3>1 DEF Owned
  <2> QED
    BY <2>2, <2>3
<1> QED
  BY <1>1, <1>4, <1>6, <1>7 DEF PagesAccounted

\* What fork hands out is memory that the child may use: its block holds
\* no part of the framebuffer, whose pages are not free, and neither the
\* kernel's tables nor its own lie where its memory is mapped.
LEMMA Usable ==
    ASSUME MemoryAssumption, MemInv PROVE MemoryUsable
<1>1. /\ Owned /\ Children /\ Booted /\ Devices /\ used \in SUBSET Pages
      /\ total \in Nat /\ machine \in Boots
  BY DEF MemInv, MemTypeOK
<1>2. SUFFICES ASSUME NEW c \in children
               PROVE  /\ c.pa % (Block * Page) = 0
                      /\ c.pa \div (Block * Page) \notin device
                      /\ (c.tables \cup kernel) \cap PagesOf(UserRegion) = {}
  BY DEF MemoryUsable
<1>3. PICK t : IsBlock(c.pa, t) /\ PagesOf(c.pa) \in SUBSET Pages
  BY <1>1 DEF Children
<1>4. /\ t \in Nat /\ c.pa % (Block * Page) = 0 /\ c.pa \div (Block * Page) = t
      /\ PagesOf(c.pa) = BlockPages(t)
  BY <1>3, BlockFacts DEF IsBlock
<1>5. boot = "up" /\ total # 0
  <2>1. boot = "up"
    BY <1>1 DEF Booted
  <2>2. total # 0
    <3>1. PICK p : p \in PagesOf(c.pa)
      <4>1. PICK b \in Nat : b = t * Block
        BY <1>4 DEF MemoryAssumption
      <4>2. b \in b .. b + Block - 1
        BY <4>1 DEF MemoryAssumption
      <4> QED
        BY <1>4, <4>1, <4>2 DEF BlockPages
    <3> QED
      BY <1>3, <3>1 DEF Pages
  <2> QED
    BY <2>1, <2>2
<1>6. Held(c) \cap Lasting = {} /\ Held(c) = PagesOf(c.pa) \cup c.tables
  BY <1>1 DEF Owned, Held
<1>7. t \notin device
  <2> SUFFICES ASSUME t \in device PROVE FALSE
    OBVIOUS
  <2>1. t * (Block * Page) < machine.fb[2] /\ machine.fb[1] < (t + 1) * (Block * Page)
    BY <1>1, <1>4 DEF Devices
  <2>2. machine.fb \in Ranges /\ machine.fb[1] < machine.fb[2]
    <3>1. /\ machine.fb \in Ranges /\ machine.fb[1] \in Nat /\ machine.fb[2] \in Nat
          /\ machine.fb = <<0, 0>> \/ machine.fb[1] < machine.fb[2]
      BY <1>1, MachineParts
    <3>2. PICK x \in Nat : x = t * (Block * Page)
      BY <1>4 DEF MemoryAssumption
    <3>3. machine.fb[2] # 0
      BY <2>1, <3>1, <3>2
    <3> QED
      BY <3>1, <3>3
  <2>3. t * Block + Block <= total
    <3>1. PICK b \in Nat : b = t * Block
      BY <1>4 DEF MemoryAssumption
    <3>2. Block \in Nat \ {0}
      BY DEF MemoryAssumption
    <3>3. b + Block - 1 \in BlockPages(t)
      BY <3>1, <3>2 DEF BlockPages
    <3>4. b + Block - 1 \in Pages
      BY <1>3, <1>4, <3>3
    <3> QED
      BY <1>1, <3>1, <3>2, <3>4 DEF Pages
  <2>4. PICK p \in BlockPages(t) : p \in Covered(total, machine.fb)
    BY <1>1, <1>4, <2>1, <2>2, <2>3, BlockIsCovered
  <2>5. p \in Lasting
    BY <1>1, <1>5, <2>4 DEF Booted, Lasting
  <2> QED
    BY <1>4, <1>6, <2>4, <2>5
<1>8. (c.tables \cup kernel) \cap PagesOf(UserRegion) = {}
  <2>1. PICK v : IsBlock(UserRegion, v)
    <3>1. Block * Page \in Nat \ {0} /\ UserRegion \in Nat /\ UserRegion % (Block * Page) = 0
      <4>1. Block \in Nat \ {0} /\ Page \in Nat \ {0}
        BY DEF MemoryAssumption
      <4>2. 1 * Page <= Block * Page
        BY <4>1, Grows
      <4>3. Block * Page \in Nat \ {0}
        BY <4>1, <4>2
      <4> QED
        BY <4>3 DEF MemoryAssumption
    <3>2. PICK BP \in Nat \ {0}, x \in Nat : BP = Block * Page /\ x = UserRegion
      BY <3>1
    <3>3. x % BP = 0
      BY <3>1, <3>2
    <3>4. x \div BP \in Nat /\ x = (x \div BP) * BP
      BY <3>3, Quotient
    <3> QED
      BY <3>2, <3>4 DEF IsBlock
  <2>2. PagesOf(UserRegion) = BlockPages(v) /\ UserRegion = v * (Block * Page) /\ v \in Nat
    BY <2>1, BlockFacts DEF IsBlock
  <2>3. BlockPages(v) \cap Pages \subseteq UserPages
    <3>1. PICK B \in Nat \ {0}, P \in Nat \ {0} : B = Block /\ P = Page
      BY DEF MemoryAssumption
    <3>2. PICK b \in Nat : b = v * B
      BY <2>2
    <3>3. UserRegion = b * P /\ UserRegion + B * P = (b + B) * P
      BY <2>2, <3>1, <3>2
    <3>4. ASSUME NEW p \in Pages, p \in BlockPages(v) PROVE p \in UserPages
      <4>1. p \in Nat /\ b <= p /\ p + 1 <= b + B /\ p \in 0 .. total - 1
        BY <1>1, <3>1, <3>2, <3>4 DEF BlockPages, Pages
      <4>2. b * P <= p * P /\ (p + 1) * P <= (b + B) * P
        BY <4>1, Grows
      <4>3. (p + 1) * P = p * P + P /\ p * P \in Nat /\ b * P \in Nat /\ (b + B) * P \in Nat
        BY <4>1
      <4>4. b * P < (p + 1) * P /\ p * P < (b + B) * P /\ b * P < (b + B) * P
        BY <4>2, <4>3
      <4>5. <<UserRegion, UserRegion + Block * Page>> \in Ranges
        BY <1>1, MachineParts
      <4> QED
        BY <1>1, <3>1, <3>3, <4>1, <4>4, <4>5, CoveredPages DEF UserPages
    <3> QED
      BY <3>4
  <2>4. UserPages \subseteq reserved
    BY <1>1, <1>5 DEF Booted
  <2>5. c.tables \cup kernel \subseteq Pages
    <3>1. c.tables \cup kernel \subseteq used
      BY <1>1, <1>6 DEF Owned, Lasting
    <3> QED
      BY <1>1, <3>1
  <2>6. (c.tables \cup kernel) \cap reserved = {}
    BY <1>1, <1>6 DEF Owned, Lasting
  <2> QED
    BY <2>2, <2>3, <2>4, <2>5, <2>6
<1> QED
  BY <1>4, <1>7, <1>8

\* Every page of pmm.c's bitmap has one owner or is free, a child's block is
\* memory and no device, and fork (sys_proc.c) refuses only when there is no
\* block or there are no three pages besides it.
THEOREM MemoryStaysSound ==
    ASSUME MemoryAssumption, RoomToBoot PROVE MemSpec => []MemorySound
<1>1. MemInv => MemorySound
  BY Accounted, Usable DEF MemInv, MemorySound
<1> QED
  BY <1>1, MemInvariant, PTL

-----------------------------------------------------------------------------
(* The invariant of the USB bus.                                           *)

BusPlaces == {"root", "port", "address", "descriptors", "bind", "done"}

\* Every variable keeps its type; the addresses grow with the devices known.
BusTypes ==
    /\ config \in [HubPorts -> Configs \cup {<<>>}]
    /\ addr \in [HubPorts -> Nat \cup {Off}]
    /\ pc \in BusPlaces \cup {"send", "wait"}
    /\ port \in Nat /\ next_addr \in Nat \ {0}
    /\ pc \in {"address", "descriptors"} => port \in HubPorts
    /\ devs \in Seq([addr : Nat \ {0}, port : HubPorts])
    /\ stray \in BOOLEAN

RndisTypes ==
    /\ sent \in 0 .. Len(Commands)
    /\ answers \in Seq([id : Nat, status : {"success", "failure"}])
    /\ result \in Seq({"done", "failed"})
    /\ status \in Seq({"none", "success", "failure"})

\* No address has been given that is not below the next, but for the one that
\* is being asked for its descriptors.
AddressesGrow ==
    /\ pc = "root" => next_addr = 1
    /\ \A p \in HubPorts : addr[p] <= next_addr /\ (addr[p] = next_addr => pc = "descriptors")
    /\ \A i \in 1 .. Len(devs) : devs[i].addr < next_addr
    /\ \A i, j \in 1 .. Len(devs) : i < j => devs[i].addr < devs[j].addr

\* As long as none was left there, the device at address 0 is the one at the
\* port that is scanned, and what is known of the ports before is theirs.
NoneLeft ==
    ~stray =>
      /\ \A p \in HubPorts : addr[p] = 0 => pc = "address" /\ p = port
      /\ \A p \in HubPorts : addr[p] = next_addr => p = port
      /\ \A p, q \in HubPorts : addr[p] = addr[q] /\ p # q => addr[p] = Off
      /\ \A i \in 1 .. Len(devs) : addr[devs[i].port] = devs[i].addr /\ devs[i].port < port

Drivers ==
    /\ pc # "done" => kbd = Off /\ usbnet = Off
    /\ kbd = usbnet => kbd = Off
    /\ usbnet # Off => \E i \in 1 .. Len(devs) : /\ devs[i].addr = usbnet
                                                 /\ NetPair(config[devs[i].port]) # NoPair

\* An answer is that of the device to the command whose number it has.
AnswersMatch ==
    /\ Len(status) = sent
    /\ Len(result) = IF pc = "wait" THEN sent - 1 ELSE sent
    /\ \A i \in 1 .. Len(answers) : /\ answers[i].id \in 1 .. sent
                                    /\ status[answers[i].id] = answers[i].status
    /\ \A i \in 1 .. Len(result) : result[i] = "done" => status[i] = "success"

BusInv   == BusTypes /\ AddressesGrow /\ NoneLeft /\ Drivers
RndisInv == RndisTypes /\ AnswersMatch
UsbInv   == BusInv /\ RndisInv

-----------------------------------------------------------------------------
(* The walk over a configuration.                                          *)

\* The walk's definition determines it: there is a function that does what it
\* says up to each descriptor.
LEMMA WalkExists ==
    ASSUME NEW c, Len(c) \in Nat, NEW cdc
    PROVE  \E w : w = [i \in 0 .. Len(c) |-> IF i = 0 THEN [pair |-> NoPair, on |-> FALSE]
                                            ELSE Walked(w[i - 1], c[i], cdc)]
<1> DEFINE Start == [pair |-> NoPair, on |-> FALSE]
           At(w, i) == IF i = 0 THEN Start ELSE Walked(w[i - 1], c[i], cdc)
           Upto(n) == \E w : w = [i \in 0 .. n |-> At(w, i)]
           Bad == {n \in 0 .. Len(c) : ~Upto(n)}
<1>1. SUFFICES ASSUME Bad # {} PROVE FALSE
  <2>1. Upto(Len(c)) => \E w : w = [i \in 0 .. Len(c) |-> IF i = 0 THEN Start ELSE Walked(w[i - 1], c[i], cdc)]
    OBVIOUS
  <2> QED
    BY <2>1
<1>2. PICK n \in Bad : \A m \in Bad : n <= m
  <2>1. Bad \in SUBSET Nat
    OBVIOUS
  <2> HIDE DEF Bad
  <2> QED
    BY <1>1, <2>1, LeastNumber
<1>3. n \in 0 .. Len(c) /\ ~Upto(n)
  BY <1>2
<1>4. CASE n = 0
  <2> DEFINE w == [i \in 0 .. 0 |-> Start]
  <2>1. w = [i \in 0 .. 0 |-> At(w, i)]
    OBVIOUS
  <2> QED
    BY <1>3, <1>4, <2>1
<1>5. CASE n # 0
  <2>1. n - 1 \in 0 .. Len(c) /\ ~(n <= n - 1)
    BY <1>3, <1>5
  <2>2. Upto(n - 1)
    BY <1>2, <2>1
  <2>3. PICK v : v = [i \in 0 .. n - 1 |-> At(v, i)]
    BY <2>2
  <2> DEFINE w == [i \in 0 .. n |-> IF i = n THEN Walked(v[n - 1], c[n], cdc) ELSE v[i]]
  <2>4. ASSUME NEW i \in 0 .. n PROVE w[i] = At(w, i)
    <3>1. CASE i = n
      <4>1. n - 1 \in 0 .. n /\ n - 1 # n /\ i # 0
        BY <1>3, <1>5, <3>1
      <4>2. w[n - 1] = v[n - 1]
        BY <4>1
      <4>3. w[i] = Walked(v[n - 1], c[n], cdc)
        BY <3>1
      <4> HIDE DEF w
      <4> QED
        BY <3>1, <4>1, <4>2, <4>3
    <3>2. CASE i # n /\ i # 0
      <4>1. i - 1 \in 0 .. n /\ i - 1 # n /\ i \in 0 .. n - 1
        BY <1>3, <3>2
      <4>2. w[i] = v[i] /\ w[i - 1] = v[i - 1]
        BY <3>2, <4>1
      <4>3. v[i] = At(v, i)
        BY <2>3, <4>1
      <4> HIDE DEF w
      <4> QED
        BY <3>2, <4>2, <4>3
    <3>3. CASE i # n /\ i = 0
      <4>1. i \in 0 .. n - 1
        BY <1>3, <1>5, <3>3
      <4>2. w[i] = v[i]
        BY <3>3
      <4>3. v[i] = At(v, i)
        BY <2>3, <4>1
      <4> HIDE DEF w
      <4> QED
        BY <3>3, <4>2, <4>3
    <3> QED
      BY <3>1, <3>2, <3>3
  <2>5. w = [i \in 0 .. n |-> w[i]]
    OBVIOUS
  <2>6. w = [i \in 0 .. n |-> At(w, i)]
    <3> HIDE DEF w
    <3>1. [i \in 0 .. n |-> w[i]] = [i \in 0 .. n |-> At(w, i)]
      BY <2>4
    <3> QED
      BY <2>5, <3>1
  <2> HIDE DEF w
  <2> QED
    BY <1>3, <2>6
<1> QED
  BY <1>4, <1>5

\* So the walk starts empty and goes on by Walked.
LEMMA WalkSteps ==
    ASSUME NEW c, Len(c) \in Nat, NEW cdc
    PROVE  /\ Walk(c, cdc)[0] = [pair |-> NoPair, on |-> FALSE]
           /\ \A i \in 1 .. Len(c) : Walk(c, cdc)[i] = Walked(Walk(c, cdc)[i - 1], c[i], cdc)
<1>1. PICK f : f = [i \in 0 .. Len(c) |-> IF i = 0 THEN [pair |-> NoPair, on |-> FALSE]
                                         ELSE Walked(f[i - 1], c[i], cdc)]
  BY WalkExists
<1>2. PICK w : w = Walk(c, cdc)
  OBVIOUS
<1>3. w = [i \in 0 .. Len(c) |-> IF i = 0 THEN [pair |-> NoPair, on |-> FALSE]
                                ELSE Walked(w[i - 1], c[i], cdc)]
  BY <1>1, <1>2, Zenon DEF Walk
<1>4. w[0] = [pair |-> NoPair, on |-> FALSE]
  <2>1. 0 \in 0 .. Len(c)
    OBVIOUS
  <2> QED
    BY <1>3, <2>1
<1>5. ASSUME NEW i \in 1 .. Len(c) PROVE w[i] = Walked(w[i - 1], c[i], cdc)
  <2>1. i \in 0 .. Len(c) /\ i # 0
    OBVIOUS
  <2> QED
    BY <1>3, <2>1
<1> QED
  BY <1>2, <1>4, <1>5

\* A bounded set of numbers has a greatest one, and Max is that.
LEMMA GreatestNumber ==
    ASSUME NEW n \in Nat, NEW S \in SUBSET (0 .. n), S # {}
    PROVE  Max(S) \in S /\ \A y \in S : Max(S) >= y
<1> DEFINE T == {n - y : y \in S}
<1>1. T \in SUBSET Nat /\ T # {}
  <2>1. ASSUME NEW y \in S PROVE n - y \in Nat
    <3>1. y \in 0 .. n
      OBVIOUS
    <3> QED
      BY <3>1
  <2> QED
    BY <2>1
<1>2. PICK t \in T : \A u \in T : t <= u
  <2> HIDE DEF T
  <2> QED
    BY <1>1, LeastNumber
<1>3. PICK x \in S : t = n - x
  BY <1>2
<1>4. ASSUME NEW y \in S PROVE x >= y
  <2>1. n - y \in T /\ x \in Nat /\ y \in Nat
    OBVIOUS
  <2>2. t <= n - y
    BY <1>2, <2>1
  <2> QED
    BY <1>3, <2>1, <2>2
<1>5. \E z \in S : \A y \in S : z >= y
  BY <1>4
<1> QED
  BY <1>5, Zenon DEF Max

\* The interface that a descriptor belongs to.
LEMMA InterfaceFacts ==
    ASSUME NEW c \in Seq(Descriptors)
    PROVE  /\ Len(c) \in Nat /\ DOMAIN c = 1 .. Len(c)
           /\ InterfaceOf(c, 0) = 0
           /\ \A i \in 0 .. Len(c) : InterfaceOf(c, i) \in 0 .. i
           /\ \A i \in 1 .. Len(c) :
                InterfaceOf(c, i) = IF c[i].type = "if" THEN i ELSE InterfaceOf(c, i - 1)
           /\ \A i \in 0 .. Len(c) : InterfaceOf(c, i) # 0 => c[InterfaceOf(c, i)].type = "if"
<1> DEFINE S(i) == {0} \cup {j \in 1 .. i : c[j].type = "if"}
<1>1. Len(c) \in Nat /\ DOMAIN c = 1 .. Len(c)
  BY LenProperties
<1>2. ASSUME NEW i \in 0 .. Len(c)
      PROVE  /\ InterfaceOf(c, i) \in S(i) /\ \A y \in S(i) : InterfaceOf(c, i) >= y
  <2>1. S(i) \in SUBSET (0 .. i) /\ S(i) # {} /\ i \in Nat
    BY <1>1
  <2>2. InterfaceOf(c, i) = Max(S(i))
    BY DEF InterfaceOf
  <2> HIDE DEF S
  <2> QED
    BY <2>1, <2>2, GreatestNumber
<1>3. ASSUME NEW i \in 0 .. Len(c)
      PROVE  /\ InterfaceOf(c, i) \in 0 .. i
             /\ InterfaceOf(c, i) # 0 => c[InterfaceOf(c, i)].type = "if"
  BY <1>1, <1>2
<1>4. InterfaceOf(c, 0) = 0
  <2>1. 0 \in 0 .. Len(c)
    BY <1>1
  <2>2. InterfaceOf(c, 0) \in 0 .. 0
    BY <1>3, <2>1
  <2> QED
    BY <2>2
<1>5. ASSUME NEW i \in 1 .. Len(c)
      PROVE  InterfaceOf(c, i) = IF c[i].type = "if" THEN i ELSE InterfaceOf(c, i - 1)
  <2>1. PICK m, k : m = InterfaceOf(c, i) /\ k = InterfaceOf(c, i - 1)
    OBVIOUS
  <2>2. i \in 0 .. Len(c) /\ i - 1 \in 0 .. Len(c) /\ i \in Nat \ {0}
    BY <1>1
  <2>3. m \in S(i) /\ \A y \in S(i) : m >= y
    BY <1>2, <2>1, <2>2
  <2>4. k \in S(i - 1) /\ \A y \in S(i - 1) : k >= y
    BY <1>2, <2>1, <2>2
  <2>5. CASE c[i].type = "if"
    <3>1. i \in S(i) /\ m \in 0 .. i
      BY <2>2, <2>3, <2>5
    <3>2. m >= i
      BY <2>3, <3>1
    <3> QED
      BY <2>1, <2>2, <2>5, <3>1, <3>2
  <2>6. CASE c[i].type # "if"
    <3>1. \A j : j \in S(i) <=> j \in S(i - 1)
      BY <2>2, <2>6
    <3>2. m >= k /\ k >= m /\ m \in Nat /\ k \in Nat
      BY <2>2, <2>3, <2>4, <3>1
    <3> QED
      BY <2>1, <2>6, <3>2
  <2> QED
    BY <2>5, <2>6
<1> QED
  BY <1>1, <1>3, <1>4, <1>5

\* The bulk endpoints of interface j among the first i descriptors.
EndsBy(c, j, in, i) ==
    {c[k].num : k \in {k \in 1 .. i : /\ c[k].type = "ep" /\ c[k].in = in /\ c[k].kind = "bulk"
                                     /\ InterfaceOf(c, k) = j}} \ {0}

LEMMA EndsFacts ==
    ASSUME NEW c \in Seq(Descriptors), NEW j \in Nat \ {0}, NEW in \in BOOLEAN
    PROVE  /\ EndsBy(c, j, in, 0) = {}
           /\ EndsBy(c, j, in, Len(c)) = BulkEnds(c, j, in)
           /\ \A i \in 0 .. Len(c) : i < j => EndsBy(c, j, in, i) = {}
           /\ \A i \in 1 .. Len(c) :
                EndsBy(c, j, in, i) =
                  EndsBy(c, j, in, i - 1)
                  \cup (IF /\ c[i].type = "ep" /\ c[i].in = in /\ c[i].kind = "bulk"
                           /\ InterfaceOf(c, i) = j /\ c[i].num # 0 THEN {c[i].num} ELSE {})
<1>1. Len(c) \in Nat /\ DOMAIN c = 1 .. Len(c)
  BY LenProperties
<1>2. EndsBy(c, j, in, 0) = {}
  BY DEF EndsBy
<1>3. EndsBy(c, j, in, Len(c)) = BulkEnds(c, j, in)
  BY <1>1 DEF EndsBy, BulkEnds
<1>4. ASSUME NEW i \in 0 .. Len(c), i < j PROVE EndsBy(c, j, in, i) = {}
  <2>1. ASSUME NEW k \in 1 .. i PROVE InterfaceOf(c, k) # j
    <3>1. k \in 0 .. Len(c) /\ k < j
      BY <1>1, <1>4
    <3>2. InterfaceOf(c, k) \in 0 .. k
      BY <3>1, InterfaceFacts
    <3> QED
      BY <3>1, <3>2
  <2> QED
    BY <2>1 DEF EndsBy
<1>5. ASSUME NEW i \in 1 .. Len(c)
      PROVE  EndsBy(c, j, in, i) =
               EndsBy(c, j, in, i - 1)
               \cup (IF /\ c[i].type = "ep" /\ c[i].in = in /\ c[i].kind = "bulk"
                        /\ InterfaceOf(c, i) = j /\ c[i].num # 0 THEN {c[i].num} ELSE {})
  <2>1. \A k : k \in 1 .. i <=> k \in 1 .. i - 1 \/ k = i
    BY <1>1
  <2> QED
    BY <2>1 DEF EndsBy
<1> QED
  BY <1>2, <1>3, <1>4, <1>5

\* A descriptor that is an interface adds no endpoint.
LEMMA EndsKept ==
    ASSUME NEW c \in Seq(Descriptors), NEW i \in 1 .. Len(c), c[i].type = "if",
           NEW j \in Nat \ {0}, NEW in \in BOOLEAN
    PROVE  /\ EndsBy(c, j, in, i) = EndsBy(c, j, in, i - 1)
           /\ j = i => EndsBy(c, j, in, i) = {}
<1>1. Len(c) \in Nat
  BY LenProperties
<1>2. EndsBy(c, j, in, i) = EndsBy(c, j, in, i - 1)
  <2>1. \A k \in 1 .. i : c[k].type = "ep" => k \in 1 .. i - 1
    BY <1>1
  <2>2. \A k \in 1 .. i - 1 : k \in 1 .. i
    BY <1>1
  <2> QED
    BY <2>1, <2>2 DEF EndsBy
<1>3. j = i => EndsBy(c, j, in, i - 1) = {}
  <2>1. i - 1 \in 0 .. Len(c) /\ i - 1 < i
    BY <1>1
  <2> QED
    BY <2>1, EndsFacts
<1> QED
  BY <1>2, <1>3

\* What the walk has when it has seen the first i descriptors: a pair of one
\* interface that is wanted, or else what there is of one in the interface it
\* is in, no interface before having had both.
IsWanted(c, cdc, j) == c[j].type = "if" /\ Wanted(c[j], cdc)

Complete(c, cdc, b, i) ==
    \E j \in 1 .. i : /\ IsWanted(c, cdc, j)
                      /\ b.pair.in \in EndsBy(c, j, TRUE, i)
                      /\ b.pair.out \in EndsBy(c, j, FALSE, i)

Holds(end, ends) == IF end = 0 THEN ends = {} ELSE end \in ends

Halfway(c, cdc, b, i) ==
    LET f == InterfaceOf(c, i) IN
    /\ b.on <=> f # 0 /\ IsWanted(c, cdc, f)
    /\ b.on => Holds(b.pair.in, EndsBy(c, f, TRUE, i)) /\ Holds(b.pair.out, EndsBy(c, f, FALSE, i))
    /\ \A j \in 1 .. i : IsWanted(c, cdc, j) /\ j # f =>
         EndsBy(c, j, TRUE, i) = {} \/ EndsBy(c, j, FALSE, i) = {}

WalkTypes(b) == b \in [pair : [in : 0 .. 15, out : 0 .. 15], on : BOOLEAN]

WalkRight(c, cdc, b, i) ==
    /\ WalkTypes(b)
    /\ IF Found(b.pair) THEN Complete(c, cdc, b, i) ELSE Halfway(c, cdc, b, i)

\* A descriptor that is an interface: the one before it is over.
LEMMA WalkInterface ==
    ASSUME NEW c \in Seq(Descriptors), NEW cdc \in BOOLEAN, NEW i \in 1 .. Len(c), NEW b,
           WalkRight(c, cdc, b, i - 1), ~Found(b.pair), c[i].type = "if"
    PROVE  WalkRight(c, cdc, Walked(b, c[i], cdc), i)
<1> DEFINE f == InterfaceOf(c, i - 1)
           w == Walked(b, c[i], cdc)
<1>1. /\ Len(c) \in Nat /\ i \in Nat \ {0} /\ i - 1 \in 0 .. Len(c) /\ i \in 0 .. Len(c)
      /\ InterfaceOf(c, i) = i /\ f \in 0 .. i - 1
  BY InterfaceFacts
<1>2. w = [on |-> Wanted(c[i], cdc), pair |-> IF Wanted(c[i], cdc) THEN NoPair ELSE b.pair]
  BY DEF Walked, AtInterface
<1>3. Wanted(c[i], cdc) \in BOOLEAN /\ WalkTypes(b) /\ ~Found(NoPair)
  BY DEF Wanted, WalkRight, Found, NoPair
<1>4. WalkTypes(w) /\ ~Found(w.pair) /\ w.on = Wanted(c[i], cdc)
  BY <1>2, <1>3 DEF WalkTypes, NoPair
<1>5. Halfway(c, cdc, b, i - 1)
  BY DEF WalkRight
<1> HIDE DEF w, f
<1>6. \A in \in BOOLEAN : EndsBy(c, i, in, i) = {}
  BY <1>1, EndsKept
<1>7. \A j \in 1 .. i - 1, in \in BOOLEAN : EndsBy(c, j, in, i) = EndsBy(c, j, in, i - 1)
  <2>1. ASSUME NEW j \in 1 .. i - 1 PROVE j \in Nat \ {0}
    BY <1>1
  <2> QED
    BY <2>1, EndsKept
<1>8. ASSUME NEW j \in 1 .. i, IsWanted(c, cdc, j), j # i
      PROVE  EndsBy(c, j, TRUE, i) = {} \/ EndsBy(c, j, FALSE, i) = {}
  <2>1. j \in 1 .. i - 1 /\ TRUE \in BOOLEAN /\ FALSE \in BOOLEAN
    BY <1>1, <1>8
  <2>2. EndsBy(c, j, TRUE, i) = EndsBy(c, j, TRUE, i - 1) /\ EndsBy(c, j, FALSE, i) = EndsBy(c, j, FALSE, i - 1)
    BY <1>7, <2>1
  <2>3. CASE j # f
    BY <1>5, <1>8, <2>1, <2>2, <2>3 DEF Halfway, f
  <2>4. CASE j = f
    <3>1. b.on
      BY <1>5, <1>8, <2>1, <2>4 DEF Halfway, f
    <3>2. b.pair.in = 0 \/ b.pair.out = 0
      BY DEF Found
    <3> QED
      BY <1>5, <2>2, <2>4, <3>1, <3>2 DEF Halfway, f, Holds
  <2> QED
    BY <2>3, <2>4
<1>9. Halfway(c, cdc, w, i)
  <2>1. w.on => w.pair = NoPair
    BY <1>2, <1>3
  <2>2. w.on => Holds(w.pair.in, EndsBy(c, i, TRUE, i)) /\ Holds(w.pair.out, EndsBy(c, i, FALSE, i))
    <3>1. EndsBy(c, i, TRUE, i) = {} /\ EndsBy(c, i, FALSE, i) = {}
      BY <1>6
    <3>2. NoPair.in = 0 /\ NoPair.out = 0
      BY DEF NoPair
    <3> QED
      BY <2>1, <3>1, <3>2 DEF Holds
  <2>3. w.on <=> i # 0 /\ IsWanted(c, cdc, i)
    BY <1>1, <1>3, <1>4 DEF IsWanted
  <2> QED
    BY <1>1, <1>8, <2>2, <2>3 DEF Halfway
<1> QED
  BY <1>4, <1>9 DEF WalkRight, w

\* A descriptor that is an endpoint.
LEMMA WalkEndpoint ==
    ASSUME NEW c \in Seq(Descriptors), NEW cdc \in BOOLEAN, NEW i \in 1 .. Len(c), NEW b,
           WalkRight(c, cdc, b, i - 1), ~Found(b.pair), c[i].type # "if"
    PROVE  WalkRight(c, cdc, Walked(b, c[i], cdc), i)
<1> DEFINE f == InterfaceOf(c, i - 1)
           w == Walked(b, c[i], cdc)
           d == c[i]
<1>1. /\ Len(c) \in Nat /\ i \in Nat \ {0} /\ i - 1 \in 0 .. Len(c) /\ i \in 0 .. Len(c)
      /\ InterfaceOf(c, i) = f /\ f \in 0 .. i - 1
  BY InterfaceFacts
<1>2. d \in [type : {"ep"}, in : BOOLEAN, kind : {"intr", "bulk"}, num : 0 .. 15]
  <2>1. d \in Descriptors
    BY ElementOfSeq
  <2> QED
    BY <2>1 DEF Descriptors
<1>3. WalkTypes(b) /\ Halfway(c, cdc, b, i - 1)
  BY DEF WalkRight
<1>4. /\ b.on \in BOOLEAN /\ b.pair \in [in : 0 .. 15, out : 0 .. 15] /\ (b.pair.in = 0 \/ b.pair.out = 0)
      /\ b.on <=> f # 0 /\ IsWanted(c, cdc, f)
  BY <1>3 DEF WalkTypes, Halfway, Found
<1> DEFINE New(j, in) == d.in = in /\ d.kind = "bulk" /\ f = j /\ d.num # 0
<1>5. ASSUME NEW j \in 1 .. i, NEW in \in BOOLEAN
      PROVE  EndsBy(c, j, in, i) = EndsBy(c, j, in, i - 1) \cup (IF New(j, in) THEN {d.num} ELSE {})
  <2>1. j \in Nat \ {0} /\ c[i].type = "ep" /\ InterfaceOf(c, i) = f
    BY <1>1, <1>2
  <2> QED
    BY <2>1, EndsFacts
<1>6. ASSUME NEW j \in 1 .. i, IsWanted(c, cdc, j), j # f
      PROVE  EndsBy(c, j, TRUE, i) = {} \/ EndsBy(c, j, FALSE, i) = {}
  <2>1. j \in 1 .. i - 1
    <3>1. j # i
      BY <1>6 DEF IsWanted
    <3> QED
      BY <1>1, <3>1
  <2>2. EndsBy(c, j, TRUE, i - 1) = {} \/ EndsBy(c, j, FALSE, i - 1) = {}
    BY <1>3, <1>6, <2>1 DEF Halfway
  <2>3. ~New(j, TRUE) /\ ~New(j, FALSE)
    BY <1>6
  <2> QED
    BY <1>5, <2>2, <2>3
<1> HIDE DEF f, w, d
<1>7. CASE ~b.on
  <2>1. w = b
    BY <1>2, <1>4, <1>7 DEF Walked, Found, w, d
  <2>2. Halfway(c, cdc, b, i)
    BY <1>1, <1>4, <1>6, <1>7 DEF Halfway
  <2> QED
    BY <1>3, <2>1, <2>2 DEF WalkRight, w, Found
<1>8. CASE b.on
  <2>1. f \in 1 .. i /\ IsWanted(c, cdc, f) /\ f \in 1 .. i - 1
    BY <1>1, <1>4, <1>8
  <2>2. /\ Holds(b.pair.in, EndsBy(c, f, TRUE, i - 1)) /\ Holds(b.pair.out, EndsBy(c, f, FALSE, i - 1))
    BY <1>3, <1>8 DEF Halfway, f
  <2>3. /\ EndsBy(c, f, TRUE, i) = EndsBy(c, f, TRUE, i - 1) \cup (IF New(f, TRUE) THEN {d.num} ELSE {})
        /\ EndsBy(c, f, FALSE, i) = EndsBy(c, f, FALSE, i - 1) \cup (IF New(f, FALSE) THEN {d.num} ELSE {})
    BY <1>5, <2>1
  <2>4. /\ w \in [pair : [in : 0 .. 15, out : 0 .. 15], on : BOOLEAN] /\ w.on
        /\ w.pair.in = IF d.kind = "bulk" /\ d.in /\ b.pair.in = 0 THEN d.num ELSE b.pair.in
        /\ w.pair.out = IF d.kind = "bulk" /\ ~d.in /\ b.pair.out = 0 THEN d.num ELSE b.pair.out
    BY <1>2, <1>3, <1>4, <1>8 DEF Walked, WalkTypes, w, d, Found
  <2>5. Holds(w.pair.in, EndsBy(c, f, TRUE, i)) /\ Holds(w.pair.out, EndsBy(c, f, FALSE, i))
    <3>1. CASE d.in
      BY <1>2, <2>2, <2>3, <2>4, <3>1 DEF Holds
    <3>2. CASE ~d.in
      BY <1>2, <2>2, <2>3, <2>4, <3>2 DEF Holds
    <3> QED
      BY <3>1, <3>2
  <2>6. CASE Found(w.pair)
    <3>1. w.pair.in # 0 /\ w.pair.out # 0
      BY <2>6 DEF Found
    <3>2. Complete(c, cdc, w, i)
      BY <2>1, <2>5, <3>1 DEF Complete, Holds
    <3> QED
      BY <2>4, <2>6, <3>2 DEF WalkRight, WalkTypes, w, d
  <2>7. CASE ~Found(w.pair)
    <3>1. Halfway(c, cdc, w, i)
      BY <1>1, <1>4, <1>6, <1>8, <2>4, <2>5 DEF Halfway
    <3> QED
      BY <2>4, <2>7, <3>1 DEF WalkRight, WalkTypes, w, d
  <2> QED
    BY <2>6, <2>7
<1> QED
  BY <1>4, <1>7, <1>8

\* Once it has a pair, the walk keeps it.
LEMMA WalkOver ==
    ASSUME NEW c \in Seq(Descriptors), NEW cdc \in BOOLEAN, NEW i \in 1 .. Len(c), NEW b,
           WalkRight(c, cdc, b, i - 1), Found(b.pair)
    PROVE  WalkRight(c, cdc, Walked(b, c[i], cdc), i)
<1>1. Len(c) \in Nat /\ i \in Nat
  BY LenProperties
<1>2. Walked(b, c[i], cdc) = b
  BY DEF Walked
<1>3. PICK j \in 1 .. i - 1 : /\ IsWanted(c, cdc, j)
                             /\ b.pair.in \in EndsBy(c, j, TRUE, i - 1)
                             /\ b.pair.out \in EndsBy(c, j, FALSE, i - 1)
  BY DEF WalkRight, Complete
<1>4. j \in 1 .. i /\ \A k \in 1 .. i - 1 : k \in 1 .. i
  BY <1>1
<1>5. b.pair.in \in EndsBy(c, j, TRUE, i) /\ b.pair.out \in EndsBy(c, j, FALSE, i)
  BY <1>3, <1>4 DEF EndsBy
<1>6. Complete(c, cdc, b, i)
  BY <1>3, <1>4, <1>5 DEF Complete
<1> QED
  BY <1>2, <1>6 DEF WalkRight

\* The whole walk, one descriptor after the other.
LEMMA WalkEnds ==
    ASSUME NEW c \in Seq(Descriptors), NEW cdc \in BOOLEAN
    PROVE  WalkRight(c, cdc, Walk(c, cdc)[Len(c)], Len(c))
<1> DEFINE Bad == {i \in 0 .. Len(c) : ~WalkRight(c, cdc, Walk(c, cdc)[i], i)}
<1>1. Len(c) \in Nat
  BY LenProperties
<1>2. SUFFICES ASSUME Bad # {} PROVE FALSE
  BY <1>1
<1>3. PICK i \in Bad : \A m \in Bad : i <= m
  <2>1. Bad \in SUBSET Nat
    OBVIOUS
  <2> HIDE DEF Bad
  <2> QED
    BY <1>2, <2>1, LeastNumber
<1>4. i \in 0 .. Len(c) /\ ~WalkRight(c, cdc, Walk(c, cdc)[i], i)
  BY <1>3
<1>5. CASE i = 0
  <2>1. Walk(c, cdc)[0] = [pair |-> NoPair, on |-> FALSE]
    BY <1>1, WalkSteps
  <2> DEFINE b == [pair |-> NoPair, on |-> FALSE]
  <2>2. WalkTypes(b) /\ ~Found(b.pair) /\ ~b.on
    BY DEF WalkTypes, NoPair, Found
  <2>3. InterfaceOf(c, 0) = 0
    BY InterfaceFacts
  <2>4. Halfway(c, cdc, b, 0)
    BY <2>2, <2>3 DEF Halfway
  <2>5. WalkRight(c, cdc, b, 0)
    BY <2>2, <2>4 DEF WalkRight
  <2> QED
    BY <1>4, <1>5, <2>1, <2>5
<1>6. CASE i # 0
  <2>1. i \in 1 .. Len(c) /\ i - 1 \in 0 .. Len(c) /\ ~(i <= i - 1)
    BY <1>1, <1>4, <1>6
  <2>2. PICK b : b = Walk(c, cdc)[i - 1]
    OBVIOUS
  <2>3. WalkRight(c, cdc, b, i - 1)
    BY <1>3, <2>1, <2>2
  <2>4. Walk(c, cdc)[i] = Walked(b, c[i], cdc)
    BY <1>1, <2>1, <2>2, WalkSteps
  <2>5. WalkRight(c, cdc, Walked(b, c[i], cdc), i)
    <3> HIDE DEF Bad
    <3> QED
      BY <2>1, <2>3, WalkInterface, WalkEndpoint, WalkOver
  <2> QED
    BY <1>4, <2>4, <2>5
<1> QED
  BY <1>5, <1>6

\* The pair found is one of one interface that is wanted; and if there is
\* such an interface, a pair is found.
LEMMA PairFacts ==
    ASSUME NEW c \in Seq(Descriptors), NEW cdc \in BOOLEAN
    PROVE  /\ BulkPair(c, cdc) # NoPair =>
                \E j \in Pairs(c) : /\ Wanted(c[j], cdc)
                                    /\ BulkPair(c, cdc).in \in BulkEnds(c, j, TRUE)
                                    /\ BulkPair(c, cdc).out \in BulkEnds(c, j, FALSE)
           /\ BulkPair(c, cdc) = NoPair => \A j \in Pairs(c) : ~Wanted(c[j], cdc)
<1>1. PICK b : b = Walk(c, cdc)[Len(c)]
  OBVIOUS
<1>2. WalkRight(c, cdc, b, Len(c))
  BY <1>1, WalkEnds
<1>3. BulkPair(c, cdc) = IF Found(b.pair) THEN b.pair ELSE NoPair
  BY <1>1 DEF BulkPair
<1>4. ~Found(NoPair) /\ DOMAIN c = 1 .. Len(c) /\ Len(c) \in Nat
  BY LenProperties DEF Found, NoPair
<1>5. \A j \in 1 .. Len(c), in \in BOOLEAN : EndsBy(c, j, in, Len(c)) = BulkEnds(c, j, in)
  <2>1. ASSUME NEW j \in 1 .. Len(c) PROVE j \in Nat \ {0}
    BY <1>4
  <2> QED
    BY <2>1, EndsFacts
<1>6. CASE Found(b.pair)
  <2>1. PICK j \in 1 .. Len(c) : /\ IsWanted(c, cdc, j)
                                 /\ b.pair.in \in EndsBy(c, j, TRUE, Len(c))
                                 /\ b.pair.out \in EndsBy(c, j, FALSE, Len(c))
    BY <1>2, <1>6 DEF WalkRight, Complete
  <2>2. b.pair.in \in BulkEnds(c, j, TRUE) /\ b.pair.out \in BulkEnds(c, j, FALSE)
    BY <1>5, <2>1
  <2>3. j \in Pairs(c) /\ Wanted(c[j], cdc)
    BY <1>4, <2>1, <2>2 DEF Pairs, IsWanted
  <2> QED
    BY <1>3, <1>4, <1>6, <2>2, <2>3
<1>7. CASE ~Found(b.pair)
  <2>1. Halfway(c, cdc, b, Len(c)) /\ (b.pair.in = 0 \/ b.pair.out = 0)
    BY <1>2, <1>7 DEF WalkRight, Found
  <2>2. ASSUME NEW j \in Pairs(c), Wanted(c[j], cdc) PROVE FALSE
    <3>1. /\ j \in 1 .. Len(c) /\ IsWanted(c, cdc, j)
          /\ EndsBy(c, j, TRUE, Len(c)) # {} /\ EndsBy(c, j, FALSE, Len(c)) # {}
      BY <1>4, <1>5, <2>2 DEF Pairs, IsWanted
    <3>2. j = InterfaceOf(c, Len(c)) /\ j # 0
      <4>1. \A k \in 1 .. Len(c) : IsWanted(c, cdc, k) /\ k # InterfaceOf(c, Len(c)) =>
              EndsBy(c, k, TRUE, Len(c)) = {} \/ EndsBy(c, k, FALSE, Len(c)) = {}
        BY <2>1 DEF Halfway
      <4>2. j # 0
        BY <1>4, <3>1
      <4> QED
        BY <3>1, <4>1, <4>2
    <3>3. b.on
      BY <2>1, <3>1, <3>2 DEF Halfway
    <3> QED
      BY <2>1, <3>1, <3>2, <3>3 DEF Halfway, Holds
  <2> QED
    BY <1>3, <1>7, <2>2
<1> QED
  BY <1>6, <1>7

\* What usb_net_try_bind takes.
LEMMA NetPairFacts ==
    ASSUME NEW c \in Seq(Descriptors), NetPair(c) # NoPair
    PROVE  \E j \in (IF DataPairs(c) = {} THEN Pairs(c) ELSE DataPairs(c)) :
             NetPair(c).in \in BulkEnds(c, j, TRUE) /\ NetPair(c).out \in BulkEnds(c, j, FALSE)
<1>1. CASE BulkPair(c, TRUE) # NoPair
  <2>1. PICK j \in Pairs(c) : /\ Wanted(c[j], TRUE)
                              /\ BulkPair(c, TRUE).in \in BulkEnds(c, j, TRUE)
                              /\ BulkPair(c, TRUE).out \in BulkEnds(c, j, FALSE)
    BY <1>1, PairFacts
  <2>2. j \in DataPairs(c)
    BY <2>1 DEF DataPairs, Wanted
  <2>3. NetPair(c) = BulkPair(c, TRUE)
    BY <1>1 DEF NetPair
  <2> QED
    BY <2>1, <2>2, <2>3
<1>2. CASE BulkPair(c, TRUE) = NoPair
  <2>1. DataPairs(c) = {}
    <3>1. \A j \in Pairs(c) : ~Wanted(c[j], TRUE)
      BY <1>2, PairFacts
    <3> QED
      BY <3>1 DEF DataPairs, Wanted
  <2>2. NetPair(c) = BulkPair(c, FALSE)
    BY <1>2 DEF NetPair
  <2>3. PICK j \in Pairs(c) : /\ BulkPair(c, FALSE).in \in BulkEnds(c, j, TRUE)
                              /\ BulkPair(c, FALSE).out \in BulkEnds(c, j, FALSE)
    BY <2>2, PairFacts
  <2> QED
    BY <2>1, <2>2, <2>3
<1> QED
  BY <1>1, <1>2

-----------------------------------------------------------------------------
(* The bus.                                                                *)

\* The least element of a set of numbers is what Min gives.
LEMMA MinFacts ==
    ASSUME NEW S \in SUBSET Nat, S # {}
    PROVE  Min(S) \in S
<1>1. \E x \in S : \A y \in S : x <= y
  BY LeastNumber
<1> QED
  BY <1>1, Zenon DEF Min

\* What is known of a device: its address and its port.
LEMMA DevsTyped ==
    ASSUME BusTypes
    PROVE  /\ Len(devs) \in Nat /\ DOMAIN devs = 1 .. Len(devs)
           /\ \A i \in 1 .. Len(devs) : /\ devs[i].addr \in Nat \ {0}
                                        /\ devs[i].port \in HubPorts /\ devs[i].port \in Nat
<1>1. devs \in Seq([addr : Nat \ {0}, port : HubPorts])
  BY DEF BusTypes
<1>2. \A i \in 1 .. Len(devs) : devs[i] \in [addr : Nat \ {0}, port : HubPorts]
  BY <1>1, ElementOfSeq
<1>3. HubPorts \subseteq Nat
  BY DEF HubPorts
<1> QED
  BY <1>1, <1>2, <1>3, LenProperties

\* Nothing is known at the start.
LEMMA UsbStarts == UsbInit => UsbInv
<1> SUFFICES ASSUME UsbInit PROVE UsbInv
  OBVIOUS
<1>1. /\ addr = [p \in HubPorts |-> Off]
      /\ pc \in {"root", "send"} /\ port = 1 /\ next_addr = 1 /\ devs = <<>> /\ kbd = Off /\ usbnet = Off
      /\ stray = FALSE /\ sent = 0 /\ answers = <<>> /\ result = <<>> /\ status = <<>>
  BY DEF UsbInit
<1>2. config \in [HubPorts -> Configs \cup {<<>>}]
  BY DEF UsbInit
<1>3. Len(<<>>) = 0 /\ Len(Commands) \in Nat /\ Off = -1
  BY UsbAssumption, LenProperties DEF Off
<1>4. BusTypes
  <2>1. devs \in Seq([addr : Nat \ {0}, port : HubPorts])
    BY <1>1, EmptySeq
  <2>2. addr \in [HubPorts -> Nat \cup {Off}]
    BY <1>1
  <2>3. port \in Nat /\ next_addr \in Nat \ {0}
    BY <1>1
  <2>5. stray \in BOOLEAN
    BY <1>1, Zenon
  <2>4. pc \in BusPlaces \cup {"send", "wait"} /\ pc \notin {"address", "descriptors"}
    BY <1>1 DEF BusPlaces
  <2> QED
    BY <1>2, <2>1, <2>2, <2>3, <2>4, <2>5 DEF BusTypes
<1>5. AddressesGrow
  BY <1>1, <1>3 DEF AddressesGrow
<1>6. NoneLeft
  BY <1>1, <1>3 DEF NoneLeft
<1>7. Drivers
  BY <1>1 DEF Drivers
<1>8. AnswersMatch
  BY <1>1, <1>3 DEF AnswersMatch
<1>9. RndisTypes
  BY <1>1, <1>3, EmptySeq DEF RndisTypes
<1> QED
  BY <1>4, <1>5, <1>6, <1>7, <1>8, <1>9 DEF UsbInv, BusInv, RndisInv

\* Steps of the hub's scan that give no address.
LEMMA PortSteps ==
    ASSUME BusInv, Root \/ EndScan
    PROVE  BusInv'
<1> USE DEF BusInv
<1>1. /\ UNCHANGED <<config, addr, port, devs, kbd, usbnet, stray>>
      /\ pc \in {"root", "port"} /\ pc' \in {"port", "bind"}
      /\ (next_addr' = 2 /\ pc = "root") \/ next_addr' = next_addr
  BY DEF Root, EndScan
<1>2. BusTypes'
  BY <1>1 DEF BusTypes, BusPlaces
<1>3. AddressesGrow'
  <2>1. next_addr \in Nat /\ \A p \in HubPorts : addr[p] \in Nat \cup {Off}
    BY DEF BusTypes
  <2>2. \A i \in 1 .. Len(devs) : devs[i].addr \in Nat
    BY DevsTyped
  <2>3. \A p \in HubPorts : addr[p] < next_addr /\ next_addr <= next_addr'
    BY <1>1, <2>1 DEF AddressesGrow, Off
  <2> QED
    BY <1>1, <2>1, <2>2, <2>3 DEF AddressesGrow, Off
<1>4. NoneLeft'
  <2>1. next_addr \in Nat /\ \A p \in HubPorts : addr[p] \in Nat \cup {Off}
    BY DEF BusTypes
  <2>2. \A p \in HubPorts : addr[p] < next_addr'
    BY <1>1, <2>1 DEF AddressesGrow, Off
  <2> QED
    BY <1>1, <2>1, <2>2 DEF NoneLeft, Off
<1> QED
  BY <1>1, <1>2, <1>3, <1>4 DEF Drivers

\* A port is reset, or not, and its device is then at address 0.
LEMMA ResetSteps ==
    ASSUME BusInv, ResetPort
    PROVE  BusInv'
<1> USE DEF BusInv
<1>0. UNCHANGED <<config, devs, kbd, usbnet>>
  BY DEF ResetPort
<1>1. PICK o \in Outcomes :
        LET reset == config[port] # <<>> /\ o # "unseen"
        IN /\ addr' = IF reset THEN [addr EXCEPT ![port] = 0] ELSE addr
           /\ stray' = (stray \/ (reset /\ o = "unheard"))
           /\ IF reset /\ o = "ok" THEN pc' = "address" /\ UNCHANGED port ELSE NextPort
  BY DEF ResetPort
<1>2. pc = "port" /\ port \in HubPorts /\ UNCHANGED next_addr /\ o \in {"unseen", "ok", "unheard"}
  BY DEF ResetPort, Scanned, Outcomes
<1>3. /\ addr' = addr /\ stray' = stray /\ port' = port + 1 /\ pc' = "port"
      \/ /\ addr' = [addr EXCEPT ![port] = 0] /\ stray' = stray /\ port' = port /\ pc' = "address"
      \/ /\ addr' = [addr EXCEPT ![port] = 0] /\ stray' = TRUE /\ port' = port + 1 /\ pc' = "port"
  <2>1. CASE config[port] = <<>> \/ o = "unseen"
    <3>1. addr' = addr /\ NextPort /\ (stray' <=> stray)
      BY <1>1, <2>1
    <3>2. stray \in BOOLEAN
      BY DEF BusTypes
    <3>3. stray' \in BOOLEAN
      BY <1>1
    <3> QED
      BY <3>1, <3>2, <3>3 DEF NextPort
  <2>2. CASE config[port] # <<>> /\ o = "ok"
    <3>1. /\ addr' = [addr EXCEPT ![port] = 0] /\ (stray' <=> stray) /\ port' = port /\ pc' = "address"
      BY <1>1, <2>2
    <3>2. stray \in BOOLEAN
      BY DEF BusTypes
    <3>3. stray' \in BOOLEAN
      BY <1>1
    <3> QED
      BY <3>1, <3>2, <3>3
  <2>3. CASE config[port] # <<>> /\ o = "unheard"
    <3>1. /\ addr' = [addr EXCEPT ![port] = 0] /\ stray' = TRUE /\ NextPort
      BY <1>1, <2>3
    <3> QED
      BY <3>1 DEF NextPort
  <2> QED
    BY <1>2, <2>1, <2>2, <2>3
<1>4. BusTypes'
  <2>0. port \in Nat /\ stray \in BOOLEAN /\ addr \in [HubPorts -> Nat \cup {Off}]
    BY DEF BusTypes
  <2>1. port' \in Nat
    BY <1>3, <2>0
  <2>3. stray' \in BOOLEAN
    BY <1>3, <2>0, Zenon
  <2>2. addr' \in [HubPorts -> Nat \cup {Off}]
    BY <1>2, <1>3, <2>0
  <2> QED
    BY <1>0, <1>2, <1>3, <2>1, <2>2, <2>3 DEF BusTypes, BusPlaces, ResetPort
<1>5. AddressesGrow'
  BY <1>0, <1>2, <1>3 DEF BusTypes, AddressesGrow
<1>6. NoneLeft'
  <2>1. SUFFICES ASSUME ~stray' PROVE NoneLeft'
    BY DEF NoneLeft
  <2>2. ~stray /\ stray' = stray
    BY <1>3, <2>1
  <2>3. \A p \in HubPorts : addr[p] # 0 /\ addr[p] # next_addr
    BY <1>2, <2>2 DEF NoneLeft, AddressesGrow
  <2>4. \A i \in 1 .. Len(devs) : addr[devs[i].port] = devs[i].addr /\ devs[i].port < port
    BY <2>2 DEF NoneLeft
  <2>5. \A i \in 1 .. Len(devs) : devs[i].addr \in Nat \ {0} /\ devs[i].port \in HubPorts
    BY DevsTyped
  <2>6. /\ port \in Nat /\ HubPorts \subseteq Nat /\ next_addr \in Nat \ {0}
        /\ addr \in [HubPorts -> Nat \cup {Off}]
    BY DEF BusTypes, HubPorts
  <2>7. CASE addr' = addr /\ port' = port + 1 /\ pc' = "port"
    <3>1. ASSUME NEW i \in 1 .. Len(devs) PROVE devs[i].port < port + 1
      <4>1. devs[i].port \in Nat /\ devs[i].port < port
        BY <2>4, DevsTyped
      <4> QED
        BY <2>6, <4>1
    <3> QED
      BY <1>0, <1>2, <2>2, <2>3, <2>4, <2>7, <3>1 DEF NoneLeft
  <2>8. CASE addr' = [addr EXCEPT ![port] = 0] /\ port' = port /\ pc' = "address"
    <3>1. /\ addr'[port] = 0 /\ \A p \in HubPorts \ {port} : addr'[p] = addr[p]
      BY <1>2, <2>6, <2>8
    <3>2. \A i \in 1 .. Len(devs) : addr'[devs[i].port] = devs[i].addr
      <4>1. ASSUME NEW i \in 1 .. Len(devs) PROVE devs[i].port \in HubPorts \ {port}
        <5>1. /\ devs[i].port \in HubPorts /\ devs[i].port < port
              /\ devs[i].port \in Nat /\ port \in Nat
          BY <2>4, <2>6, DevsTyped
        <5> QED
          BY <5>1
      <4> QED
        BY <2>4, <3>1, <4>1
    <3> QED
      BY <1>0, <1>2, <2>2, <2>3, <2>4, <2>6, <2>8, <3>1, <3>2 DEF NoneLeft
  <2>9. ~(stray' = TRUE)
    BY <2>1
  <2> QED
    BY <1>3, <2>7, <2>8, <2>9
<1>7. Drivers'
  BY <1>0, <1>2, <1>3 DEF Drivers
<1> QED
  BY <1>4, <1>5, <1>6, <1>7

\* The address goes to all that are at address 0: as long as none was left
\* there, to the one at the port that is scanned.
Addressed(ad) == \A p \in HubPorts : ad[p] = IF addr[p] = 0 THEN next_addr ELSE addr[p]

LEMMA SetAddressSteps ==
    ASSUME BusInv, usb_set_address
    PROVE  BusInv'
<1> USE DEF BusInv
<1>1. UNCHANGED <<config, kbd, usbnet, devs>> /\ pc = "address" /\ port \in HubPorts
  BY DEF usb_set_address, FailDevice, BusTypes
<1>2. /\ port \in Nat /\ next_addr \in Nat \ {0} /\ stray \in BOOLEAN
      /\ addr \in [HubPorts -> Nat \cup {Off}]
  BY DEF BusTypes
<1>3. \/ Addressed(addr') /\ stray' = stray /\ UNCHANGED <<port, next_addr>> /\ pc' = "descriptors"
      \/ Addressed(addr') /\ stray' = stray /\ port' = port + 1 /\ next_addr' = next_addr + 1 /\ pc' = "port"
      \/ addr' = addr /\ stray' = TRUE /\ port' = port + 1 /\ next_addr' = next_addr + 1 /\ pc' = "port"
  <2>1. PICK o \in Outcomes :
          /\ addr' = [p \in HubPorts |-> IF addr[p] = 0 /\ o # "unseen" THEN next_addr ELSE addr[p]]
          /\ stray' = (stray \/ o = "unseen")
          /\ IF o = "ok" THEN pc' = "descriptors" /\ UNCHANGED <<port, next_addr, devs>> ELSE FailDevice
    BY DEF usb_set_address
  <2>2. o # "unseen" => Addressed(addr')
    BY <2>1 DEF Addressed
  <2>3. o # "unseen" => stray' = stray
    <3>1. o # "unseen" => (stray' <=> stray)
      BY <2>1
    <3>2. stray' \in BOOLEAN
      BY <2>1
    <3> QED
      BY <1>2, <3>1, <3>2, Zenon
  <2>4. o = "unseen" => stray' = TRUE /\ addr' = addr
    <3>1. o = "unseen" => \A p \in HubPorts : addr'[p] = addr[p]
      BY <2>1
    <3>2. o = "unseen" => stray' = TRUE
      BY <2>1
    <3>3. addr' = [p \in HubPorts |-> addr'[p]] /\ addr = [p \in HubPorts |-> addr[p]]
      BY <1>2, <2>1
    <3> QED
      BY <3>1, <3>2, <3>3
  <2>5. o = "ok" => pc' = "descriptors" /\ UNCHANGED <<port, next_addr>>
    BY <2>1
  <2>6. o # "ok" => port' = port + 1 /\ next_addr' = next_addr + 1 /\ pc' = "port"
    BY <2>1 DEF FailDevice, NextPort, NextAddrAfterFailure
  <2>7. o = "unseen" => o # "ok"
    OBVIOUS
  <2> QED
    BY <2>2, <2>3, <2>4, <2>5, <2>6, <2>7
<1>4. addr' \in [HubPorts -> Nat \cup {Off}]
  <2>1. PICK o : addr' = [p \in HubPorts |-> IF addr[p] = 0 /\ o # "unseen" THEN next_addr ELSE addr[p]]
    BY DEF usb_set_address
  <2> QED
    BY <1>2, <2>1
<1>5. BusTypes'
  <2>1. port' \in Nat /\ next_addr' \in Nat \ {0}
    BY <1>2, <1>3
  <2>2. stray' \in BOOLEAN
    BY <1>2, <1>3, Zenon
  <2>3. pc' \in {"descriptors", "port"} /\ (pc' = "descriptors" => port' = port)
    BY <1>3
  <2> QED
    BY <1>1, <1>4, <2>1, <2>2, <2>3 DEF BusTypes, BusPlaces
<1>6. \A p \in HubPorts : /\ addr[p] < next_addr /\ addr[p] \in Nat \cup {Off}
                          /\ addr'[p] \in Nat \cup {Off}
  <2>1. ASSUME NEW p \in HubPorts PROVE addr[p] < next_addr
    <3>1. addr[p] <= next_addr /\ addr[p] # next_addr
      BY <1>1 DEF AddressesGrow
    <3>2. addr[p] \in Nat \cup {Off}
      BY <1>2
    <3> QED
      BY <1>2, <3>1, <3>2 DEF Off
  <2> QED
    BY <1>2, <1>4, <2>1
<1>7. AddressesGrow'
  <2>1. \A i \in 1 .. Len(devs) : devs[i].addr < next_addr /\ devs[i].addr \in Nat
    BY DevsTyped DEF AddressesGrow
  <2>2. \A i, j \in 1 .. Len(devs) : i < j => devs[i].addr < devs[j].addr
    BY DEF AddressesGrow
  <2>3. CASE Addressed(addr') /\ UNCHANGED <<port, next_addr>> /\ pc' = "descriptors"
    BY <1>1, <1>2, <1>6, <2>1, <2>2, <2>3 DEF AddressesGrow, Addressed
  <2>4. CASE (Addressed(addr') \/ addr' = addr) /\ next_addr' = next_addr + 1 /\ pc' = "port"
    <3>1. ASSUME NEW p \in HubPorts PROVE addr'[p] <= next_addr
      BY <1>2, <1>6, <2>4 DEF Addressed, Off
    <3>2. ASSUME NEW p \in HubPorts PROVE addr'[p] < next_addr'
      BY <1>2, <1>6, <2>4, <3>1 DEF Off
    <3>3. ASSUME NEW i \in 1 .. Len(devs) PROVE devs[i].addr < next_addr'
      BY <1>2, <2>1, <2>4
    <3>4. ASSUME NEW p \in HubPorts PROVE addr'[p] <= next_addr' /\ addr'[p] # next_addr'
      <4>1. next_addr' \in Int /\ addr'[p] \in Int
        BY <1>2, <1>6, <2>4 DEF Off
      <4> QED
        BY <3>2, <4>1
    <3> QED
      BY <1>1, <2>2, <2>4, <3>3, <3>4 DEF AddressesGrow
  <2> QED
    BY <1>3, <2>3, <2>4
<1>8. NoneLeft'
  <2>1. SUFFICES ASSUME ~stray' PROVE NoneLeft'
    BY DEF NoneLeft
  <2>2. ~(stray' = TRUE)
    BY <2>1
  <2>3. ~stray /\ Addressed(addr')
    BY <1>3, <2>1, <2>2
  <2>4. /\ \A p \in HubPorts : addr[p] = 0 => p = port
        /\ \A p, q \in HubPorts : addr[p] = addr[q] /\ p # q => addr[p] = Off
        /\ \A i \in 1 .. Len(devs) : addr[devs[i].port] = devs[i].addr /\ devs[i].port < port
    BY <1>1, <2>3 DEF NoneLeft
  <2>5. \A p \in HubPorts : addr'[p] # 0 /\ (addr'[p] = next_addr => p = port)
    BY <1>2, <1>6, <2>3, <2>4 DEF Addressed
  <2>6. ASSUME NEW p \in HubPorts, NEW q \in HubPorts, addr'[p] = addr'[q], p # q PROVE addr'[p] = Off
    BY <1>2, <1>6, <2>3, <2>4, <2>6 DEF Addressed
  <2>7. \A i \in 1 .. Len(devs) : addr'[devs[i].port] = devs[i].addr
    <3>1. \A i \in 1 .. Len(devs) : devs[i].port \in HubPorts /\ devs[i].addr # 0
      BY DevsTyped
    <3> QED
      BY <2>3, <2>4, <3>1 DEF Addressed
  <2>8. ASSUME NEW p \in HubPorts, addr'[p] = next_addr' PROVE p = port'
    <3>1. CASE UNCHANGED <<port, next_addr>>
      BY <2>5, <2>8, <3>1
    <3>2. CASE next_addr' = next_addr + 1
      <4>1. addr'[p] = next_addr + 1 /\ (addr'[p] = next_addr \/ addr'[p] = addr[p])
        BY <2>3, <2>8, <3>2 DEF Addressed
      <4> QED
        BY <1>2, <1>6, <4>1
    <3> QED
      BY <1>3, <3>1, <3>2
  <2>9. ASSUME NEW i \in 1 .. Len(devs) PROVE devs[i].port < port'
    <3>1. devs[i].port \in Nat /\ devs[i].port < port /\ (port' = port \/ port' = port + 1)
      BY <1>3, <2>4, DevsTyped
    <3> QED
      BY <1>2, <3>1
  <2> QED
    BY <1>1, <2>5, <2>6, <2>7, <2>8, <2>9 DEF NoneLeft
<1>9. Drivers'
  <2>1. pc' # "done" /\ UNCHANGED <<config, kbd, usbnet, devs>>
    BY <1>1, <1>3
  <2> QED
    BY <1>1, <2>1 DEF Drivers
<1> QED
  BY <1>5, <1>7, <1>8, <1>9

\* The device that answers is known by its address, or given up.
LEMMA DescribeSteps ==
    ASSUME BusInv, Describe
    PROVE  BusInv'
<1> USE DEF BusInv
<1>1. UNCHANGED <<config, addr, kbd, usbnet, stray>> /\ pc = "descriptors" /\ port \in HubPorts
  BY DEF Describe, BusTypes
<1>2. /\ port \in Nat /\ next_addr \in Nat \ {0} /\ HubPorts \subseteq Nat
      /\ addr \in [HubPorts -> Nat \cup {Off}] /\ devs \in Seq([addr : Nat \ {0}, port : HubPorts])
  BY DEF BusTypes, HubPorts
<1>3. PICK p \in HubPorts : /\ addr[p] = next_addr
                            /\ devs' = devs \/ devs' = Append(devs, [addr |-> next_addr, port |-> p])
                            /\ next_addr' = next_addr + 1 /\ port' = port + 1 /\ pc' = "port"
  <2>1. PICK o \in Outcomes, p \in Answering :
          IF o = "ok" THEN /\ devs' = Append(devs, [addr |-> next_addr, port |-> p])
                           /\ next_addr' = next_addr + 1 /\ NextPort
                      ELSE FailDevice
    BY DEF Describe
  <2> QED
    BY <2>1 DEF Answering, FailDevice, NextPort, NextAddrAfterFailure
<1>4. PICK d : d = [addr |-> next_addr, port |-> p]
  OBVIOUS
<1>5. d \in [addr : Nat \ {0}, port : HubPorts] /\ d.addr = next_addr /\ d.port = p
  BY <1>2, <1>4
<1>6. PICK n : n = Len(devs)
  OBVIOUS
<1>7. n \in Nat
  BY <1>6, DevsTyped
<1>8. /\ devs' \in Seq([addr : Nat \ {0}, port : HubPorts])
      /\ Len(devs') \in {n, n + 1}
      /\ \A i \in 1 .. n : devs'[i] = devs[i]
      /\ Len(devs') = n + 1 => devs'[n + 1] = d
  <2>1. CASE devs' = devs
    BY <1>2, <1>6, <1>7, <2>1
  <2>2. CASE devs' = Append(devs, d)
    <3>1. /\ Append(devs, d) \in Seq([addr : Nat \ {0}, port : HubPorts])
          /\ Len(Append(devs, d)) = Len(devs) + 1
          /\ \A i \in 1 .. Len(devs) : Append(devs, d)[i] = devs[i]
          /\ Append(devs, d)[Len(devs) + 1] = d
      BY <1>2, <1>5, AppendProperties
    <3> QED
      BY <1>6, <2>2, <3>1
  <2> QED
    BY <1>3, <1>4, <2>1, <2>2
<1>9. \A i : i \in 1 .. Len(devs') => i \in 1 .. n \/ (i = n + 1 /\ devs'[i] = d)
  BY <1>7, <1>8
<1>10. BusTypes'
  <2>1. port' \in Nat /\ next_addr' \in Nat \ {0} /\ pc' = "port"
    BY <1>2, <1>3
  <2> QED
    BY <1>1, <1>8, <2>1 DEF BusTypes, BusPlaces
<1>11. /\ \A i \in 1 .. n : /\ devs[i].addr \in Nat \ {0} /\ devs[i].addr < next_addr
                            /\ devs[i].port \in HubPorts /\ devs[i].port \in Nat
       /\ \A i, j \in 1 .. n : i < j => devs[i].addr < devs[j].addr
  BY <1>6, DevsTyped DEF AddressesGrow
<1>12. AddressesGrow'
  <2>1. ASSUME NEW q \in HubPorts PROVE addr[q] <= next_addr + 1 /\ addr[q] # next_addr + 1
    <3>1. addr[q] <= next_addr /\ addr[q] \in Nat \cup {Off}
      BY <1>2 DEF AddressesGrow
    <3> QED
      BY <1>2, <3>1 DEF Off
  <2>2. ASSUME NEW i \in 1 .. Len(devs') PROVE devs'[i].addr < next_addr + 1
    <3>1. devs'[i].addr = next_addr \/ (devs'[i].addr \in Nat /\ devs'[i].addr < next_addr)
      BY <1>5, <1>8, <1>9, <1>11
    <3> QED
      BY <1>2, <3>1
  <2>3. ASSUME NEW i \in 1 .. Len(devs'), NEW j \in 1 .. Len(devs'), i < j
        PROVE  devs'[i].addr < devs'[j].addr
    <3>1. i \in 1 .. n
      BY <1>7, <1>8, <2>3
    <3>2. devs'[i] = devs[i]
      BY <1>8, <3>1
    <3>3. CASE j \in 1 .. n
      <4>1. devs'[j] = devs[j]
        BY <1>8, <3>3
      <4> QED
        BY <1>11, <2>3, <3>1, <3>2, <3>3, <4>1
    <3>4. CASE devs'[j] = d
      BY <1>5, <1>11, <3>1, <3>2, <3>4
    <3> QED
      BY <1>9, <3>3, <3>4
  <2> QED
    BY <1>1, <1>3, <2>1, <2>2, <2>3 DEF AddressesGrow
<1>13. NoneLeft'
  <2>1. SUFFICES ASSUME ~stray PROVE NoneLeft'
    BY <1>1 DEF NoneLeft
  <2>2. /\ \A q \in HubPorts : addr[q] # 0
        /\ p = port
        /\ \A q, r \in HubPorts : addr[q] = addr[r] /\ q # r => addr[q] = Off
        /\ \A i \in 1 .. n : addr[devs[i].port] = devs[i].addr /\ devs[i].port < port
    BY <1>1, <1>3, <1>6, <2>1 DEF NoneLeft
  <2>3. ASSUME NEW q \in HubPorts PROVE addr[q] # next_addr + 1
    <3>1. addr[q] <= next_addr /\ addr[q] \in Nat \cup {Off}
      BY <1>2 DEF AddressesGrow
    <3> QED
      BY <1>2, <3>1 DEF Off
  <2>4. ASSUME NEW i \in 1 .. Len(devs')
        PROVE  addr[devs'[i].port] = devs'[i].addr /\ devs'[i].port < port + 1
    <3>1. CASE i \in 1 .. n
      <4>1. devs'[i] = devs[i]
        BY <1>8, <3>1
      <4>2. devs[i].port < port /\ devs[i].port \in Nat /\ addr[devs[i].port] = devs[i].addr
        BY <1>11, <2>2, <3>1
      <4>3. devs[i].port < port + 1
        BY <1>2, <4>2
      <4> QED
        BY <4>1, <4>2, <4>3
    <3>2. CASE devs'[i] = d
      BY <1>2, <1>3, <1>5, <2>2, <3>2
    <3> QED
      BY <1>9, <3>1, <3>2
  <2> QED
    BY <1>1, <1>3, <2>2, <2>3, <2>4 DEF NoneLeft
<1>14. Drivers'
  BY <1>1, <1>3 DEF Drivers
<1> QED
  BY <1>10, <1>12, <1>13, <1>14

\* The two drivers take devices of different addresses.
LEMMA BindSteps ==
    ASSUME BusInv, Bind
    PROVE  BusInv'
<1> USE DEF BusInv
<1> DEFINE First(S) == IF S = {} THEN Off ELSE devs[Min(S)].addr
           K == {i \in DOMAIN devs : HidEndpoints(config[devs[i].port]) # {}}
           N == {i \in DOMAIN devs : /\ NetPair(config[devs[i].port]) # NoPair
                                     /\ K = {} \/ i # Min(K)}
<1>1. /\ UNCHANGED <<config, addr, port, next_addr, devs, stray>> /\ pc = "bind" /\ pc' = "done"
      /\ kbd' = First(K) /\ usbnet' = First(N)
  BY Zenon DEF Bind
<1>2. DOMAIN devs = 1 .. Len(devs) /\ Len(devs) \in Nat
  BY DevsTyped
<1>3. K \in SUBSET Nat /\ N \in SUBSET Nat
  BY <1>2
<1>4. K # {} => Min(K) \in 1 .. Len(devs)
  <2>1. K # {} => Min(K) \in K
    <3> HIDE DEF K
    <3> QED
      BY <1>3, MinFacts
  <2> QED
    BY <1>2, <2>1
<1>5. N # {} => /\ Min(N) \in 1 .. Len(devs) /\ NetPair(config[devs[Min(N)].port]) # NoPair
                /\ K = {} \/ Min(N) # Min(K)
  <2>1. N # {} => Min(N) \in N
    <3> HIDE DEF N
    <3> QED
      BY <1>3, MinFacts
  <2> HIDE DEF K
  <2> QED
    BY <1>2, <2>1
<1> HIDE DEF K, N
<1>6. BusTypes' /\ AddressesGrow' /\ NoneLeft'
  <2>1. BusTypes'
    BY <1>1 DEF BusTypes, BusPlaces
  <2>2. AddressesGrow'
    BY <1>1 DEF AddressesGrow
  <2>3. NoneLeft'
    BY <1>1 DEF NoneLeft
  <2> QED
    BY <2>1, <2>2, <2>3
<1>7. \A i \in 1 .. Len(devs) : devs[i].addr # Off
  BY DevsTyped DEF Off
<1>8. kbd' = usbnet' => kbd' = Off
  <2>1. CASE K = {} \/ N = {}
    BY <1>1, <2>1
  <2>2. CASE K # {} /\ N # {}
    <3>1. PICK i, j : i = Min(K) /\ j = Min(N)
      OBVIOUS
    <3>2. i \in 1 .. Len(devs) /\ j \in 1 .. Len(devs) /\ i # j
      BY <1>4, <1>5, <2>2, <3>1
    <3>3. i < j \/ j < i
      BY <1>2, <3>2
    <3>4. devs[i].addr # devs[j].addr
      <4>1. devs[i].addr < devs[j].addr \/ devs[j].addr < devs[i].addr
        BY <3>2, <3>3 DEF AddressesGrow
      <4>2. devs[i].addr \in Nat /\ devs[j].addr \in Nat
        BY <3>2, DevsTyped
      <4> QED
        BY <4>1, <4>2
    <3>5. kbd' = devs[i].addr /\ usbnet' = devs[j].addr
      BY <1>1, <2>2, <3>1
    <3> QED
      BY <3>4, <3>5
  <2> QED
    BY <2>1, <2>2
<1>9. usbnet' # Off => \E i \in 1 .. Len(devs) : /\ devs[i].addr = usbnet'
                                                 /\ NetPair(config[devs[i].port]) # NoPair
  BY <1>1, <1>5
<1>10. Drivers'
  BY <1>1, <1>8, <1>9 DEF Drivers
<1> QED
  BY <1>6, <1>10

-----------------------------------------------------------------------------
(* The commands of RNDIS and their answers.                                *)

Statuses == {"none", "success", "failure"}
AnswerSet == [id : Nat, status : {"success", "failure"}]

\* What a step at the bus or at the commands leaves of the other's invariant.
LEMMA Apart ==
    /\ BusInv /\ UNCHANGED bus => BusInv'
    /\ RndisInv /\ UNCHANGED rndis /\ pc # "wait" /\ pc' # "wait" => RndisInv'
    /\ BusInv /\ UNCHANGED <<config, addr, port, next_addr, devs, kbd, usbnet, stray>>
       /\ pc \in {"send", "wait"} /\ pc' \in {"send", "wait"} => BusInv'
<1>1. ASSUME BusInv, UNCHANGED <<config, addr, port, next_addr, devs, kbd, usbnet, stray>>,
             pc = pc' \/ (pc \in {"send", "wait"} /\ pc' \in {"send", "wait"})
      PROVE  BusInv'
  <2> USE <1>1 DEF BusInv
  <2>1. BusTypes'
    BY DEF BusTypes
  <2>2. AddressesGrow'
    BY DEF AddressesGrow
  <2>3. NoneLeft'
    BY DEF NoneLeft
  <2>4. Drivers'
    BY DEF Drivers
  <2> QED
    BY <2>1, <2>2, <2>3, <2>4
<1>2. BusInv /\ UNCHANGED bus => BusInv'
  BY <1>1 DEF bus
<1>3. ASSUME RndisInv, UNCHANGED rndis, pc # "wait", pc' # "wait" PROVE RndisInv'
  BY <1>3 DEF RndisInv, RndisTypes, AnswersMatch, rndis
<1> QED
  BY <1>1, <1>2, <1>3

\* The lengths and members of what the commands' invariant speaks of.
LEMMA RndisFacts ==
    ASSUME RndisInv
    PROVE  /\ sent \in Nat /\ Len(answers) \in Nat /\ Len(result) \in Nat /\ Len(status) = sent
           /\ \A i \in 1 .. Len(answers) : answers[i] \in AnswerSet
<1>1. sent \in 0 .. Len(Commands) /\ answers \in Seq(AnswerSet) /\ result \in Seq({"done", "failed"})
  BY DEF RndisInv, RndisTypes, AnswerSet
<1>2. Len(Commands) \in Nat
  BY UsbAssumption, LenProperties
<1>3. \A i \in 1 .. Len(answers) : answers[i] \in AnswerSet
  BY <1>1, ElementOfSeq
<1> QED
  BY <1>1, <1>2, <1>3, LenProperties DEF RndisInv, AnswersMatch

LEMMA SendSteps ==
    ASSUME RndisInv, SendCommand
    PROVE  RndisInv'
<1>1. PICK n : n = sent
  OBVIOUS
<1>2. /\ n \in Nat /\ Len(status) = n /\ Len(answers) \in Nat /\ Len(result) = n /\ pc = "send"
      /\ n < Len(Commands) /\ sent' = n + 1 /\ Len(Commands) \in Nat
  <2>1. Len(Commands) \in Nat
    BY UsbAssumption, LenProperties
  <2> QED
    BY <1>1, <2>1, RndisFacts DEF SendCommand, RndisInv, AnswersMatch
<1>3. /\ answers \in Seq(AnswerSet) /\ result \in Seq({"done", "failed"}) /\ status \in Seq(Statuses)
  BY DEF RndisInv, RndisTypes, AnswerSet, Statuses
<1>4. /\ \A i \in 1 .. Len(answers) : /\ answers[i].id \in 1 .. n
                                      /\ status[answers[i].id] = answers[i].status
      /\ \A i \in 1 .. Len(result) : result[i] = "done" => status[i] = "success"
  BY <1>1 DEF RndisInv, AnswersMatch
<1>5. PICK o \in Outcomes, s \in {"success", "failure"} :
        /\ status' = Append(status, IF o = "unseen" THEN "none" ELSE s)
        /\ answers' = IF o = "unseen" THEN answers ELSE Append(answers, [id |-> sent + 1, status |-> s])
        /\ IF o = "ok" THEN pc' = "wait" /\ UNCHANGED result
           ELSE result' = Append(result, "failed") /\ UNCHANGED pc
  BY DEF SendCommand
<1>6. /\ status' \in Seq(Statuses) /\ Len(status') = n + 1
      /\ \A i \in 1 .. n : status'[i] = status[i]
      /\ status'[n + 1] = IF o = "unseen" THEN "none" ELSE s
  <2>1. PICK t : t = IF o = "unseen" THEN "none" ELSE s
    OBVIOUS
  <2>2. t \in Statuses
    BY <2>1 DEF Statuses
  <2>3. status' = Append(status, t)
    BY <1>5, <2>1
  <2>4. /\ Append(status, t) \in Seq(Statuses) /\ Len(Append(status, t)) = Len(status) + 1
        /\ \A i \in 1 .. Len(status) : Append(status, t)[i] = status[i]
        /\ Append(status, t)[Len(status) + 1] = t
    BY <1>3, <2>2, AppendProperties
  <2> QED
    BY <1>2, <2>1, <2>3, <2>4
<1>7. /\ answers' \in Seq(AnswerSet)
      /\ \A i \in 1 .. Len(answers') : /\ answers'[i].id \in 1 .. n + 1
                                       /\ status'[answers'[i].id] = answers'[i].status
  <2>1. \A i \in 1 .. Len(answers) : /\ answers[i].id \in 1 .. n + 1
                                     /\ status'[answers[i].id] = answers[i].status
    <3>1. \A k : k \in 1 .. n => k \in 1 .. n + 1
      BY <1>2
    <3> QED
      BY <1>4, <1>6, <3>1
  <2>2. CASE o = "unseen"
    BY <1>3, <1>5, <2>1, <2>2
  <2>3. CASE o # "unseen"
    <3>1. PICK a : a = [id |-> sent + 1, status |-> s]
      OBVIOUS
    <3>2. a \in AnswerSet /\ a.id = n + 1 /\ a.status = s
      BY <1>1, <1>2, <3>1 DEF AnswerSet
    <3>3. answers' = Append(answers, a)
      BY <1>5, <2>3, <3>1
    <3>4. /\ Append(answers, a) \in Seq(AnswerSet) /\ Len(Append(answers, a)) = Len(answers) + 1
          /\ \A i \in 1 .. Len(answers) : Append(answers, a)[i] = answers[i]
          /\ Append(answers, a)[Len(answers) + 1] = a
      BY <1>3, <3>2, AppendProperties
    <3>5. \A i \in 1 .. Len(answers') : i \in 1 .. Len(answers) \/ i = Len(answers) + 1
      BY <1>2, <3>3, <3>4
    <3>6. n + 1 \in 1 .. n + 1 /\ status'[n + 1] = s
      BY <1>2, <1>6, <2>3
    <3> QED
      BY <2>1, <3>2, <3>3, <3>4, <3>5, <3>6
  <2> QED
    BY <2>2, <2>3
<1>8. /\ result' \in Seq({"done", "failed"})
      /\ Len(result') = IF pc' = "wait" THEN n ELSE n + 1
      /\ \A i \in 1 .. Len(result') : result'[i] = "done" => status'[i] = "success"
  <2>1. CASE o = "ok"
    BY <1>2, <1>3, <1>4, <1>5, <1>6, <2>1
  <2>2. CASE o # "ok"
    <3>1. result' = Append(result, "failed") /\ pc' = "send"
      BY <1>2, <1>5, <2>2
    <3>2. /\ Append(result, "failed") \in Seq({"done", "failed"})
          /\ Len(Append(result, "failed")) = Len(result) + 1
          /\ \A i \in 1 .. Len(result) : Append(result, "failed")[i] = result[i]
          /\ Append(result, "failed")[Len(result) + 1] = "failed"
      BY <1>3, AppendProperties
    <3>3. \A i \in 1 .. n + 1 : i \in 1 .. n \/ i = n + 1
      BY <1>2
    <3> QED
      BY <1>2, <1>4, <1>6, <3>1, <3>2, <3>3
  <2> QED
    BY <2>1, <2>2
<1>9. RndisTypes'
  <2>1. sent' \in 0 .. Len(Commands)
    BY <1>2
  <2> QED
    BY <1>6, <1>7, <1>8, <2>1 DEF RndisTypes, AnswerSet, Statuses
<1>10. AnswersMatch'
  <2>1. sent' = n + 1 /\ (n + 1) - 1 = n
    BY <1>2
  <2> QED
    BY <1>6, <1>7, <1>8, <2>1 DEF AnswersMatch
<1> QED
  BY <1>9, <1>10 DEF RndisInv

\* A command that is over, one way or the other.
LEMMA ResultSteps ==
    ASSUME RndisInv, pc = "wait", pc' = "send", UNCHANGED <<sent, status>>,
           NEW r \in {"done", "failed"}, result' = Append(result, r),
           r = "done" => status[sent] = "success",
           answers' \in Seq(AnswerSet),
           \A i \in 1 .. Len(answers') : /\ answers'[i].id \in 1 .. sent
                                         /\ status[answers'[i].id] = answers'[i].status
    PROVE  RndisInv'
<1>1. /\ sent \in Nat /\ Len(status) = sent /\ Len(result) = sent - 1 /\ Len(result) \in Nat
      /\ result \in Seq({"done", "failed"})
  BY RndisFacts DEF RndisInv, AnswersMatch, RndisTypes
<1>2. /\ Append(result, r) \in Seq({"done", "failed"})
      /\ Len(Append(result, r)) = Len(result) + 1
      /\ \A i \in 1 .. Len(result) : Append(result, r)[i] = result[i]
      /\ Append(result, r)[Len(result) + 1] = r
  BY <1>1, AppendProperties
<1>3. Len(result') = sent /\ result'[sent] = r /\ \A i \in 1 .. sent : i \in 1 .. Len(result) \/ i = sent
  BY <1>1, <1>2
<1>4. \A i \in 1 .. Len(result) : result[i] = "done" => status[i] = "success"
  BY DEF RndisInv, AnswersMatch
<1>5. \A i \in 1 .. Len(result') : result'[i] = "done" => status[i] = "success"
  BY <1>2, <1>3, <1>4
<1>6. RndisTypes'
  BY <1>2 DEF RndisInv, RndisTypes, AnswerSet
<1>7. AnswersMatch'
  BY <1>1, <1>3, <1>5 DEF AnswersMatch
<1> QED
  BY <1>6, <1>7 DEF RndisInv

LEMMA FetchSteps ==
    ASSUME RndisInv, FetchAnswer \/ GiveUp
    PROVE  RndisInv'
<1>1. /\ answers \in Seq(AnswerSet)
      /\ \A i \in 1 .. Len(answers) : /\ answers[i].id \in 1 .. sent
                                      /\ status[answers[i].id] = answers[i].status
  BY DEF RndisInv, RndisTypes, AnswerSet, AnswersMatch
<1>2. pc = "wait" /\ UNCHANGED <<sent, status>>
  BY DEF FetchAnswer, GiveUp
<1>3. CASE GiveUp
  <2>1. result' = Append(result, "failed") /\ pc' = "send" /\ answers' = answers
    BY <1>3 DEF GiveUp
  <2>2. "failed" \in {"done", "failed"} /\ "failed" # "done"
    OBVIOUS
  <2> QED
    BY <1>1, <1>2, <2>1, <2>2, ResultSteps
<1>4. ASSUME NEW a, answers # <<>>, a = Head(answers), answers' = Tail(answers)
      PROVE  /\ a.id = sent => a.status = status[sent]
             /\ answers' \in Seq(AnswerSet)
             /\ \A i \in 1 .. Len(answers') : /\ answers'[i].id \in 1 .. sent
                                              /\ status[answers'[i].id] = answers'[i].status
  <2>1. /\ Head(answers) = answers[1] /\ Tail(answers) \in Seq(AnswerSet)
        /\ Len(answers) \in Nat \ {0}
        /\ Len(Tail(answers)) = Len(answers) - 1
        /\ \A i \in 1 .. Len(Tail(answers)) : Tail(answers)[i] = answers[i + 1]
    BY <1>1, <1>4, HeadTailProperties, LenProperties, EmptySeq
  <2>2. ASSUME NEW i \in 1 .. Len(answers') PROVE i + 1 \in 1 .. Len(answers) /\ answers'[i] = answers[i + 1]
    BY <1>4, <2>1
  <2>3. 1 \in 1 .. Len(answers)
    BY <2>1
  <2> QED
    BY <1>1, <1>4, <2>1, <2>2, <2>3
<1>5. CASE FetchAnswer
  <2>1. PICK o \in Outcomes :
          /\ o # "unseen" => answers # <<>>
          /\ answers' = IF o = "unseen" THEN answers ELSE Tail(answers)
          /\ IF o = "ok" /\ Type(Head(answers).id) = Type(sent)
             THEN /\ result' = Append(result, IF Answers(Head(answers)) THEN "done" ELSE "failed")
                  /\ pc' = "send" /\ UNCHANGED tries
             ELSE tries' = tries + 1 /\ UNCHANGED <<result, pc>>
    BY <1>5 DEF FetchAnswer
  <2>2. CASE o = "unseen"
    <3>1. UNCHANGED <<answers, result, pc>>
      BY <2>1, <2>2
    <3> QED
      BY <1>2, <3>1 DEF RndisInv, RndisTypes, AnswersMatch
  <2>3. CASE o # "unseen"
    <3>1. PICK a : a = Head(answers)
      OBVIOUS
    <3>2. answers # <<>> /\ answers' = Tail(answers)
      BY <2>1, <2>3
    <3>3. /\ a.id = sent => a.status = status[sent]
          /\ answers' \in Seq(AnswerSet)
          /\ \A i \in 1 .. Len(answers') : /\ answers'[i].id \in 1 .. sent
                                           /\ status[answers'[i].id] = answers'[i].status
      BY <1>4, <3>1, <3>2
    <3>4. CASE o = "ok" /\ Type(a.id) = Type(sent)
      <4>1. PICK r : r = IF Answers(a) THEN "done" ELSE "failed"
        OBVIOUS
      <4>2. r \in {"done", "failed"} /\ (r = "done" => status[sent] = "success")
        BY <3>3, <4>1 DEF Answers
      <4>3. result' = Append(result, r) /\ pc' = "send"
        BY <2>1, <3>1, <3>4, <4>1
      <4> QED
        BY <1>2, <3>3, <4>2, <4>3, ResultSteps
    <3>5. CASE ~(o = "ok" /\ Type(a.id) = Type(sent))
      <4>1. UNCHANGED <<result, pc>>
        BY <2>1, <3>1, <3>5
      <4> QED
        BY <1>2, <3>3, <4>1 DEF RndisInv, RndisTypes, AnswersMatch, AnswerSet
    <3> QED
      BY <3>4, <3>5
  <2> QED
    BY <2>2, <2>3
<1> QED
  BY <1>3, <1>5

-----------------------------------------------------------------------------
(* The invariant, and what it says of the bus.                             *)

\* Every step, of the scan or of the commands, keeps the invariant.
LEMMA UsbSteps ==
    ASSUME UsbInv, [UsbNext]_usbVars
    PROVE  UsbInv'
<1> USE DEF UsbInv
<1>1. CASE Root \/ ResetPort \/ EndScan \/ usb_set_address \/ Describe \/ Bind
  <2>1. BusInv'
    BY <1>1, PortSteps, ResetSteps, SetAddressSteps, DescribeSteps, BindSteps
  <2>2. UNCHANGED rndis /\ pc # "wait" /\ pc' # "wait"
    BY <1>1 DEF Root, ResetPort, EndScan, usb_set_address, Describe, Bind, NextPort, FailDevice
  <2> QED
    BY <2>1, <2>2, Apart
<1>2. CASE SendCommand \/ FetchAnswer \/ GiveUp
  <2>1. RndisInv'
    BY <1>2, SendSteps, FetchSteps
  <2>2. /\ UNCHANGED <<config, addr, port, next_addr, devs, kbd, usbnet, stray>>
        /\ pc \in {"send", "wait"} /\ pc' \in {"send", "wait"}
    BY <1>2 DEF SendCommand, FetchAnswer, GiveUp
  <2> QED
    BY <2>1, <2>2, Apart
<1>3. CASE UNCHANGED usbVars
  <2>1. UNCHANGED bus /\ UNCHANGED rndis /\ UNCHANGED pc
    BY <1>3 DEF usbVars, bus
  <2>2. RndisInv'
    BY <2>1 DEF RndisInv, RndisTypes, AnswersMatch, rndis
  <2> QED
    BY <2>1, <2>2, Apart
<1> QED
  BY <1>1, <1>2, <1>3 DEF UsbNext

\* The invariant says of the bus what is wanted of it.
LEMMA UsbInvRight == UsbInv => UsbBusRight
<1> SUFFICES ASSUME UsbInv PROVE UsbBusRight
  OBVIOUS
<1> USE DEF UsbInv, BusInv
<1>1. DevicesApart
  <2>1. DOMAIN devs = 1 .. Len(devs)
    BY DevsTyped
  <2> QED
    BY <2>1 DEF DevicesApart, NoneLeft, Drivers
<1>2. PairOfOneInterface
  <2>1. SUFFICES ASSUME NEW i \in DOMAIN devs, pc = "done", devs[i].addr = usbnet, NEW c,
                        c = config[devs[i].port]
                 PROVE  \E j \in (IF DataPairs(c) = {} THEN Pairs(c) ELSE DataPairs(c)) :
                          NetPair(c).in \in BulkEnds(c, j, TRUE) /\ NetPair(c).out \in BulkEnds(c, j, FALSE)
    BY DEF PairOfOneInterface
  <2>2. i \in 1 .. Len(devs) /\ Len(devs) \in Nat /\ devs[i].addr \in Nat /\ devs[i].port \in HubPorts
    BY DevsTyped
  <2>3. PICK k \in 1 .. Len(devs) : devs[k].addr = usbnet /\ NetPair(config[devs[k].port]) # NoPair
    <3>1. usbnet # Off
      BY <2>1, <2>2 DEF Off
    <3> QED
      BY <3>1 DEF Drivers
  <2>4. i = k
    <3>1. ~(i < k) /\ ~(k < i)
      <4>1. i < k => devs[i].addr < devs[k].addr
        BY <2>2 DEF AddressesGrow
      <4>2. k < i => devs[k].addr < devs[i].addr
        BY <2>2 DEF AddressesGrow
      <4>3. devs[i].addr = devs[k].addr
        BY <2>1, <2>3
      <4> QED
        BY <2>2, <4>1, <4>2, <4>3
    <3> QED
      BY <2>2, <3>1
  <2>5. c \in Seq(Descriptors)
    <3>1. c \in Configs \cup {<<>>}
      BY <2>1, <2>2 DEF BusTypes
    <3> QED
      BY <3>1, UsbAssumption, EmptySeq
  <2>6. NetPair(c) # NoPair
    BY <2>1, <2>3, <2>4
  <2> QED
    BY <2>5, <2>6, NetPairFacts
<1>3. DoneMeansDone
  <2>1. DOMAIN result = 1 .. Len(result)
    BY LenProperties DEF RndisInv, RndisTypes
  <2> QED
    BY <2>1 DEF DoneMeansDone, RndisInv, AnswersMatch
<1> QED
  BY <1>1, <1>2, <1>3 DEF UsbBusRight

\* Whatever transfers fail and however late the answers are, addresses,
\* drivers and answers stay as UsbInv has them (usb_host.c, usb_net.c).
THEOREM UsbInvariant == UsbSpec => []UsbInv
<1>1. UsbInit => UsbInv
  BY UsbStarts
<1>2. UsbInv /\ [UsbNext]_usbVars => UsbInv'
  BY UsbSteps
<1> QED
  BY <1>1, <1>2, PTL DEF UsbSpec

\* The devices known have each their own address and their own driver, the
\* network driver's endpoints are a pair of one interface, a data interface if
\* one has a pair, and a command reported done was carried out.
THEOREM BusStaysRight == UsbSpec => []UsbBusRight
<1> QED
  BY UsbInvariant, UsbInvRight, PTL
=============================================================================
