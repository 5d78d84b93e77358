----------------------------- MODULE VmemProofs -----------------------------
(***************************************************************************)
(* Areas stay disjoint, non-empty and inside the region, and mmap and      *)
(* munmap implement the abstract address space, for every region, page     *)
(* size, number of areas and set of arguments.  An execve that fails       *)
(* leaves the region as it was, for every archive and program.             *)
(***************************************************************************)
EXTENDS Vmem, Exec, SequenceTheorems, WellFoundedInduction, TLAPS

VmaType == [used : BOOLEAN, base : Nat, len : Nat]

-----------------------------------------------------------------------------
(* Alignment and the bounds of the region.                                 *)

LEMMA AlignDownBounds ==
    ASSUME NEW x \in Nat
    PROVE  AlignDown(x) \in Nat /\ AlignDown(x) <= x /\ x < AlignDown(x) + Page
<1>1. x % Page \in 0 .. Page - 1 /\ x % Page <= x
  BY RegionAssumption, Z3
<1> QED
  BY <1>1, RegionAssumption DEF AlignDown

LEMMA AlignUpBounds ==
    ASSUME NEW x \in Nat
    PROVE  AlignUp(x) \in Nat /\ AlignUp(x) >= x
<1>1. x + Page - 1 \in Nat
  BY RegionAssumption
<1> QED
  BY <1>1, AlignDownBounds, RegionAssumption DEF AlignUp

LEMMA HiBounds ==
    ASSUME NEW low \in Nat
    PROVE  proc_mmap_hi(low) \in Nat /\ proc_mmap_hi(low) <= Top
<1>1. Ceiling(low) \in Nat /\ Ceiling(low) <= Top
  BY RegionAssumption DEF Ceiling
<1> QED
  BY <1>1, AlignDownBounds, RegionAssumption DEF proc_mmap_hi

LEMMA SearchFromBounds ==
    ASSUME TypeOK, NEW low \in Nat, mmap_next <= Top
    PROVE  SearchFrom(low) \in Nat /\ SearchFrom(low) <= Top
BY HiBounds, RegionAssumption DEF SearchFrom, TypeOK

LEMMA LoweredNat ==
    ASSUME TypeOK, NEW sp \in Sps
    PROVE  Lowered(sp) \in Nat
BY ArgumentsAssumption DEF Lowered, TypeOK

\* After the lazy initialisation there is a heap at or above the base.
LEMMA HeapInitialised ==
    ASSUME TypeOK, HeapSound
    PROVE  /\ InitHeapBase \in Nat /\ InitHeapEnd \in Nat
           /\ Base <= InitHeapBase /\ InitHeapBase <= InitHeapEnd
BY RegionAssumption DEF TypeOK, HeapSound, InitHeapBase, InitHeapEnd

LEMMA LowestBaseBounds ==
    ASSUME NEW end \in Nat
    PROVE  LowestBase(end) \in Nat /\ LowestBase(end) >= end
BY AlignUpBounds, RegionAssumption DEF LowestBase

-----------------------------------------------------------------------------
(* Areas and the addresses they map.                                       *)

\* A range that overlaps no area is free.
LEMMA NoOverlapFree ==
    ASSUME TypeOK, NEW b \in Nat, NEW n \in Nat, Overlapping(b, n) = {}
    PROVE  Mapped \cap (b .. b + n - 1) = {}
BY RegionAssumption DEF Mapped, Covers, Overlapping, TypeOK, End

\* Placing a range that overlaps nothing.
LEMMA PlaceSound ==
    ASSUME TypeOK, AreasSound, NEW b \in Nat, NEW n \in Nat,
           n > 0, Base <= b, b + n <= Top, Overlapping(b, n) = {}, Place(b, n)
    PROVE  /\ vmas' \in [VmaSlots -> VmaType]
           /\ AreasSound'
           /\ Mapped' = Mapped \cup (b .. b + n - 1)
<1>1. PICK i \in VmaSlots : ~vmas[i].used /\ vmas' = [vmas EXCEPT ![i] = Area(b, n)]
  BY DEF Place, FirstSlot, FreeVmas
<1>2. vmas' \in [VmaSlots -> VmaType]
  BY <1>1 DEF TypeOK, Area, VmaType
<1>3. vmas'[i] = Area(b, n) /\ \A j \in VmaSlots \ {i} : vmas'[j] = vmas[j]
  BY <1>1 DEF TypeOK
<1>4. \A j \in VmaSlots : vmas[j].used => b + n <= vmas[j].base \/ b >= End(j)
  BY DEF Overlapping
<1>5. AreasSound'
  BY <1>1, <1>3, <1>4 DEF AreasSound, End, Area, TypeOK
<1>6. ASSUME NEW x \in Base .. Top - 1
      PROVE  x \in Mapped' <=> x \in Mapped \/ x \in b .. b + n - 1
  <2>1. vmas'[i].used /\ vmas'[i].base = b /\ vmas'[i].len = n
    BY <1>3 DEF Area
  <2>2. x \in Mapped' <=> \/ b <= x /\ x < b + n
                          \/ \E j \in VmaSlots \ {i} : Covers(j, x)
    BY <1>3, <2>1 DEF Mapped, Covers, End
  <2>3. x \in Mapped <=> \E j \in VmaSlots \ {i} : Covers(j, x)
    BY <1>1 DEF Mapped, Covers
  <2> QED
    BY <2>2, <2>3, RegionAssumption
<1>7. b .. b + n - 1 \subseteq Base .. Top - 1
  BY RegionAssumption
<1> QED
  BY <1>2, <1>5, <1>6, <1>7 DEF Mapped

\* A range strictly inside one area meets no other.
LEMMA SplitMeetsOneArea ==
    ASSUME TypeOK, AreasSound, lo < hi,
           NEW i \in VmaSlots, vmas[i].used, MustSplit(i),
           NEW j \in Overlapping(lo, hi - lo)
    PROVE  i = j
BY DEF TypeOK, AreasSound, Overlapping, MustSplit, End

\* The areas after slot i has been removed, trimmed or split: what they are
\* made of.
LEMMA TrimShape ==
    ASSUME TypeOK, AreasSound, lo < hi,
           NEW i \in Overlapping(lo, hi - lo), Trim(i)
    PROVE  /\ vmas' \in [VmaSlots -> VmaType]
           /\ \A j \in VmaSlots : vmas'[j].used =>
                /\ vmas'[j].len > 0
                /\ \/ j # i /\ vmas'[j] = vmas[j] /\ vmas[j].used
                   \/ /\ j = i /\ vmas'[i].base = vmas[i].base
                      /\ vmas'[i].base + vmas'[i].len = lo
                   \/ /\ vmas'[j].base = hi
                      /\ vmas'[j].base + vmas'[j].len = End(i)
                      /\ hi < End(i)
                      /\ j # i => /\ ~vmas[j].used
                                  /\ vmas'[i].base + vmas'[i].len = lo
           /\ \A j \in VmaSlots \ {i} : vmas[j].used => vmas'[j] = vmas[j]
           /\ \E n \in VmaSlots : \A j \in VmaSlots \ {i, n} : vmas'[j] = vmas[j]
           /\ lo > vmas[i].base =>
                /\ vmas'[i].used /\ vmas'[i].base = vmas[i].base
                /\ vmas'[i].base + vmas'[i].len = lo
           /\ hi < End(i) =>
                \E j \in VmaSlots : /\ vmas'[j].used /\ vmas'[j].base = hi
                                    /\ vmas'[j].base + vmas'[j].len = End(i)
<1>1. i \in VmaSlots /\ vmas[i].used /\ hi > vmas[i].base /\ lo < End(i)
  BY DEF Overlapping, TypeOK, End
<1>2. /\ lo \in Nat /\ hi \in Nat /\ End(i) \in Nat
      /\ vmas \in [VmaSlots -> VmaType]
  BY <1>1 DEF TypeOK, End, VmaType
<1>3. CASE lo <= vmas[i].base /\ hi >= End(i)
  <2>1. vmas' = [vmas EXCEPT ![i] = Unused]
    BY <1>1, <1>2, <1>3 DEF Trim, MustSplit, VmaType
  <2> QED
    BY <2>1, <1>1, <1>2, <1>3 DEF AreasSound, Unused, VmaType
<1>4. CASE lo <= vmas[i].base /\ hi < End(i)
  <2>1. vmas' = [vmas EXCEPT ![i] = Area(hi, End(i) - hi)]
    BY <1>1, <1>2, <1>4 DEF Trim, MustSplit, VmaType
  <2> QED
    BY <2>1, <1>1, <1>2, <1>4 DEF AreasSound, Area, VmaType
<1>5. CASE lo > vmas[i].base /\ hi >= End(i)
  <2>1. vmas' = [vmas EXCEPT ![i] = Area(vmas[i].base, lo - vmas[i].base)]
    BY <1>1, <1>2, <1>5 DEF Trim, MustSplit, VmaType
  <2> QED
    BY <2>1, <1>1, <1>2, <1>5 DEF AreasSound, Area, VmaType
<1>6. CASE lo > vmas[i].base /\ hi < End(i)
  <2>1. PICK j \in VmaSlots :
           /\ ~vmas[j].used
           /\ vmas' = [vmas EXCEPT ![i] = Area(vmas[i].base, lo - vmas[i].base),
                                   ![j] = RightPart(i)]
    BY <1>1, <1>2, <1>6 DEF Trim, MustSplit, FirstSlot, FreeVmas, VmaType
  <2>2. j # i
    BY <2>1, <1>1
  <2>3. /\ vmas'[i] = Area(vmas[i].base, lo - vmas[i].base)
        /\ vmas'[j] = Area(hi, End(i) - hi)
        /\ \A k \in VmaSlots \ {i, j} : vmas'[k] = vmas[k]
    BY <2>1, <2>2, <1>1, <1>2 DEF RightPart
  <2>4. vmas' \in [VmaSlots -> VmaType]
    <3>1. /\ Area(vmas[i].base, lo - vmas[i].base) \in VmaType
          /\ Area(hi, End(i) - hi) \in VmaType
      BY <1>1, <1>2, <1>6 DEF Area, VmaType
    <3> QED
      BY <3>1, <2>1, <2>2, <1>1, <1>2 DEF RightPart
  <2>5. /\ vmas'[i].used /\ vmas'[i].base = vmas[i].base
        /\ vmas'[i].len = lo - vmas[i].base
        /\ vmas'[j].used /\ vmas'[j].base = hi /\ vmas'[j].len = End(i) - hi
    BY <2>3 DEF Area
  <2>6. /\ vmas'[i].len > 0 /\ vmas'[i].base + vmas'[i].len = lo
        /\ vmas'[j].len > 0 /\ vmas'[j].base + vmas'[j].len = End(i)
    BY <2>5, <1>1, <1>2, <1>6 DEF VmaType
  <2>7. \A k \in VmaSlots : vmas[k].used => vmas[k].len > 0
    BY DEF AreasSound
  <2> QED
    BY <2>1, <2>2, <2>3, <2>4, <2>5, <2>6, <2>7, <1>1, <1>6
<1> QED
  BY <1>1, <1>2, <1>3, <1>4, <1>5, <1>6 DEF VmaType

\* One pass of the loop of munmap keeps the areas sound and removes exactly
\* what the range takes from area i.
LEMMA TrimSound ==
    ASSUME TypeOK, AreasSound, lo < hi,
           NEW i \in Overlapping(lo, hi - lo), Trim(i)
    PROVE  /\ AreasSound'
           /\ Mapped' \subseteq Mapped
           /\ Mapped \ (lo .. hi - 1) \subseteq Mapped'
           /\ \A j \in VmaSlots : vmas'[j].used /\ vmas'[j].base < hi
                                     /\ vmas'[j].base + vmas'[j].len > lo =>
                 j # i /\ j \in Overlapping(lo, hi - lo)
<1>1. i \in VmaSlots /\ vmas[i].used /\ hi > vmas[i].base /\ lo < End(i)
  BY DEF Overlapping, TypeOK, End
<1>2. /\ lo \in Nat /\ hi \in Nat /\ End(i) \in Nat
      /\ vmas \in [VmaSlots -> VmaType] /\ vmas' \in [VmaSlots -> VmaType]
  BY <1>1, TrimShape DEF TypeOK, End, VmaType
<1>3. AreasSound'
  <2> SUFFICES ASSUME NEW j \in VmaSlots, vmas'[j].used
               PROVE  /\ vmas'[j].base >= Base
                      /\ vmas'[j].len > 0
                      /\ vmas'[j].base + vmas'[j].len <= Top
                      /\ \A k \in VmaSlots \ {j} : vmas'[k].used =>
                            \/ vmas'[j].base >= vmas'[k].base + vmas'[k].len
                            \/ vmas'[k].base >= vmas'[j].base + vmas'[j].len
    BY DEF AreasSound, End
  <2>1. \A k \in VmaSlots : vmas'[k].used =>
           \E m \in VmaSlots : /\ vmas[m].used
                               /\ vmas[m].base <= vmas'[k].base
                               /\ vmas'[k].base + vmas'[k].len <= End(m)
                               /\ m = k \/ m = i
    BY <1>1, <1>2, TrimShape DEF End, VmaType
  <2>2. /\ vmas'[j].base >= Base /\ vmas'[j].len > 0
        /\ vmas'[j].base + vmas'[j].len <= Top
    BY <2>1, <1>2, TrimShape, RegionAssumption DEF AreasSound, End, VmaType
  <2>3. ASSUME NEW k \in VmaSlots \ {j}, vmas'[k].used
        PROVE  \/ vmas'[j].base >= vmas'[k].base + vmas'[k].len
               \/ vmas'[k].base >= vmas'[j].base + vmas'[j].len
    <3>1. CASE vmas'[j] = vmas[j] /\ vmas[j].used /\ j # i
      BY <3>1, <2>1, <2>3, <1>1, <1>2 DEF AreasSound, End, VmaType
    <3>2. CASE vmas'[k] = vmas[k] /\ vmas[k].used /\ k # i
      BY <3>2, <2>1, <2>3, <1>1, <1>2 DEF AreasSound, End, VmaType
    <3>3. CASE /\ ~(vmas'[j] = vmas[j] /\ vmas[j].used /\ j # i)
               /\ ~(vmas'[k] = vmas[k] /\ vmas[k].used /\ k # i)
      <4>1. /\ \/ j = i /\ vmas'[i].base + vmas'[i].len = lo
               \/ vmas'[j].base = hi
            /\ \/ k = i /\ vmas'[i].base + vmas'[i].len = lo
               \/ vmas'[k].base = hi
        BY <3>3, <2>3, TrimShape
      <4>2. vmas'[j].base = hi /\ vmas'[k].base = hi => FALSE
        <5> SUFFICES ASSUME vmas'[j].base = hi, vmas'[k].base = hi PROVE FALSE
          OBVIOUS
        <5>1. /\ j # i => ~vmas[j].used /\ vmas'[i].base + vmas'[i].len = lo
              /\ k # i => ~vmas[k].used /\ vmas'[i].base + vmas'[i].len = lo
          BY <3>3, <2>3, <1>2, TrimShape DEF VmaType
        <5>2. j # i /\ k # i
          BY <5>1, <2>3, <1>2, TrimShape DEF VmaType
        <5> QED
          BY <5>1, <5>2, <2>3, TrimShape
      <4> QED
        <5>1. CASE j = i /\ vmas'[i].base + vmas'[i].len = lo /\ vmas'[k].base = hi
          BY <5>1, <1>2 DEF VmaType
        <5>2. CASE k = i /\ vmas'[i].base + vmas'[i].len = lo /\ vmas'[j].base = hi
          BY <5>2, <1>2 DEF VmaType
        <5> QED
          BY <4>1, <4>2, <5>1, <5>2, <2>3
    <3> QED
      BY <3>1, <3>2, <3>3
  <2> QED
    BY <2>2, <2>3
<1>4. Mapped' \subseteq Mapped
  <2> SUFFICES ASSUME NEW x \in Base .. Top - 1, NEW j \in VmaSlots, Covers(j, x)'
               PROVE  \E m \in VmaSlots : Covers(m, x)
    BY DEF Mapped
  <2>1. \E m \in VmaSlots : /\ vmas[m].used
                            /\ vmas[m].base <= vmas'[j].base
                            /\ vmas'[j].base + vmas'[j].len <= End(m)
    BY <1>1, <1>2, TrimShape DEF End, VmaType, Covers
  <2> QED
    BY <2>1, <1>2, RegionAssumption DEF VmaType, Covers, End
<1>5. Mapped \ (lo .. hi - 1) \subseteq Mapped'
  <2> SUFFICES ASSUME NEW x \in Base .. Top - 1, x \notin lo .. hi - 1,
                      NEW j \in VmaSlots, Covers(j, x)
               PROVE  \E m \in VmaSlots : Covers(m, x)'
    BY DEF Mapped
  <2>1. CASE j # i
    <3>1. vmas'[j] = vmas[j]
      BY <2>1, TrimShape DEF Covers
    <3> QED
      BY <3>1 DEF Covers, End
  <2>2. CASE j = i /\ x < lo
    BY <2>2, <1>1, <1>2, TrimShape, RegionAssumption DEF VmaType, Covers, End
  <2>3. CASE j = i /\ x >= hi
    BY <2>3, <1>1, <1>2, TrimShape, RegionAssumption DEF VmaType, Covers, End
  <2> QED
    BY <2>1, <2>2, <2>3, <1>2, RegionAssumption
<1>6. ASSUME NEW j \in VmaSlots, vmas'[j].used, vmas'[j].base < hi,
             vmas'[j].base + vmas'[j].len > lo
      PROVE  j # i /\ j \in Overlapping(lo, hi - lo)
  <2>1. j # i /\ vmas'[j] = vmas[j] /\ vmas[j].used
    BY <1>6, <1>1, <1>2, TrimShape DEF VmaType
  <2> QED
    BY <2>1, <1>6, <1>2 DEF Overlapping, End, VmaType
<1> QED
  BY <1>3, <1>4, <1>5, <1>6

-----------------------------------------------------------------------------
(* The inductive invariant, action by action.                              *)

LEMMA InitInv == Init => VmemInv
<1> SUFFICES ASSUME Init PROVE VmemInv
  OBVIOUS
<1>1. \A i \in VmaSlots : ~vmas[i].used
  BY DEF Init, Unused
<1>2. vmas \in [VmaSlots -> [used : BOOLEAN, base : Nat, len : Nat]]
  BY DEF Init, Unused
<1>3. stack_low \in Nat /\ Base \in Base .. Top
  BY RegionAssumption, ArgumentsAssumption DEF Init
<1>4. TypeOK
  BY <1>2, <1>3 DEF Init, TypeOK
<1>5. AreasSound
  BY <1>1 DEF AreasSound
<1> QED
  BY <1>4, <1>5, RegionAssumption DEF Init, VmemInv, HeapSound, LoopsSound

\* Steps that leave the areas alone.
LEMMA SameAreas ==
    ASSUME vmas' = vmas
    PROVE  /\ AreasSound => AreasSound'
           /\ Mapped' = Mapped
           /\ \A b, n : Overlapping(b, n)' = Overlapping(b, n)
BY DEF AreasSound, Mapped, Covers, Overlapping, End

\* Calls that run no loop.
LEMMA SimpleCallInv ==
    ASSUME VmemInv, NEW sp \in Sps,
           \/ Return(sp)
           \/ \E b \in Brks : sys_brk(b, sp)
           \/ \E end \in ImageEnds : sys_execve(end, sp)
    PROVE  VmemInv'
<1> USE DEF VmemInv
<1>1. /\ vmas' = vmas /\ mmap_next' = mmap_next /\ pc = "user"
      /\ UNCHANGED localVars
      /\ stack_low' = Lowered(sp)
  BY DEF Return, sys_brk, sys_execve
<1>2. /\ heap_base' \in Nat /\ heap_end' \in Nat /\ HeapSound'
      /\ image_end' \in Base .. Top
  <2>1. CASE Return(sp)
    BY <2>1 DEF Return, heapVars, TypeOK, HeapSound
  <2>2. CASE \E b \in Brks : sys_brk(b, sp)
    BY <2>2, HeapInitialised, ArgumentsAssumption, RegionAssumption
       DEF sys_brk, TypeOK, HeapSound
  <2>3. CASE \E end \in ImageEnds : sys_execve(end, sp)
    BY <2>3, ArgumentsAssumption DEF sys_execve, heapVars, TypeOK, HeapSound
  <2> QED
    BY <2>1, <2>2, <2>3
<1>3. TypeOK'
  BY <1>1, <1>2, LoweredNat DEF TypeOK, localVars, placeVars, unmapVars
<1>4. LoopsSound'
  BY <1>1 DEF LoopsSound, localVars
<1> QED
  BY <1>1, <1>2, <1>3, <1>4, SameAreas

LEMMA CloneInv ==
    ASSUME VmemInv, sys_clone_child
    PROVE  VmemInv'
<1> USE DEF VmemInv
<1>1. \A i \in VmaSlots : vmas'[i] = Unused
  BY DEF sys_clone_child
<1>2. AreasSound'
  BY <1>1 DEF AreasSound, Unused
<1>3. TypeOK'
  BY RegionAssumption DEF TypeOK, sys_clone_child, localVars, placeVars, unmapVars, Unused
<1>4. HeapSound' /\ LoopsSound'
  BY RegionAssumption DEF HeapSound, LoopsSound, sys_clone_child, localVars
<1> QED
  BY <1>2, <1>3, <1>4

\* A length is rounded up to something.
LEMMA LenBounds ==
    ASSUME NEW len \in Lens
    PROVE  AlignUp(len) \in Nat /\ AlignUp(len) > 0
BY AlignUpBounds, ArgumentsAssumption

LEMMA HintInv ==
    ASSUME VmemInv, NEW sp \in Sps, NEW addr \in Nat, NEW len \in Lens,
           HintFits(addr, AlignUp(len), Lowered(sp)),
           Place(addr, AlignUp(len))
    PROVE  /\ vmas' \in [VmaSlots -> VmaType]
           /\ AreasSound'
           /\ Mapped' = Mapped \cup (addr .. addr + AlignUp(len) - 1)
           /\ Base <= addr /\ addr + AlignUp(len) <= Top
<1>1. Base <= addr /\ addr + AlignUp(len) <= Top
  BY LoweredNat, HiBounds, LenBounds, RegionAssumption DEF HintFits, VmemInv
<1> QED
  BY <1>1, LenBounds, PlaceSound DEF HintFits, VmemInv

LEMMA MmapInv ==
    ASSUME VmemInv, NEW sp \in Sps, NEW addr \in {0} \cup Hints, NEW len \in Lens,
           sys_mmap(addr, len, sp)
    PROVE  VmemInv'
<1> USE DEF VmemInv
<1>1. addr \in Nat
  BY ArgumentsAssumption
<1>2. /\ pc = "user" /\ stack_low' \in Nat /\ image_end' = image_end
      /\ heap_base' \in Nat /\ heap_end' \in Nat /\ HeapSound' /\ heap_base' > 0
      /\ lo' \in Nat /\ hi' \in Nat /\ any' \in BOOLEAN /\ before' \subseteq Base .. Top - 1
  BY LoweredNat, HeapInitialised, RegionAssumption
     DEF sys_mmap, TypeOK, HeapSound, unmapVars
<1>3. CASE UNCHANGED <<mmap_next, vmas, localVars>>
  BY <1>2, <1>3, SameAreas DEF TypeOK, LoopsSound, localVars, placeVars, unmapVars
<1>4. CASE /\ HintFits(addr, AlignUp(len), Lowered(sp))
           /\ Place(addr, AlignUp(len))
           /\ UNCHANGED <<mmap_next, pc, cursor, placeVars>>
  BY <1>1, <1>2, <1>4, HintInv DEF TypeOK, LoopsSound, placeVars, VmaType
<1>5. CASE /\ mmap_next' = SearchFrom(Lowered(sp))
           /\ pc' = "place"
           /\ alen' = AlignUp(len)
           /\ cursor' = AlignDown(mmap_next')
           /\ start' = cursor'
           /\ UNCHANGED vmas
  <2>1. mmap_next' \in Nat /\ mmap_next' <= Top
    BY <1>5, LoweredNat, SearchFromBounds DEF LoopsSound
  <2>2. cursor' \in Nat /\ cursor' <= Top
    BY <1>5, <2>1, AlignDownBounds, RegionAssumption
  <2> QED
    BY <1>2, <1>5, <2>1, <2>2, LenBounds, SameAreas DEF TypeOK, LoopsSound
<1> QED
  BY <1>3, <1>4, <1>5 DEF sys_mmap, localVars, unmapVars

\* Where mmap_place would put the mapping, when there is room.
LEMMA RoomBounds ==
    ASSUME VmemInv, pc = "place", cursor >= Base + alen
    PROVE  /\ AlignDown(cursor - alen) \in Nat
           /\ AlignDown(cursor - alen) + alen <= Top
<1>1. cursor - alen \in Nat
  BY RegionAssumption DEF VmemInv, TypeOK, LoopsSound
<1> QED
  BY <1>1, AlignDownBounds, RegionAssumption DEF VmemInv, TypeOK, LoopsSound

LEMMA PlacedSound ==
    ASSUME VmemInv, pc = "place", cursor >= Base + alen,
           AlignDown(cursor - alen) >= LowestBase(heap_end),
           Overlapping(AlignDown(cursor - alen), alen) = {},
           Place(AlignDown(cursor - alen), alen)
    PROVE  /\ vmas' \in [VmaSlots -> VmaType]
           /\ AreasSound'
           /\ Base <= AlignDown(cursor - alen)
           /\ Mapped' = Mapped \cup (AlignDown(cursor - alen) .. AlignDown(cursor - alen) + alen - 1)
<1>1. Base <= AlignDown(cursor - alen)
  BY RoomBounds, LowestBaseBounds, RegionAssumption
     DEF VmemInv, TypeOK, HeapSound, LoopsSound
<1> QED
  BY <1>1, RoomBounds, PlaceSound DEF VmemInv, TypeOK, LoopsSound

LEMMA LeaveSound ==
    ASSUME Leave, mmap_next' <= Top
    PROVE  /\ LoopsSound' /\ pc' = "user"
           /\ cursor' \in Nat /\ alen' \in Nat /\ start' \in Nat
           /\ lo' \in Nat /\ hi' \in Nat /\ any' \in BOOLEAN
           /\ before' \subseteq Base .. Top - 1
BY DEF Leave, LoopsSound

LEMMA PlaceStepInv ==
    ASSUME VmemInv, mmap_place
    PROVE  VmemInv'
<1> USE DEF VmemInv
<1> DEFINE b == AlignDown(cursor - alen)
<1>1. /\ pc = "place" /\ UNCHANGED <<heapVars, stack_low, image_end>>
      /\ HeapSound'
  BY DEF mmap_place, HeapSound, heapVars
<1>2. CASE Leave /\ UNCHANGED <<mmap_next, vmas>>
  BY <1>1, <1>2, LeaveSound, SameAreas DEF TypeOK, LoopsSound, heapVars
<1>3. CASE \E i \in VmaSlots :
             /\ FirstSlot(Overlapping(b, alen), i) /\ cursor' = NextEnd(i)
             /\ UNCHANGED <<mmap_next, vmas, pc, placeVars, unmapVars>>
  <2>1. PICK i \in VmaSlots :
             /\ i \in Overlapping(b, alen) /\ cursor' = NextEnd(i)
             /\ UNCHANGED <<mmap_next, vmas, pc, placeVars, unmapVars>>
    BY <1>3 DEF FirstSlot
  <2>2. vmas[i].used /\ vmas[i].base \in Nat /\ vmas[i].base <= Top
    BY <2>1, RegionAssumption DEF Overlapping, TypeOK, AreasSound, End
  <2>3. cursor' \in Nat /\ cursor' <= Top
    BY <2>1, <2>2, AlignDownBounds, RegionAssumption DEF NextEnd
  <2> QED
    BY <1>1, <2>1, <2>3, SameAreas DEF TypeOK, LoopsSound, heapVars, placeVars, unmapVars
<1>4. CASE /\ cursor >= Base + alen /\ b >= LowestBase(heap_end)
           /\ Overlapping(b, alen) = {} /\ Place(b, alen)
           /\ mmap_next' = b /\ Leave
  <2>1. mmap_next' \in Nat /\ mmap_next' <= Top
    BY <1>1, <1>4, RoomBounds, RegionAssumption DEF TypeOK, LoopsSound
  <2> QED
    BY <1>1, <1>4, <2>1, PlacedSound, LeaveSound DEF TypeOK, heapVars, VmaType
<1> QED
  BY <1>2, <1>3, <1>4 DEF mmap_place

LEMMA MunmapInv ==
    ASSUME VmemInv, NEW sp \in Sps, NEW addr \in Hints, NEW len \in Lens,
           sys_munmap(addr, len, sp)
    PROVE  VmemInv'
<1> USE DEF VmemInv
<1>1. /\ pc = "user" /\ stack_low' \in Nat /\ addr \in Nat
      /\ UNCHANGED <<heapVars, mmap_next, vmas, image_end, placeVars>>
      /\ HeapSound'
  BY LoweredNat, ArgumentsAssumption DEF sys_munmap, HeapSound, heapVars
<1>2. CASE UNCHANGED <<pc, cursor, unmapVars>>
  BY <1>1, <1>2, SameAreas DEF TypeOK, LoopsSound, heapVars, placeVars, unmapVars
<1>3. CASE /\ pc' = "unmap" /\ cursor' = 0
           /\ lo' = addr /\ hi' = addr + AlignUp(len)
           /\ any' = FALSE /\ before' = Mapped
  <2>1. lo' \in Nat /\ hi' \in Nat /\ lo' < hi'
    BY <1>1, <1>3, LenBounds
  <2>2. before' \subseteq Base .. Top - 1 /\ Mapped' = Mapped
    BY <1>1, <1>3, SameAreas DEF Mapped
  <2>3. \A i \in (Overlapping(lo, hi - lo))' : i >= cursor'
    BY <1>3 DEF Overlapping, VmaSlots
  <2>4. TypeOK'
    BY <1>1, <1>3, <2>1, <2>2 DEF TypeOK, heapVars, placeVars
  <2>5. LoopsSound'
    BY <1>1, <1>3, <2>1, <2>2, <2>3, RegionAssumption DEF LoopsSound
  <2> QED
    BY <1>1, <2>4, <2>5, SameAreas
<1> QED
  BY <1>2, <1>3 DEF sys_munmap

LEMMA UnmapSlotInv ==
    ASSUME VmemInv, unmap_slot
    PROVE  VmemInv'
<1> USE DEF VmemInv
<1>1. /\ pc = "unmap" /\ cursor < NVmas /\ cursor \in VmaSlots
      /\ UNCHANGED <<heapVars, stack_low, mmap_next, image_end>>
      /\ HeapSound'
  BY RegionAssumption DEF unmap_slot, HeapSound, heapVars, TypeOK, VmaSlots
<1>2. CASE /\ cursor \notin Overlapping(lo, hi - lo)
           /\ cursor' = cursor + 1
           /\ UNCHANGED <<vmas, pc, placeVars, unmapVars>>
  <2>1. (Overlapping(lo, hi - lo))' = Overlapping(lo, hi - lo)
    BY <1>2, SameAreas DEF unmapVars, Overlapping, End
  <2>2. \A i \in (Overlapping(lo, hi - lo))' : i >= cursor'
    BY <1>1, <1>2, <2>1 DEF LoopsSound, TypeOK, Overlapping, VmaSlots
  <2>3. \A i \in VmaSlots : MustSplit(i)' = MustSplit(i)
    BY <1>2 DEF MustSplit, End, unmapVars
  <2> QED
    BY <1>1, <1>2, <2>2, <2>3, SameAreas, RegionAssumption
       DEF TypeOK, LoopsSound, heapVars, placeVars, unmapVars, VmaSlots
<1>3. CASE /\ cursor \in Overlapping(lo, hi - lo)
           /\ Trim(cursor) /\ any' = TRUE /\ cursor' = cursor + 1
           /\ UNCHANGED <<pc, placeVars, lo, hi, before>>
  <2>1. lo \in Nat /\ hi \in Nat /\ lo < hi
    BY <1>1 DEF TypeOK, LoopsSound
  <2>2. vmas' \in [VmaSlots -> VmaType]
    BY <1>3, <2>1, TrimShape
  <2>3. AreasSound' /\ Mapped' \subseteq Mapped /\ Mapped \ (lo .. hi - 1) \subseteq Mapped'
    BY <1>3, <2>1, TrimSound
  <2>4. ASSUME NEW j \in VmaSlots, vmas'[j].used, vmas'[j].base < hi,
               vmas'[j].base + vmas'[j].len > lo
        PROVE  j # cursor /\ j \in Overlapping(lo, hi - lo)
    BY <1>3, <2>1, <2>4, TrimSound
  <2>5. \A i \in (Overlapping(lo, hi - lo))' : i >= cursor'
    <3> SUFFICES ASSUME NEW i \in VmaSlots, vmas'[i].used,
                        ~(lo + (hi - lo) <= vmas'[i].base \/ lo >= vmas'[i].base + vmas'[i].len)
                 PROVE  i >= cursor + 1
      BY <1>3 DEF Overlapping, End
    <3>1. i # cursor /\ i \in Overlapping(lo, hi - lo)
      BY <2>1, <2>2, <2>4 DEF VmaType
    <3> QED
      BY <1>1, <3>1 DEF LoopsSound, VmaSlots, TypeOK
  <2>6. ASSUME NEW j \in VmaSlots, vmas'[j].used, MustSplit(j)'
        PROVE  FALSE
    <3>1. lo > vmas'[j].base /\ hi < vmas'[j].base + vmas'[j].len
      BY <1>3, <2>6 DEF MustSplit, End
    <3>2. j # cursor /\ j \in Overlapping(lo, hi - lo)
      BY <2>1, <2>2, <2>4, <2>6, <3>1 DEF VmaType
    <3>3. vmas[j].used /\ vmas'[j] = vmas[j]
      BY <1>3, <2>1, <3>2, TrimShape DEF Overlapping
    <3>4. MustSplit(j)
      BY <3>1, <3>3 DEF MustSplit, End
    <3> QED
      BY <1>1, <1>3, <2>1, <3>2, <3>3, <3>4, SplitMeetsOneArea
  <2>7. /\ Mapped' \subseteq before'
        /\ before' \ (lo' .. hi' - 1) \subseteq Mapped'
    BY <1>1, <1>3, <2>3 DEF LoopsSound
  <2> QED
    BY <1>1, <1>3, <2>1, <2>2, <2>3, <2>5, <2>6, <2>7, RegionAssumption
       DEF TypeOK, LoopsSound, heapVars, placeVars, VmaType
<1>4. CASE Leave /\ UNCHANGED vmas
  BY <1>1, <1>4, LeaveSound, SameAreas DEF TypeOK, LoopsSound, heapVars
<1> QED
  BY <1>2, <1>3, <1>4 DEF unmap_slot

LEMMA UnmapDoneInv ==
    ASSUME VmemInv, unmap_done
    PROVE  VmemInv'
<1> USE DEF VmemInv
<1>1. /\ UNCHANGED <<heapVars, stack_low, mmap_next, vmas, image_end>>
      /\ HeapSound'
  BY DEF unmap_done, HeapSound, heapVars
<1>2. CASE Leave
  BY <1>1, <1>2, LeaveSound, SameAreas DEF TypeOK, LoopsSound, heapVars
<1>3. CASE /\ pc' = "recompute" /\ cursor' = proc_mmap_hi(stack_low)
           /\ UNCHANGED <<placeVars, unmapVars>>
  BY <1>1, <1>3, HiBounds, SameAreas DEF TypeOK, LoopsSound, heapVars, placeVars, unmapVars
<1> QED
  BY <1>2, <1>3 DEF unmap_done

LEMMA RecomputeInv ==
    ASSUME VmemInv, recompute_mmap_next
    PROVE  VmemInv'
<1> USE DEF VmemInv
<1>1. /\ UNCHANGED <<heapVars, stack_low, vmas, image_end>> /\ pc = "recompute"
      /\ HeapSound' /\ cursor <= Top
  BY DEF recompute_mmap_next, HeapSound, heapVars, LoopsSound
<1>2. CASE /\ \E i \in VmaSlots : FirstSlot(EndsAt(cursor), i) /\ cursor' = vmas[i].base
           /\ UNCHANGED <<mmap_next, pc, placeVars, unmapVars>>
  <2>1. cursor' \in Nat /\ cursor' <= Top
    BY <1>2, RegionAssumption DEF FirstSlot, EndsAt, AreasSound, End, TypeOK
  <2> QED
    BY <1>1, <1>2, <2>1, SameAreas DEF TypeOK, LoopsSound, heapVars, placeVars, unmapVars
<1>3. CASE mmap_next' = cursor /\ Leave
  BY <1>1, <1>3, LeaveSound, SameAreas DEF TypeOK, heapVars
<1> QED
  BY <1>2, <1>3 DEF recompute_mmap_next

\* The inductive invariant: types, sound areas, a sound heap, and what the
\* loops of mmap and munmap rely on.
THEOREM VmemInvariant == Spec => []VmemInv
<1>1. ASSUME VmemInv, [Next]_vars PROVE VmemInv'
  <2>1. CASE UNCHANGED vars
    BY <1>1, <2>1, SameAreas
       DEF vars, localVars, heapVars, placeVars, unmapVars, VmemInv, TypeOK, AreasSound,
           HeapSound, LoopsSound, MustSplit, End, Overlapping
  <2>2. CASE \E sp \in Sps : Calls(sp)
    BY <1>1, <2>2, SimpleCallInv, MmapInv, MunmapInv DEF Calls
  <2>3. CASE sys_clone_child
    BY <1>1, <2>3, CloneInv
  <2>4. CASE Kernel
    BY <1>1, <2>4, PlaceStepInv, UnmapSlotInv, UnmapDoneInv, RecomputeInv DEF Kernel
  <2> QED
    BY <1>1, <2>1, <2>2, <2>3, <2>4 DEF Next
<1> QED
  BY <1>1, InitInv, PTL DEF Spec

\* Whatever a process maps and unmaps, its areas are disjoint, non-empty and
\* inside its region.
THEOREM AreasDisjoint == Spec => []AreasSound
<1>1. VmemInv => AreasSound
  BY DEF VmemInv
<1> QED
  BY <1>1, VmemInvariant, PTL

-----------------------------------------------------------------------------
(* The refinement.                                                         *)

\* What the abstract address space sees.
Seen == IF pc = "unmap" THEN before ELSE Mapped

\* What the witnesses of Map have to satisfy.
LEMMA MapWitness ==
    ASSUME NEW S, NEW T, NEW l \in Base .. Top, NEW h \in Base .. Top, l < h,
           S \cap (l .. h - 1) = {}, T = S \cup (l .. h - 1)
    PROVE  \E lw, hw \in Base .. Top :
              /\ lw < hw
              /\ S \cap (lw .. hw - 1) = {}
              /\ T = S \cup (lw .. hw - 1)
OBVIOUS

\* A range with both ends clipped to the region takes the same away.
LEMMA ClippedUnmap ==
    ASSUME before \subseteq Base .. Top - 1, lo \in Nat, hi \in Nat
    PROVE  \E a, c \in Base .. Top : before \ (lo .. hi - 1) = before \ (a .. c - 1)
<1> DEFINE Clip(x) == IF x < Base THEN Base ELSE IF x > Top THEN Top ELSE x
<1>1. Clip(lo) \in Base .. Top /\ Clip(hi) \in Base .. Top
  BY RegionAssumption
<1>2. \A x \in Base .. Top - 1 : x \in lo .. hi - 1 <=> x \in Clip(lo) .. Clip(hi) - 1
  BY RegionAssumption
<1> HIDE DEF Clip
<1>3. before \ (lo .. hi - 1) = before \ (Clip(lo) .. Clip(hi) - 1)
  BY <1>2
<1> QED
  BY <1>1, <1>3, Zenon

\* Calls that start no munmap and map nothing leave the address space alone.
LEMMA CallsRefine ==
    ASSUME VmemInv, VmemInv', \E sp \in Sps : Calls(sp)
    PROVE  AS!Map \/ Seen' = Seen
<1> USE DEF VmemInv
<1>1. PICK sp \in Sps : Calls(sp)
  OBVIOUS
<1>2. CASE \/ Return(sp)
           \/ \E b \in Brks : sys_brk(b, sp)
           \/ \E end \in ImageEnds : sys_execve(end, sp)
  BY <1>2, SameAreas DEF Seen, Return, sys_brk, sys_execve, localVars, unmapVars
<1>3. ASSUME NEW addr \in Hints, NEW len \in Lens, sys_munmap(addr, len, sp)
      PROVE  Seen' = Seen
  BY <1>3, SameAreas DEF Seen, sys_munmap
<1>4. ASSUME NEW addr \in {0} \cup Hints, NEW len \in Lens, sys_mmap(addr, len, sp)
      PROVE  AS!Map \/ Seen' = Seen
  <2>1. CASE UNCHANGED vmas
    BY <1>4, <2>1, SameAreas DEF Seen, sys_mmap, localVars
  <2>2. CASE /\ HintFits(addr, AlignUp(len), Lowered(sp))
             /\ Place(addr, AlignUp(len))
             /\ UNCHANGED <<mmap_next, pc, cursor, placeVars>>
    <3>1. addr \in Nat
      BY ArgumentsAssumption
    <3>2. /\ Mapped' = Mapped \cup (addr .. addr + AlignUp(len) - 1)
          /\ Base <= addr /\ addr + AlignUp(len) <= Top
      BY <3>1, <2>2, HintInv
    <3>3. Mapped \cap (addr .. addr + AlignUp(len) - 1) = {}
      BY <3>1, <2>2, LenBounds, NoOverlapFree DEF HintFits
    <3>4. pc = "user" /\ pc' = "user"
      BY <1>4, <2>2 DEF sys_mmap
    <3>5. /\ addr \in Base .. Top /\ addr + AlignUp(len) \in Base .. Top
          /\ addr < addr + AlignUp(len)
      BY <3>1, <3>2, LenBounds, RegionAssumption
    <3>6. \E lw, hw \in Base .. Top :
             /\ lw < hw
             /\ Mapped \cap (lw .. hw - 1) = {}
             /\ Mapped' = Mapped \cup (lw .. hw - 1)
      <4> DEFINE h == addr + AlignUp(len)
      <4>1. /\ addr \in Base .. Top /\ h \in Base .. Top /\ addr < h
            /\ Mapped \cap (addr .. h - 1) = {}
            /\ Mapped' = Mapped \cup (addr .. h - 1)
        BY <3>1, <3>2, <3>3, <3>5, LenBounds
      <4> HIDE DEF h
      <4> QED
        BY <4>1, MapWitness
    <3> QED
      BY <3>4, <3>6 DEF AS!Map
  <2> QED
    BY <1>4, <2>1, <2>2 DEF sys_mmap
<1> QED
  BY <1>1, <1>2, <1>3, <1>4 DEF Calls

LEMMA PlaceRefines ==
    ASSUME VmemInv, mmap_place
    PROVE  AS!Map \/ Seen' = Seen
<1> USE DEF VmemInv
<1> DEFINE b == AlignDown(cursor - alen)
<1>1. pc = "place" /\ pc' \in {"user", "place"}
  BY DEF mmap_place, Leave
<1>2. CASE UNCHANGED vmas
  BY <1>1, <1>2, SameAreas DEF Seen
<1>3. CASE /\ cursor >= Base + alen /\ b >= LowestBase(heap_end)
           /\ Overlapping(b, alen) = {} /\ Place(b, alen)
  <2>1. /\ b \in Nat /\ b + alen <= Top /\ Base <= b
        /\ Mapped' = Mapped \cup (b .. b + alen - 1)
    BY <1>1, <1>3, RoomBounds, PlacedSound
  <2>2. alen \in Nat /\ alen > 0
    BY <1>1 DEF TypeOK, LoopsSound
  <2> HIDE DEF b
  <2>3. Mapped \cap (b .. b + alen - 1) = {}
    BY <1>3, <2>1, <2>2, NoOverlapFree
  <2>4. b \in Base .. Top /\ b + alen \in Base .. Top /\ b < b + alen
    BY <2>1, <2>2, RegionAssumption
  <2>5. \E lw, hw \in Base .. Top :
           /\ lw < hw
           /\ Mapped \cap (lw .. hw - 1) = {}
           /\ Mapped' = Mapped \cup (lw .. hw - 1)
    <3> DEFINE h == b + alen
    <3>1. /\ b \in Base .. Top /\ h \in Base .. Top /\ b < h
          /\ Mapped \cap (b .. h - 1) = {}
          /\ Mapped' = Mapped \cup (b .. h - 1)
      BY <2>1, <2>2, <2>3, <2>4
    <3> HIDE DEF h
    <3> QED
      BY <3>1, MapWitness
  <2> QED
    BY <1>1, <2>5 DEF AS!Map
<1> QED
  BY <1>2, <1>3 DEF mmap_place

\* munmap takes effect when its loop is through; a failed munmap has none.
LEMMA UnmapRefines ==
    ASSUME VmemInv, VmemInv', unmap_slot \/ unmap_done \/ recompute_mmap_next
    PROVE  AS!Unmap \/ Seen' = Seen
<1> USE DEF VmemInv
<1>1. CASE unmap_slot /\ pc' = "unmap"
  BY <1>1 DEF Seen, unmap_slot, unmapVars, Leave
<1>2. CASE unmap_slot /\ pc' # "unmap"
  <2>1. /\ cursor \in Overlapping(lo, hi - lo) /\ MustSplit(cursor)
        /\ UNCHANGED vmas /\ pc = "unmap"
    BY <1>2 DEF unmap_slot
  <2>2. Mapped = before
    BY <2>1 DEF LoopsSound, Overlapping, TypeOK
  <2> QED
    BY <1>2, <2>1, <2>2, SameAreas DEF Seen
<1>3. CASE unmap_done /\ ~any
  <2>1. pc = "unmap" /\ pc' = "user" /\ UNCHANGED vmas
    BY <1>3 DEF unmap_done, Leave
  <2> QED
    BY <1>3, <2>1, SameAreas DEF Seen, LoopsSound
<1>4. CASE unmap_done /\ any
  <2>1. pc = "unmap" /\ pc' = "recompute" /\ UNCHANGED vmas /\ cursor = NVmas
    BY <1>4 DEF unmap_done
  <2>2. Overlapping(lo, hi - lo) = {}
    BY <2>1, RegionAssumption DEF LoopsSound, Overlapping, VmaSlots
  <2>3. lo \in Nat /\ hi \in Nat /\ lo < hi /\ before \subseteq Base .. Top - 1
    BY <2>1 DEF TypeOK, LoopsSound
  <2>4. Mapped \cap (lo .. lo + (hi - lo) - 1) = {}
    BY <2>2, <2>3, NoOverlapFree
  <2>5. Mapped \cap (lo .. hi - 1) = {}
    BY <2>3, <2>4
  <2>6. Mapped = before \ (lo .. hi - 1)
    BY <2>1, <2>5 DEF LoopsSound
  <2>7. Seen = before /\ Seen' = Mapped
    BY <2>1, SameAreas DEF Seen
  <2>8. \E a, c \in Base .. Top : Mapped = before \ (a .. c - 1)
    BY <2>3, <2>6, ClippedUnmap
  <2> QED
    BY <2>1, <2>7, <2>8 DEF AS!Unmap, Seen
<1>5. CASE recompute_mmap_next
  BY <1>5, SameAreas DEF Seen, recompute_mmap_next, Leave
<1> QED
  BY <1>1, <1>2, <1>3, <1>4, <1>5

\* mmap and munmap of sys_proc.c implement the abstract address space: no
\* address is handed out twice, nothing but the range asked for is taken
\* away, and an munmap that fails changes nothing.
THEOREM ImplementsAS == Spec => ImplementsAddressSpace
<1>1. Init => AS!Init
  <2> SUFFICES ASSUME Init PROVE AS!Init
    OBVIOUS
  <2>1. Mapped = {} /\ pc = "user"
    BY DEF Init, Unused, Mapped, Covers
  <2> QED
    BY <2>1 DEF AS!Init
<1>2. ASSUME VmemInv, VmemInv', [Next]_vars
      PROVE  AS!Next \/ Seen' = Seen
  <2>1. CASE UNCHANGED vars
    BY <2>1, SameAreas DEF Seen, vars, localVars, unmapVars
  <2>2. CASE \E sp \in Sps : Calls(sp)
    BY <1>2, <2>2, CallsRefine DEF AS!Next
  <2>3. CASE sys_clone_child
    <3>1. Mapped' = {} /\ pc' = "user"
      BY <2>3 DEF sys_clone_child, localVars, Mapped, Covers, Unused
    <3> QED
      BY <3>1 DEF AS!Next, AS!Reset
  <2>4. CASE mmap_place
    BY <1>2, <2>4, PlaceRefines DEF AS!Next
  <2>5. CASE unmap_slot \/ unmap_done \/ recompute_mmap_next
    BY <1>2, <2>5, UnmapRefines DEF AS!Next
  <2> QED
    BY <1>2, <2>1, <2>2, <2>3, <2>4, <2>5 DEF Next, Kernel
<1>3. ASSUME VmemInv, VmemInv', [Next]_vars
      PROVE  [AS!Next]_(IF pc = "unmap" THEN before ELSE Mapped)
  BY <1>2, <1>3 DEF Seen
<1> QED
  BY <1>1, <1>3, VmemInvariant, PTL DEF Spec, ImplementsAddressSpace, AS!Spec

-----------------------------------------------------------------------------
(* The search of mmap and the walk of munmap waste nothing.                *)

\* Page-aligned: written with a factor, for the provers' sake.
PageAligned(x) == \E k \in Nat : x = Page * k

LEMMA DivisionByPage ==
    ASSUME NEW x \in Nat
    PROVE  x \div Page \in Nat /\ x = Page * (x \div Page) + (x % Page)
<1>1. x \div Page \in Nat
  BY RegionAssumption
<1>2. x = Page * (x \div Page) + (x % Page)
  BY RegionAssumption
<1> QED
  BY <1>1, <1>2

LEMMA AlignedIfNoRest ==
    ASSUME NEW x \in Nat, x % Page = 0
    PROVE  PageAligned(x)
<1>1. x = Page * (x \div Page) + 0 /\ Page * (x \div Page) \in Nat
  BY DivisionByPage, RegionAssumption
<1> QED
  BY <1>1, DivisionByPage DEF PageAligned

LEMMA AlignDownAligned ==
    ASSUME NEW x \in Nat
    PROVE  PageAligned(AlignDown(x))
<1>1. x \div Page \in Nat /\ x - (x % Page) = Page * (x \div Page)
  <2>1. x % Page \in Nat /\ Page * (x \div Page) \in Nat
    <3>1. x % Page \in Nat
      BY RegionAssumption
    <3>2. Page * (x \div Page) \in Nat
      BY DivisionByPage, RegionAssumption
    <3> QED
      BY <3>1, <3>2
  <2> QED
    BY <2>1, DivisionByPage
<1> QED
  BY <1>1 DEF PageAligned, AlignDown

\* Sums and differences of aligned numbers, and the gap between two of them.
LEMMA AlignedArithmetic ==
    ASSUME NEW x \in Nat, NEW y \in Nat, PageAligned(x), PageAligned(y)
    PROVE  /\ PageAligned(x + y)
           /\ x >= y => PageAligned(x - y)
           /\ x > y => x >= y + Page
<1>1. PICK k \in Nat : x = Page * k
  BY DEF PageAligned
<1>2. PICK m \in Nat : y = Page * m
  BY DEF PageAligned
<1>3. PageAligned(x + y)
  <2>1. x + y = Page * (k + m) /\ k + m \in Nat
    BY <1>1, <1>2, RegionAssumption
  <2> QED
    BY <2>1 DEF PageAligned
<1>4. ASSUME k < m PROVE x + Page <= y
  <2>1. m - k - 1 \in Nat /\ y = Page * k + Page + Page * (m - k - 1)
    BY <1>1, <1>2, <1>4, RegionAssumption
  <2>2. Page * (m - k - 1) \in Nat /\ Page * k \in Nat
    BY <2>1, RegionAssumption
  <2> QED
    BY <1>1, <2>1, <2>2, RegionAssumption
<1>5. ASSUME m < k PROVE y + Page <= x
  <2>1. k - m - 1 \in Nat /\ x = Page * m + Page + Page * (k - m - 1)
    BY <1>1, <1>2, <1>5, RegionAssumption
  <2>2. Page * (k - m - 1) \in Nat /\ Page * m \in Nat
    BY <2>1, RegionAssumption
  <2> QED
    BY <1>2, <2>1, <2>2, RegionAssumption
<1>6. ASSUME x >= y PROVE PageAligned(x - y)
  <2>1. m <= k
    BY <1>4, <1>6, RegionAssumption
  <2>2. k - m \in Nat /\ x - y = Page * (k - m)
    BY <1>1, <1>2, <2>1, RegionAssumption
  <2> QED
    BY <2>2 DEF PageAligned
<1>7. ASSUME x > y PROVE x >= y + Page
  <2>1. m < k
    <3>1. m # k
      BY <1>1, <1>2, <1>7, RegionAssumption
    <3> QED
      BY <1>4, <1>7, <3>1, RegionAssumption
  <2> QED
    BY <1>5, <2>1
<1> QED
  BY <1>3, <1>6, <1>7

LEMMA AlignedFixed ==
    ASSUME NEW x \in Nat, PageAligned(x)
    PROVE  AlignDown(x) = x
<1>1. AlignDown(x) \in Nat /\ AlignDown(x) <= x /\ x < AlignDown(x) + Page
  BY AlignDownBounds
<1>2. x > AlignDown(x) => x >= AlignDown(x) + Page
  BY <1>1, AlignDownAligned, AlignedArithmetic
<1> QED
  BY <1>1, <1>2, RegionAssumption

\* What the search of mmap and the walk of proc_recompute_mmap_next keep:
\* the search looks at page-aligned places and has passed none that fits;
\* the walk has passed nothing but mapped addresses.
SearchSound ==
    /\ pc = "place" => PageAligned(cursor) /\ PageAligned(alen)
    /\ PlaceSkipsNoFit
WalkSound ==
    pc = "recompute" => \A x \in cursor .. proc_mmap_hi(stack_low) - 1 : x \in Mapped

\* Below an area in the way nothing is skipped that fits: an aligned range
\* that ends above the next place to look meets that area.
LEMMA SearchStep ==
    ASSUME VmemInv, SearchSound, pc = "place", cursor >= Base + alen,
           NEW i \in Overlapping(AlignDown(cursor - alen), alen),
           cursor' = NextEnd(i), UNCHANGED <<vmas, pc, placeVars>>
    PROVE  SearchSound'
<1>1. /\ cursor \in Nat /\ alen \in Nat /\ cursor - alen \in Nat
      /\ PageAligned(cursor) /\ PageAligned(alen) /\ start \in Nat
  BY RegionAssumption DEF VmemInv, TypeOK, SearchSound
<1>2. AlignDown(cursor - alen) = cursor - alen
  <2>1. PageAligned(cursor - alen)
    BY <1>1, AlignedArithmetic, RegionAssumption
  <2> QED
    BY <1>1, <2>1, AlignedFixed
<1>3. /\ i \in VmaSlots /\ vmas[i].used /\ vmas[i].base \in Nat /\ End(i) \in Nat
      /\ cursor - alen < End(i)
  BY <1>1, <1>2 DEF Overlapping, End, VmemInv, TypeOK
<1>4. /\ cursor' \in Nat /\ PageAligned(cursor')
      /\ vmas[i].base < cursor' + Page
  BY <1>3, AlignDownBounds, AlignDownAligned DEF NextEnd
<1>5. ASSUME NEW b \in 0 .. start, b % Page = 0, cursor' < b + alen, b + alen <= start
      PROVE  Overlapping(b, alen) # {}
  <2>1. CASE cursor < b + alen
    BY <1>5, <2>1 DEF SearchSound, PlaceSkipsNoFit
  <2>2. CASE b + alen <= cursor
    <3>1. b \in Nat /\ PageAligned(b)
      BY <1>1, <1>5, AlignedIfNoRest
    <3>2. PageAligned(b + alen) /\ b + alen \in Nat
      BY <1>1, <3>1, AlignedArithmetic
    <3>3. b + alen >= cursor' + Page
      BY <1>4, <1>5, <3>2, AlignedArithmetic
    <3>4. b + alen > vmas[i].base /\ b < End(i)
      BY <1>1, <1>3, <1>4, <2>2, <3>1, <3>3, RegionAssumption
    <3>5. i \in Overlapping(b, alen)
      BY <1>1, <1>3, <3>1, <3>4 DEF Overlapping
    <3> QED
      BY <3>5
  <2> QED
    BY <1>1, <1>5, <2>1, <2>2
<1>6. \A b : Overlapping(b, alen)' = Overlapping(b, alen)
  BY DEF Overlapping, End, placeVars
<1> QED
  BY <1>1, <1>4, <1>5, <1>6 DEF SearchSound, PlaceSkipsNoFit, placeVars

LEMMA SearchBegins ==
    ASSUME VmemInv, NEW sp \in Sps, NEW addr \in {0} \cup Hints, NEW len \in Lens,
           sys_mmap(addr, len, sp), pc' = "place"
    PROVE  SearchSound'
<1>1. /\ mmap_next' = SearchFrom(Lowered(sp)) /\ alen' = AlignUp(len)
      /\ cursor' = AlignDown(mmap_next') /\ start' = cursor'
  BY DEF sys_mmap
<1>2. mmap_next' \in Nat
  BY <1>1, LoweredNat, SearchFromBounds DEF VmemInv, LoopsSound
<1>3. cursor' \in Nat /\ PageAligned(cursor')
  BY <1>1, <1>2, AlignDownBounds, AlignDownAligned
<1>4. PageAligned(alen') /\ alen' \in Nat
  <2>1. len + Page - 1 \in Nat
    BY ArgumentsAssumption, RegionAssumption
  <2> QED
    BY <1>1, <2>1, AlignDownAligned, AlignDownBounds DEF AlignUp
<1> QED
  BY <1>1, <1>3, <1>4 DEF SearchSound, PlaceSkipsNoFit

\* One area further down the walk.
LEMMA WalkStep ==
    ASSUME VmemInv, WalkSound, pc = "recompute", NEW i \in EndsAt(cursor),
           cursor' = vmas[i].base, UNCHANGED <<vmas, stack_low>>
    PROVE  WalkSound'
<1>1. /\ i \in VmaSlots /\ vmas[i].used /\ End(i) = cursor /\ End(i) <= Top
      /\ Base <= vmas[i].base /\ vmas[i].base \in Nat /\ cursor \in Nat
  BY DEF EndsAt, VmemInv, AreasSound, TypeOK
<1>2. proc_mmap_hi(stack_low) \in Nat
  BY HiBounds DEF VmemInv, TypeOK
<1>3. ASSUME NEW x \in vmas[i].base .. proc_mmap_hi(stack_low) - 1
      PROVE  x \in Mapped
  <2>1. CASE x >= cursor
    BY <1>1, <1>2, <1>3, <2>1 DEF WalkSound
  <2>2. CASE x < cursor
    <3>1. x \in Base .. Top - 1 /\ Covers(i, x)
      BY <1>1, <1>2, <1>3, <2>2, RegionAssumption DEF Covers
    <3> QED
      BY <1>1, <3>1 DEF Mapped
  <2> QED
    BY <1>1, <1>2, <1>3, <2>1, <2>2
<1>4. Mapped' = Mapped /\ proc_mmap_hi(stack_low)' = proc_mmap_hi(stack_low)
  BY SameAreas
<1> QED
  BY <1>3, <1>4 DEF WalkSound

LEMMA StepSearch ==
    ASSUME VmemInv, SearchSound, WalkSound, [Next]_vars
    PROVE  SearchSound' /\ WalkSound'
<1>1. CASE UNCHANGED vars
  BY <1>1, SameAreas
     DEF vars, localVars, placeVars, SearchSound, PlaceSkipsNoFit, WalkSound
<1>2. CASE \E sp \in Sps : Calls(sp)
  <2>1. PICK sp \in Sps : Calls(sp)
    BY <1>2
  <2>2. pc' # "recompute"
    BY <2>1 DEF Calls, Return, sys_brk, sys_mmap, sys_munmap, sys_execve, localVars
  <2>3. CASE \E addr \in {0} \cup Hints, len \in Lens : sys_mmap(addr, len, sp)
    BY <2>2, <2>3, SearchBegins DEF WalkSound, SearchSound, PlaceSkipsNoFit
  <2>4. CASE ~\E addr \in {0} \cup Hints, len \in Lens : sys_mmap(addr, len, sp)
    <3>1. pc' # "place"
      BY <2>1, <2>4 DEF Calls, Return, sys_brk, sys_munmap, sys_execve, localVars
    <3> QED
      BY <2>2, <3>1 DEF WalkSound, SearchSound, PlaceSkipsNoFit
  <2> QED
    BY <2>3, <2>4
<1>3. CASE sys_clone_child
  BY <1>3 DEF sys_clone_child, localVars, SearchSound, PlaceSkipsNoFit, WalkSound
<1>4. CASE mmap_place
  <2>1. CASE pc' = "user"
    BY <2>1 DEF SearchSound, PlaceSkipsNoFit, WalkSound
  <2>2. CASE pc' # "user"
    <3>1. /\ pc = "place" /\ cursor >= Base + alen
          /\ \E i \in VmaSlots : /\ FirstSlot(Overlapping(AlignDown(cursor - alen), alen), i)
                                 /\ cursor' = NextEnd(i)
          /\ UNCHANGED <<vmas, pc, placeVars>>
      BY <1>4, <2>2 DEF mmap_place, Leave
    <3> QED
      BY <3>1, SearchStep DEF FirstSlot, WalkSound
  <2> QED
    BY <2>1, <2>2
<1>5. CASE unmap_slot
  BY <1>5 DEF unmap_slot, Leave, SearchSound, PlaceSkipsNoFit, WalkSound
<1>6. CASE unmap_done
  <2>1. CASE pc' = "user"
    BY <2>1 DEF SearchSound, PlaceSkipsNoFit, WalkSound
  <2>2. CASE pc' # "user"
    <3>1. pc' = "recompute" /\ cursor' = proc_mmap_hi(stack_low) /\ stack_low' = stack_low
      BY <1>6, <2>2 DEF unmap_done, Leave
    <3>2. proc_mmap_hi(stack_low) \in Nat
      BY HiBounds DEF VmemInv, TypeOK
    <3> QED
      BY <3>1, <3>2 DEF SearchSound, PlaceSkipsNoFit, WalkSound
  <2> QED
    BY <2>1, <2>2
<1>7. CASE recompute_mmap_next
  <2>1. CASE pc' = "user"
    BY <2>1 DEF SearchSound, PlaceSkipsNoFit, WalkSound
  <2>2. CASE pc' # "user"
    <3>1. /\ pc = "recompute" /\ pc' = pc
          /\ \E i \in VmaSlots : FirstSlot(EndsAt(cursor), i) /\ cursor' = vmas[i].base
          /\ UNCHANGED <<vmas, stack_low>>
      BY <1>7, <2>2 DEF recompute_mmap_next, Leave
    <3> QED
      BY <3>1, WalkStep DEF FirstSlot, SearchSound, PlaceSkipsNoFit
  <2> QED
    BY <2>1, <2>2
<1> QED
  BY <1>1, <1>2, <1>3, <1>4, <1>5, <1>6, <1>7 DEF Next, Kernel

LEMMA SearchInvariant == Spec => [](SearchSound /\ WalkSound)
<1>1. Init => SearchSound /\ WalkSound
  BY DEF Init, SearchSound, PlaceSkipsNoFit, WalkSound
<1>2. VmemInv /\ (SearchSound /\ WalkSound) /\ [Next]_vars
        => (SearchSound /\ WalkSound)'
  BY StepSearch
<1> QED
  BY <1>1, <1>2, VmemInvariant, PTL DEF Spec

\* For every page size, number of areas and order of the areas in their
\* slots: the retry loop of sys_mmap passes no aligned range that is free.
THEOREM SearchSkipsNoFit == Spec => []PlaceSkipsNoFit
<1>1. SearchSound => PlaceSkipsNoFit
  BY DEF SearchSound
<1> QED
  BY <1>1, SearchInvariant, PTL

\* When munmap returns, the next search begins above every hole below the
\* stack guard (proc_recompute_mmap_next).
THEOREM UnmappedIsFound == Spec => NothingLost
<1>1. WalkSound /\ [Next]_vars
        => [pc = "recompute" /\ pc' = "user" =>
              \A x \in mmap_next' .. proc_mmap_hi(stack_low) - 1 : x \in Mapped]_vars
  <2> SUFFICES ASSUME WalkSound, Next, pc = "recompute", pc' = "user"
               PROVE  \A x \in mmap_next' .. proc_mmap_hi(stack_low) - 1 : x \in Mapped
    OBVIOUS
  <2>1. recompute_mmap_next
    BY DEF Next, Calls, Return, sys_brk, sys_mmap, sys_munmap, sys_execve,
           sys_clone_child, Kernel, mmap_place, unmap_slot, unmap_done
  <2>2. mmap_next' = cursor
    BY <2>1 DEF recompute_mmap_next
  <2> QED
    BY <2>2 DEF WalkSound
<1> QED
  BY <1>1, SearchInvariant, PTL DEF Spec, NothingLost

-----------------------------------------------------------------------------
(* Exec: a call that fails.                                                *)

LEMMA Before ==
    \E R : IsWellFoundedOn(R, Nat) /\ \A x, y \in Nat : y < x => <<y, x>> \in R
<1>1. ASSUME NEW x \in Nat, NEW y \in Nat, y < x PROVE <<y, x>> \in OpToRel(<, Nat)
  <2>1. <<y, x>> \in Nat \X Nat
    OBVIOUS
  <2>2. <<y, x>>[1] < <<y, x>>[2]
    BY <1>1
  <2> QED
    BY <2>1, <2>2, Zenon DEF OpToRel
<1>2. IsWellFoundedOn(OpToRel(<, Nat), Nat)
  BY NatLessThanWellFounded, Zenon
<1> QED
  BY <1>1, <1>2, Zenon

\* A set of numbers has a least one, which is what a scan finds.
LEMMA LeastNumber ==
    ASSUME NEW S \in SUBSET Nat, S # {}
    PROVE  \E x \in S : \A y \in S : x <= y
<1>1. PICK R : IsWellFoundedOn(R, Nat) /\ \A x, y \in Nat : y < x => <<y, x>> \in R
  BY Before
<1>2. PICK x \in S : \A y \in S : ~(<<y, x>> \in R)
  BY <1>1, WFMin
<1>3. ASSUME NEW y \in S PROVE x <= y
  <2>1. x \in Nat /\ y \in Nat
    OBVIOUS
  <2>2. y < x => <<y, x>> \in R
    BY <1>1, <2>1, Zenon
  <2> QED
    BY <1>2, <2>1, <2>2
<1> QED
  BY <1>3

\* The program's entry was found in the archive, and is not a directory's.
ProgramFound ==
    /\ cpio_newc_find(call.path) # 0
    /\ Archive[cpio_newc_find(call.path)].kind # "dir"

SomeLoads == Image.ok /\ \E k \in DOMAIN Image.phs : Loads(Image.phs[k])

\* Until a segment is loaded, memory is the caller's.
ExecInv ==
    /\ phase \in {"snapshot", "load", "stack", "done"}
    /\ phase = "snapshot" => mem = call.mem /\ seg = 1
    /\ phase = "load" => /\ ProgramFound /\ seg \in Nat \ {0}
                         /\ mem # call.mem => SomeLoads
    /\ ExecFailsClean

\* What the lookup finds is an entry of the archive that can be parsed.
LEMMA FoundIsEntry ==
    ASSUME NEW name, cpio_newc_find(name) # 0
    PROVE  /\ cpio_newc_find(name) \in 1 .. Len(Archive)
           /\ Archive[cpio_newc_find(name)].kind \notin {"bad", "trailer"}
<1> DEFINE Stop == {i \in 1 .. Len(Archive) : Archive[i].kind \in {"bad", "trailer"}
                                              \/ Archive[i].name = name}
<1>1. cpio_newc_find(name) = IF Stop = {} \/ Archive[Min(Stop)].kind \in {"bad", "trailer"}
                             THEN 0 ELSE Min(Stop)
  BY DEF cpio_newc_find
<1>2. Stop \subseteq 1 .. Len(Archive)
  OBVIOUS
<1> HIDE DEF Stop
<1>3. Stop # {} /\ Archive[Min(Stop)].kind \notin {"bad", "trailer"} /\ cpio_newc_find(name) = Min(Stop)
  BY <1>1
<1>4. PICK x \in Stop : \A y \in Stop : x <= y
  <2>1. Stop \in SUBSET Nat
    <3>1. Len(Archive) \in Nat
      BY ExecAssumption, LenProperties DEF ExecAssumption
    <3> QED
      BY <1>2, <3>1
  <2> QED
    BY <1>3, <2>1, LeastNumber
<1>5. Min(Stop) \in Stop
  BY <1>4, Zenon DEF Min
<1> QED
  BY <1>2, <1>3, <1>5

\* The headers of a program that was found.
HeaderType == [type : STRING, off : Nat, va : Nat, filesz : Nat, memsz : Nat]

LEMMA ImageTyped ==
    ASSUME ProgramFound, Image.ok
    PROVE  /\ Image.phs \in Seq(HeaderType) /\ Len(Image.file) \in Nat
           /\ DOMAIN Image.phs = 1 .. Len(Image.phs) /\ Len(Image.phs) \in Nat
<1>1. PICK n : n = cpio_newc_find(call.path)
  OBVIOUS
<1>2. n \in 1 .. Len(Archive) /\ Archive[n].kind \notin {"bad", "trailer", "dir"}
  BY <1>1, FoundIsEntry DEF ProgramFound
<1>3. n \in DOMAIN Archive
  BY <1>2, ExecAssumption, LenProperties DEF ExecAssumption
<1>4. Archive[n].kind = "file"
  BY <1>2, <1>3, ExecAssumption DEF ExecAssumption
<1>5. Image = Archive[n].image
  BY <1>1 DEF Image
<1>6. Image.phs \in Seq(HeaderType) /\ Image.file \in Seq(Nat)
  BY <1>3, <1>4, <1>5, ExecAssumption, Zenon DEF ExecAssumption, HeaderType
<1> QED
  BY <1>6, LenProperties

\* A header the loader refuses is one that is bad.
BadHeader(img, ph) ==
    \/ ph.memsz < ph.filesz \/ ph.off + ph.filesz > Len(img.file)
    \/ ph.va < 1 \/ ph.va + ph.memsz > RegionSize + 1

LEMMA RefusedIsBad ==
    ASSUME NEW img, NEW ph \in HeaderType, Len(img.file) \in Nat, Loads(ph), ~Loadable(img, ph)
    PROVE  BadHeader(img, ph)
<1>1. PICK o, v, f, m : o = ph.off /\ v = ph.va /\ f = ph.filesz /\ m = ph.memsz
  OBVIOUS
<1>2. o \in Nat /\ v \in Nat /\ f \in Nat /\ m \in Nat /\ m > 0
  BY <1>1 DEF HeaderType, Loads
<1>3. PICK R \in Nat : R = RegionSize
  BY ExecAssumption DEF ExecAssumption
<1>4. PICK L \in Nat : L = Len(img.file)
  OBVIOUS
<1>5. ~(m >= f) \/ ~(o + f <= L) \/ ~(v \in 1 .. R) \/ ~(v + m - 1 <= R)
  BY <1>1, <1>3, <1>4 DEF Loadable, range_ok, Region
<1>6. m < f \/ o + f > L \/ v < 1 \/ v + m > R + 1
  BY <1>2, <1>3, <1>4, <1>5
<1> QED
  BY <1>1, <1>3, <1>4, <1>6 DEF BadHeader

SomeBad == \E k \in DOMAIN Image.phs : BadHeader(Image, Image.phs[k])

LEMMA ImageStays ==
    ASSUME UNCHANGED call
    PROVE  Image' = Image /\ (ProgramFound' <=> ProgramFound) /\ (SomeLoads' <=> SomeLoads)
<1>1. cpio_newc_find(call.path)' = cpio_newc_find(call.path)
  BY DEF cpio_newc_find
<1>2. Image' = Image
  BY <1>1 DEF Image
<1> QED
  BY <1>1, <1>2 DEF ProgramFound, SomeLoads

LEMMA FailsCleanKept ==
    ASSUME UNCHANGED call, phase' # "done" \/ res' = "ok" \/ mem' = call.mem \/ SomeBad
    PROVE  ExecFailsClean'
<1>1. Image' = Image
  BY ImageStays
<1> QED
  BY <1>1 DEF ExecFailsClean, SomeBad, BadHeader

LEMMA StepExec == ExecInv /\ [ExecNext]_execVars => ExecInv'
<1> SUFFICES ASSUME ExecInv, [ExecNext]_execVars PROVE ExecInv'
  OBVIOUS
<1>1. UNCHANGED call
  BY DEF ExecNext, Snapshot, LoadSegment, LoadEnds, BuildStack, Fail, execVars
<1>2. Image' = Image /\ (ProgramFound' <=> ProgramFound) /\ (SomeLoads' <=> SomeLoads)
  BY <1>1, ImageStays
<1>3. phase # "done" \/ res = "ok" \/ mem = call.mem \/ SomeBad
  BY DEF ExecInv, ExecFailsClean, SomeBad, BadHeader
<1>4. CASE UNCHANGED execVars
  <2>1. UNCHANGED <<phase, mem, seg, res>>
    BY <1>4 DEF execVars
  <2>2. ExecFailsClean'
    BY <1>1, <1>3, <2>1, FailsCleanKept
  <2> QED
    BY <1>1, <1>2, <2>1, <2>2 DEF ExecInv
<1>5. CASE Snapshot
  <2>1. mem = call.mem /\ seg = 1 /\ phase = "snapshot" /\ UNCHANGED <<mem, seg>>
    BY <1>5 DEF ExecInv, Snapshot, Fail
  <2>2. phase' = "done" \/ (phase' = "load" /\ ProgramFound)
    BY <1>5 DEF Snapshot, Fail, ProgramFound
  <2>3. ExecFailsClean'
    BY <1>1, <2>1, FailsCleanKept
  <2> QED
    BY <1>1, <1>2, <2>1, <2>2, <2>3 DEF ExecInv
<1>6. CASE LoadSegment
  <2>1. phase = "load" /\ Image.ok /\ seg <= Len(Image.phs) /\ ProgramFound /\ seg \in Nat \ {0}
    BY <1>6 DEF ExecInv, LoadSegment
  <2>2. PICK ph : ph = Image.phs[seg]
    OBVIOUS
  <2>3. seg \in DOMAIN Image.phs /\ ph \in HeaderType /\ Len(Image.file) \in Nat
    <3>1. PICK q, n : q = Image.phs /\ n = Len(Image.phs)
      OBVIOUS
    <3>2. q \in Seq(HeaderType) /\ DOMAIN q = 1 .. n /\ n \in Nat /\ n = Len(q) /\ Len(Image.file) \in Nat
      BY <2>1, <3>1, ImageTyped
    <3>3. seg \in 1 .. n
      BY <2>1, <3>1, <3>2
    <3> QED
      BY <2>2, <3>1, <3>2, <3>3, ElementOfSeq
  <2>4. CASE Loads(ph) /\ ~Loadable(Image, ph)
    <3>1. phase' = "done"
      BY <1>6, <2>2, <2>4 DEF LoadSegment, Fail
    <3>2. SomeBad
      BY <2>2, <2>3, <2>4, RefusedIsBad DEF SomeBad
    <3>3. ExecFailsClean'
      BY <1>1, <3>2, FailsCleanKept
    <3> QED
      BY <3>1, <3>3 DEF ExecInv
  <2>5. CASE ~(Loads(ph) /\ ~Loadable(Image, ph))
    <3>1. phase' = "load" /\ seg' = seg + 1 /\ (mem' # mem => Loads(ph))
      BY <1>6, <2>1, <2>2, <2>5 DEF LoadSegment
    <3>2. mem' # call.mem => SomeLoads
      <4>1. mem' = mem => (mem' # call.mem => SomeLoads)
        BY <2>1 DEF ExecInv
      <4>2. Loads(ph) => SomeLoads
        BY <2>1, <2>2, <2>3 DEF SomeLoads
      <4> QED
        BY <3>1, <4>1, <4>2
    <3>3. ExecFailsClean'
      BY <1>1, <3>1, FailsCleanKept
    <3>4. seg' \in Nat \ {0}
      BY <2>1, <3>1
    <3> QED
      BY <1>1, <1>2, <2>1, <3>1, <3>2, <3>3, <3>4 DEF ExecInv
  <2> QED
    BY <2>4, <2>5
<1>7. CASE LoadEnds
  <2>1. CASE ~SomeLoads
    <3>1. phase = "load" /\ UNCHANGED mem /\ phase' \in {"stack", "done"}
      BY <1>7 DEF LoadEnds, Fail
    <3>2. mem' = call.mem
      BY <2>1, <3>1 DEF ExecInv
    <3>3. ExecFailsClean'
      BY <1>1, <3>2, FailsCleanKept
    <3> QED
      BY <3>1, <3>3 DEF ExecInv
  <2>2. CASE SomeLoads
    <3>1. phase' = "stack"
      BY <1>7, <2>2 DEF LoadEnds, SomeLoads
    <3>2. ExecFailsClean'
      BY <1>1, <3>1, FailsCleanKept
    <3> QED
      BY <3>1, <3>2 DEF ExecInv
  <2> QED
    BY <2>1, <2>2
<1>8. CASE BuildStack
  <2>1. phase' = "done" /\ res' = "ok"
    BY <1>8 DEF BuildStack
  <2>2. ExecFailsClean'
    BY <1>1, <2>1, FailsCleanKept
  <2> QED
    BY <2>1, <2>2 DEF ExecInv
<1> QED
  BY <1>4, <1>5, <1>6, <1>7, <1>8 DEF ExecNext

\* For every archive, region, program and vectors: how far execve gets before
\* it can fail, and what of the caller's memory is then left.
THEOREM ExecInvariant == ExecSpec => []ExecInv
<1>1. ExecInit => ExecInv
  BY DEF ExecInit, ExecInv, ExecFailsClean
<1>2. ExecInv /\ [ExecNext]_execVars => ExecInv'
  BY StepExec
<1> QED
  BY <1>1, <1>2, PTL DEF ExecSpec

\* An execve that fails leaves the caller's memory as it was, unless the
\* headers of the program it found are bad (sys_execve, elf64_load_etexec).
THEOREM ExecFailsCleanly == ExecSpec => []ExecFailsClean
<1>1. ExecInv => ExecFailsClean
  BY DEF ExecInv
<1> QED
  BY <1>1, ExecInvariant, PTL
=============================================================================
