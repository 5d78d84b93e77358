-------------------------------- MODULE Vmem --------------------------------
(***************************************************************************)
(* The user region of one process: sys_brk, sys_mmap and sys_munmap of     *)
(* sys_proc.c, with the stack mark exception_handle keeps and what execve  *)
(* and clone do (and do not do) to these fields.                           *)
(*                                                                         *)
(* Addresses count granules of 16 bytes, the alignment of brk; a page is   *)
(* Page granules.  The three loops (placing a mapping, unmapping,          *)
(* recomputing mmap_next) take one step per pass, so that their            *)
(* termination is something to check.                                      *)
(***************************************************************************)
EXTENDS Integers

CONSTANTS
    Base, Top,              \* USER_REGION_BASE, and its end
    Page,                   \* granules in a page
    StackGuard, HeapGuard,  \* STACK_GUARD, HEAP_GUARD
    NVmas,                  \* MAX_VMAS
    Brks,                   \* arguments of brk, in granules
    Hints, Lens,            \* addr (0: none) and len arguments of mmap, munmap
    Sps,                    \* stack pointers a process may trap with
    ImageEnds               \* ends of the images execve may load at Base

ASSUME RegionAssumption ==
    /\ Base \in Nat \ {0} /\ Top \in Nat /\ Base < Top
    /\ Page \in Nat \ {0}
    /\ Base % Page = 0
    /\ StackGuard \in Nat /\ HeapGuard \in Nat
    /\ NVmas \in Nat \ {0}

ASSUME ArgumentsAssumption ==
    /\ Brks \subseteq Nat
    /\ Hints \subseteq Nat
    /\ Lens \subseteq Nat \ {0}
    /\ Sps \subseteq Nat
    /\ ImageEnds \subseteq Base .. Top

VARIABLES
    heap_base, heap_end, stack_low, mmap_next,
    vmas,         \* per slot: used, base, len
    image_end,    \* end of the program the last execve loaded at Base
    pc,           \* "user", or the loop the kernel is in
    cursor,       \* place: end; unmap: the slot i; recompute: top
    alen,         \* place: length to place
    start,        \* place, history: the end it began with
    lo, hi,       \* unmap: the range
    any,          \* unmap: unmapped_any
    before        \* unmap, history: what was mapped when it began

heapVars == <<heap_base, heap_end>>
placeVars == <<alen, start>>
unmapVars == <<lo, hi, any, before>>
localVars == <<pc, cursor, placeVars, unmapVars>>
vars == <<heapVars, stack_low, mmap_next, vmas, image_end, localVars>>

VmaSlots == 0 .. NVmas - 1
Unused == [used |-> FALSE, base |-> 0, len |-> 0]
Area(b, n) == [used |-> TRUE, base |-> b, len |-> n]

AlignDown(x) == x - (x % Page)
AlignUp(x) == AlignDown(x + Page - 1)

End(i) == vmas[i].base + vmas[i].len
Covers(i, x) == vmas[i].used /\ vmas[i].base <= x /\ x < End(i)
Mapped == {x \in Base .. Top - 1 : \E i \in VmaSlots : Covers(i, x)}

\* The slot a scan from slot 0 stops at.
FirstSlot(S, i) == i \in S /\ \A j \in S : i <= j
FreeVmas == {i \in VmaSlots : ~vmas[i].used}

\* Mutation: a mapping that reaches over a whole area does not overlap it.
Overlapping_EndsOnly(b, n) ==
    {i \in VmaSlots : /\ vmas[i].used
                      /\ \/ vmas[i].base <= b /\ b < End(i)
                         \/ vmas[i].base < b + n /\ b + n < End(i)}

\* vma_overlaps: the areas that meet b .. b + n - 1.
Overlapping(b, n) ==
    {i \in VmaSlots : vmas[i].used /\ ~(b + n <= vmas[i].base \/ b >= End(i))}

-----------------------------------------------------------------------------
(* proc_clear, and the entry of every system call.                         *)

Init ==
    /\ heap_base = 0 /\ heap_end = 0 /\ mmap_next = 0
    /\ stack_low \in Sps
    /\ vmas = [i \in VmaSlots |-> Unused]
    /\ image_end = Base
    /\ pc = "user"
    /\ cursor = 0 /\ alen = 0 /\ start = 0
    /\ lo = 0 /\ hi = 0 /\ any = FALSE /\ before = {}

\* A loop is left and its call returns; the locals are gone.
Leave ==
    /\ pc' = "user"
    /\ cursor' = 0 /\ alen' = 0 /\ start' = 0
    /\ lo' = 0 /\ hi' = 0 /\ any' = FALSE /\ before' = {}

\* exception_handle keeps the lowest stack pointer seen.
Lowered(sp) == IF stack_low = 0 \/ sp < stack_low THEN sp ELSE stack_low

\* sys_brk's and mmap's ceiling: the stack less its guard.
Ceiling(low) ==
    IF low > Base + StackGuard /\ low - StackGuard < Top
    THEN low - StackGuard ELSE Top

proc_mmap_hi(low) == AlignDown(Ceiling(low))

\* "Lazy init": the heap starts at the region's base.
InitHeapBase == IF heap_base = 0 THEN Base ELSE heap_base
InitHeapEnd == IF heap_base = 0 THEN Base ELSE heap_end

\* Any other call.
Return(sp) ==
    /\ pc = "user"
    /\ stack_low' = Lowered(sp)
    /\ UNCHANGED <<heapVars, mmap_next, vmas, image_end, localVars>>

sys_brk(newbrk, sp) ==
    /\ pc = "user"
    /\ stack_low' = Lowered(sp)
    /\ heap_base' = InitHeapBase
    /\ heap_end' = IF newbrk < InitHeapBase \/ newbrk > Ceiling(Lowered(sp))
                   THEN InitHeapEnd
                   ELSE newbrk
    /\ UNCHANGED <<mmap_next, vmas, image_end, localVars>>

\* execve replaces the image; of the fields kept here it changes none.
sys_execve(end, sp) ==
    /\ pc = "user"
    /\ stack_low' = Lowered(sp)
    /\ image_end' = end
    /\ UNCHANGED <<heapVars, mmap_next, vmas, localVars>>

\* The view of a child just cloned: proc_clear and no inheritance, while its
\* memory, image included, is a copy of its parent's.  exception_handle sets
\* stack_low at the child's first call.
sys_clone_child ==
    /\ pc = "user"
    /\ heap_base' = 0 /\ heap_end' = 0 /\ mmap_next' = 0 /\ stack_low' = 0
    /\ vmas' = [i \in VmaSlots |-> Unused]
    /\ UNCHANGED <<image_end, localVars>>

-----------------------------------------------------------------------------
(* sys_mmap.                                                               *)

\* The lowest base a mapping may have: the heap, rounded up, and its guard.
LowestBase(end) == AlignUp(end) + HeapGuard

\* The hint is tried first and taken if it lies between heap and stack, meets
\* no area and there is a slot.
HintFits(addr, n, low) ==
    /\ addr >= Base
    /\ addr + n <= proc_mmap_hi(low)
    /\ addr >= LowestBase(InitHeapEnd)
    /\ Overlapping(addr, n) = {}
    /\ FreeVmas # {}

Place(b, n) ==
    \E i \in VmaSlots : FirstSlot(FreeVmas, i) /\ vmas' = [vmas EXCEPT ![i] = Area(b, n)]

\* mmap_next where the search starts, pulled below the stack.
SearchFrom(low) ==
    IF mmap_next = 0 \/ mmap_next > proc_mmap_hi(low)
    THEN proc_mmap_hi(low) ELSE mmap_next

sys_mmap(addr, len, sp) ==
    /\ pc = "user"
    /\ stack_low' = Lowered(sp)
    /\ heap_base' = InitHeapBase
    /\ heap_end' = InitHeapEnd
    /\ UNCHANGED <<image_end, unmapVars>>
    /\ \/ /\ addr % Page # 0                            \* EINVAL
          /\ UNCHANGED <<mmap_next, vmas, pc, cursor, placeVars>>
       \/ /\ addr # 0 /\ addr % Page = 0
          /\ HintFits(addr, AlignUp(len), Lowered(sp))
          /\ Place(addr, AlignUp(len))
          /\ UNCHANGED <<mmap_next, pc, cursor, placeVars>>
       \/ /\ addr % Page = 0
          /\ addr = 0 \/ ~HintFits(addr, AlignUp(len), Lowered(sp))
          /\ mmap_next' = SearchFrom(Lowered(sp))
          /\ pc' = "place"
          /\ alen' = AlignUp(len)
          /\ cursor' = AlignDown(mmap_next')
          /\ start' = cursor'
          /\ UNCHANGED vmas

\* Mutation: the search goes down by its own length.
NextEnd_ByLength(i) == cursor - alen

\* Mutation: the search goes on where it was.
NextEnd_Same(i) == cursor

\* Where the search goes on below area i.
NextEnd(i) == AlignDown(vmas[i].base)

\* One pass of the search: out of room (ENOMEM), an area in the way, no slot
\* (ENOMEM), or placed.
mmap_place ==
    LET b == AlignDown(cursor - alen)
        room == cursor >= Base + alen /\ b >= LowestBase(heap_end)
    IN  /\ pc = "place"
        /\ UNCHANGED <<heapVars, stack_low, image_end>>
        /\ \/ /\ ~room \/ (Overlapping(b, alen) = {} /\ FreeVmas = {})
              /\ Leave
              /\ UNCHANGED <<mmap_next, vmas>>
           \/ /\ room
              /\ \E i \in VmaSlots : /\ FirstSlot(Overlapping(b, alen), i)
                                     /\ cursor' = NextEnd(i)
              /\ UNCHANGED <<mmap_next, vmas, pc, placeVars, unmapVars>>
           \/ /\ room /\ Overlapping(b, alen) = {}
              /\ Place(b, alen)
              /\ mmap_next' = b
              /\ Leave

-----------------------------------------------------------------------------
(* sys_munmap.                                                             *)

sys_munmap(addr, len, sp) ==
    /\ pc = "user"
    /\ stack_low' = Lowered(sp)
    /\ UNCHANGED <<heapVars, mmap_next, vmas, image_end, placeVars>>
    /\ \/ /\ addr % Page # 0                            \* EINVAL
          /\ UNCHANGED <<pc, cursor, unmapVars>>
       \/ /\ addr % Page = 0
          /\ pc' = "unmap"
          /\ cursor' = 0
          /\ lo' = addr /\ hi' = addr + AlignUp(len)
          /\ any' = FALSE
          /\ before' = Mapped

MustSplit(i) == lo > vmas[i].base /\ hi < End(i)

\* The area behind the hole that munmap makes in area i.
RightPart(i) == Area(hi, End(i) - hi)

\* Slot i of the loop, when the range meets its area: removed, trimmed at the
\* front or at the tail, or split.
Trim(i) ==
    \/ /\ lo <= vmas[i].base /\ hi >= End(i)
       /\ vmas' = [vmas EXCEPT ![i] = Unused]
    \/ /\ lo <= vmas[i].base /\ hi < End(i)
       /\ vmas' = [vmas EXCEPT ![i] = Area(hi, End(i) - hi)]
    \/ /\ lo > vmas[i].base /\ hi >= End(i)
       /\ vmas' = [vmas EXCEPT ![i] = Area(vmas[i].base, lo - vmas[i].base)]
    \/ /\ MustSplit(i)
       /\ \E j \in VmaSlots :
             /\ FirstSlot(FreeVmas, j)
             /\ vmas' = [vmas EXCEPT ![i] = Area(vmas[i].base, lo - vmas[i].base),
                                     ![j] = RightPart(i)]

unmap_slot ==
    /\ pc = "unmap"
    /\ cursor < NVmas
    /\ UNCHANGED <<heapVars, stack_low, mmap_next, image_end>>
    /\ \/ /\ cursor \notin Overlapping(lo, hi - lo)
          /\ cursor' = cursor + 1
          /\ UNCHANGED <<vmas, pc, placeVars, unmapVars>>
       \/ /\ cursor \in Overlapping(lo, hi - lo)
          /\ Trim(cursor)
          /\ any' = TRUE
          /\ cursor' = cursor + 1
          /\ UNCHANGED <<pc, placeVars, lo, hi, before>>
       \/ /\ cursor \in Overlapping(lo, hi - lo)        \* ENOMEM
          /\ MustSplit(cursor) /\ FreeVmas = {}
          /\ Leave
          /\ UNCHANGED vmas

\* After the loop: EINVAL if nothing was mapped there, else recompute.
unmap_done ==
    /\ pc = "unmap"
    /\ cursor = NVmas
    /\ UNCHANGED <<heapVars, stack_low, mmap_next, vmas, image_end>>
    /\ \/ ~any /\ Leave
       \/ /\ any
          /\ pc' = "recompute"
          /\ cursor' = proc_mmap_hi(stack_low)
          /\ UNCHANGED <<placeVars, unmapVars>>

\* Mutation: an area that ends below the top, with a hole between, counts too.
EndsAt_OrBelow(top) == {i \in VmaSlots : vmas[i].used /\ End(i) <= top}

EndsAt(top) == {i \in VmaSlots : vmas[i].used /\ End(i) = top}

\* proc_recompute_mmap_next: one pass of its outer loop.
recompute_mmap_next ==
    /\ pc = "recompute"
    /\ UNCHANGED <<heapVars, stack_low, vmas, image_end>>
    /\ \/ /\ \E i \in VmaSlots : FirstSlot(EndsAt(cursor), i) /\ cursor' = vmas[i].base
          /\ UNCHANGED <<mmap_next, pc, placeVars, unmapVars>>
       \/ /\ EndsAt(cursor) = {}
          /\ mmap_next' = cursor
          /\ Leave

Kernel == mmap_place \/ unmap_slot \/ unmap_done \/ recompute_mmap_next

Calls(sp) ==
    \/ Return(sp)
    \/ \E b \in Brks : sys_brk(b, sp)
    \/ \E addr \in {0} \cup Hints, len \in Lens : sys_mmap(addr, len, sp)
    \/ \E addr \in Hints, len \in Lens : sys_munmap(addr, len, sp)
    \/ \E end \in ImageEnds : sys_execve(end, sp)

Next == (\E sp \in Sps : Calls(sp)) \/ sys_clone_child \/ Kernel

Spec == Init /\ [][Next]_vars

\* The kernel runs its loops to the end.
FairSpec == Spec /\ WF_vars(Kernel)

-----------------------------------------------------------------------------
(* Properties.                                                             *)

TypeOK ==
    /\ heap_base \in Nat /\ heap_end \in Nat /\ stack_low \in Nat
    /\ mmap_next \in Nat
    /\ vmas \in [VmaSlots -> [used : BOOLEAN, base : Nat, len : Nat]]
    /\ image_end \in Base .. Top
    /\ pc \in {"user", "place", "unmap", "recompute"}
    /\ cursor \in Nat /\ alen \in Nat /\ start \in Nat
    /\ lo \in Nat /\ hi \in Nat /\ any \in BOOLEAN
    /\ before \subseteq Base .. Top - 1

\* No two areas share an address, none is empty and none leaves the region,
\* after any sequence of hinted and unhinted mmaps and of munmaps that
\* remove, trim and split.
AreasSound ==
    \A i \in VmaSlots :
        vmas[i].used =>
            /\ vmas[i].base >= Base
            /\ vmas[i].len > 0
            /\ End(i) <= Top
            /\ \A j \in VmaSlots \ {i} :
                  vmas[j].used => vmas[i].base >= End(j) \/ vmas[j].base >= End(i)

\* The heap is where the lazy initialisation put it or above.
HeapSound == IF heap_base = 0 THEN heap_end = 0 ELSE Base <= heap_base /\ heap_base <= heap_end

\* What the loops rely on: the search stays in the region and looks for room
\* for something; munmap has cleared the slots it has passed, and before its
\* first cut it has changed nothing.
LoopsSound ==
    /\ mmap_next <= Top
    /\ pc = "place" => cursor <= Top /\ alen > 0 /\ heap_base > 0
    /\ pc = "unmap" =>
          /\ cursor <= NVmas
          /\ lo < hi
          /\ \A i \in Overlapping(lo, hi - lo) : i >= cursor
          /\ Mapped \subseteq before
          /\ before \ (lo .. hi - 1) \subseteq Mapped
          /\ ~any => Mapped = before
          /\ any => \A i \in VmaSlots : ~(vmas[i].used /\ MustSplit(i))
    /\ pc = "recompute" => cursor <= Top

\* The inductive invariant.
VmemInv == TypeOK /\ AreasSound /\ HeapSound /\ LoopsSound

\* mmap wastes no room: while it searches, no page-aligned range between the
\* place it looks at and the place it began with would have fitted, whatever
\* the order of the areas in their slots (the retry loop of sys_mmap).
PlaceSkipsNoFit ==
    pc = "place" =>
        \A b \in 0 .. start :
            b % Page = 0 /\ cursor < b + alen /\ b + alen <= start =>
                Overlapping(b, alen) # {}

\* munmap makes address space available again: when it returns, mmap will
\* start its search above every hole that lies below the stack guard.
NothingLost ==
    [][pc = "recompute" /\ pc' = "user" =>
          \A x \in mmap_next' .. proc_mmap_hi(stack_low) - 1 : x \in Mapped]_vars

\* mmap and munmap implement the abstract address space.  munmap takes effect
\* when its loop is through; in particular, when it fails for want of a slot
\* it has changed nothing, wherever in the table it fails.
AS == INSTANCE AddressSpace WITH mapped <- IF pc = "unmap" THEN before ELSE Mapped
ImplementsAddressSpace == AS!Spec

\* Every call returns: the search for room and the walk down from the top
\* terminate.
CallsReturn == pc # "user" ~> pc = "user"

\* "Heap is initialized on first execve()" (proc_init_if_needed): a program
\* that was loaded does not find its heap on top of itself.
HeapClearOfImage == heap_end > heap_base => heap_base >= image_end
=============================================================================
