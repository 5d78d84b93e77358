---------------------------- MODULE AddressSpace ----------------------------
(***************************************************************************)
(* What mmap and munmap promise a process: mmap hands out a range of its   *)
(* region in which nothing is mapped yet, munmap takes away exactly the    *)
(* range it is given or does nothing.                                      *)
(***************************************************************************)
EXTENDS Integers

CONSTANTS Base, Top     \* USER_REGION_BASE and the end of the region

VARIABLE mapped         \* addresses the process may use as mapped memory

Init == mapped = {}

\* mmap: a range that was free throughout.
Map == \E lo, hi \in Base .. Top :
          /\ lo < hi
          /\ mapped \cap (lo .. hi - 1) = {}
          /\ mapped' = mapped \cup (lo .. hi - 1)

\* munmap: whatever was mapped in the range.
Unmap == \E lo, hi \in Base .. Top : mapped' = mapped \ (lo .. hi - 1)

\* A new process starts with nothing mapped.
Reset == mapped' = {}

Next == Unmap \/ Reset \/ Map

Spec == Init /\ [][Next]_mapped
=============================================================================
