-------------------------------- MODULE Memory --------------------------------
(***************************************************************************)
(* Physical memory: the page bitmap of pmm.c, who takes pages from it at   *)
(* boot (main.c, mmu.c, fb.c), and the blocks and translation tables that  *)
(* fork takes and a reaped child gives back (sys_proc.c).                  *)
(*                                                                         *)
(* Addresses count half pages, so that a range may begin or end within a   *)
(* page.  RAM starts at a multiple of a block (it starts at 0): the code   *)
(* aligns page numbers, and takes them for aligned addresses.              *)
(***************************************************************************)
EXTENDS Integers, FiniteSetsExt

CONSTANTS
    Page,       \* PMM_PAGE_SIZE
    Block,      \* a block of 2 MiB, in pages
    Low,        \* what pmm_init reserves at the start of RAM
    UserRegion, \* USER_REGION_BASE
    MinPages,   \* pages below which pmm_init gives up
    Boots       \* machines: [size, kernel, dtb, fb]; a range is <<first, end>>

\* A range is <<first, end>>; without a framebuffer fb is <<0, 0>>, and
\* fb_init_from_mailbox_ex refuses one of no size.
MemoryAssumption ==
    /\ Page \in Nat \ {0} /\ Block \in Nat \ {0} /\ MinPages \in Nat /\ Low \in Nat
    /\ UserRegion \in Nat /\ UserRegion % (Block * Page) = 0
    /\ Boots \subseteq [size : Nat, kernel : Nat \X Nat, dtb : Nat \X Nat, fb : Nat \X Nat]
    /\ \A m \in Boots : m.fb = <<0, 0>> \/ m.fb[1] < m.fb[2]

VARIABLES
    total,      \* g_info.total_pages
    used,       \* g_bitmap
    free_pages, \* g_info.free_pages
    device,     \* blocks that the template maps as device memory
    boot,       \* "boot", "mapped", "up" or "stopped"
    machine,
    reserved,   \* pages reserved at boot or by the framebuffer
    kernel,     \* pages of the kernel's own tables
    children,   \* unreaped children: [pa, tables]
    stale,      \* tables of the reaped, and of forks that failed
    forked      \* the result of the last fork

pmm == <<total, used, free_pages>>
memVars == <<pmm, device, boot, machine, reserved, kernel, children, stale, forked>>

AlignDown(a, n) == (a \div n) * n
AlignUp(a, n) == AlignDown(a + n - 1, n)
AtMost(a, b) == IF a <= b THEN a ELSE b

Pages == 0 .. total - 1
PagesOf(pa) == pa \div Page .. pa \div Page + Block - 1

-----------------------------------------------------------------------------
(* pmm.c.                                                                  *)

\* Mutation: a page that is reserved in part stays free at its end.
Covered_Down(n, r) == r[1] \div Page .. AtMost(r[2], n * Page) \div Page - 1

\* Of n pages, those that the range r touches: reserve_range.
Covered(n, r) ==
    IF r[2] <= r[1] THEN {}
    ELSE r[1] \div Page .. AlignUp(AtMost(r[2], n * Page), Page) \div Page - 1

\* pmm_init: what is not to be handed out.
Initial(m) ==
    UNION {Covered(m.size \div Page, r) :
             r \in {<<0, Low>>, m.kernel, m.dtb,
                    <<UserRegion, UserRegion + Block * Page>>}}

\* Boot finds its pages on a machine that pmm_init accepts: four for the
\* kernel's tables and three for the self-test of main.
RoomToBoot ==
    \A m \in Boots :
        m.size >= MinPages * Page =>
          LET n == m.size \div Page IN
          Cardinality(0 .. n - 1 \ (Initial(m) \cup Covered(n, m.fb))) >= 7

MemInit ==
    /\ machine \in Boots
    /\ IF machine.size < MinPages * Page
       THEN total = 0 /\ reserved = {}
       ELSE total = machine.size \div Page /\ reserved = Initial(machine)
    /\ used = reserved
    /\ free_pages = total - Cardinality(reserved)
    /\ device = {} /\ boot = "boot" /\ kernel = {}
    /\ children = {} /\ stale = {} /\ forked = "none"

\* What n calls of pmm_alloc_page return when u is used and m pages are
\* free: the lowest free pages.
LowestFree(u, m, n) ==
    {p \in Pages \ u : Cardinality({q \in 0 .. p - 1 : q \notin u}) < AtMost(n, m)}

\* Where pmm_alloc_2mib_aligned finds room: the first block of free pages.
Rooms == {b \in Pages : /\ b % Block = 0 /\ b + Block <= total
                        /\ b .. b + Block - 1 \cap used = {}}
Room == IF free_pages < Block \/ Rooms = {} THEN {} ELSE {Page * Min(Rooms)}

\* Mutation: the pages given back are not counted.
GiveBack_Uncounted(u, n, s) == used' = u \ s /\ free_pages' = n

\* pmm_free_page of each page of s, from the bitmap u with n pages free.
GiveBack(u, n, s) ==
    used' = u \ s /\ free_pages' = n + Cardinality(s \cap u)

-----------------------------------------------------------------------------
(* Boot.                                                                   *)

\* mmu_init_identity: two tables of level 1 and two of level 2.  Without
\* them it returns with what it has, and main stops at its first access to
\* the higher half.
mmu_init_identity ==
    /\ boot = "boot"
    /\ kernel' = LowestFree(used, free_pages, 4)
    /\ used' = used \cup kernel' /\ free_pages' = free_pages - Cardinality(kernel')
    /\ boot' = IF Cardinality(kernel') = 4 THEN "mapped" ELSE "stopped"
    /\ UNCHANGED <<total, device, machine, reserved, children, stale, forked>>

\* fb_init_from_mailbox_ex reserves the framebuffer's pages and, on hardware
\* (quick is a build for the emulator), has its blocks mapped as device
\* memory.  Then main's self-test takes three pages and returns them; a page
\* it did not get it returns as page 0.
fb_init(quick) ==
    /\ boot = "mapped"
    /\ boot' = "up"
    /\ LET s == Covered(total, machine.fb) IN
       /\ reserved' = reserved \cup (s \ used)
       /\ GiveBack(used \cup s, free_pages - Cardinality(s \ used),
                   IF free_pages - Cardinality(s \ used) < 3 THEN {0} ELSE {})
    /\ device' = IF quick THEN {}
                 ELSE AlignDown(machine.fb[1], Block * Page) \div (Block * Page)
                      .. AlignUp(machine.fb[2], Block * Page) \div (Block * Page) - 1
    /\ UNCHANGED <<total, machine, kernel, children, stale, forked>>

-----------------------------------------------------------------------------
(* fork and reaping.                                                       *)

\* fork takes a block and mmu_ttbr0_create_with_user_pa three pages.
\* When the tables cannot be had the block is given back, and the pages
\* there were for them are not.
fork ==
    /\ boot = "up"
    /\ \/ /\ Room = {}
          /\ forked' = "EMFILE"
          /\ UNCHANGED <<used, free_pages, children, stale>>
       \/ \E pa \in Room :
            LET block  == PagesOf(pa)
                tables == LowestFree(used \cup block, free_pages - Block, 3)
                u      == used \cup block \cup tables
                n      == free_pages - Block - Cardinality(tables)
            IN  IF Cardinality(tables) = 3
                THEN /\ used' = u /\ free_pages' = n
                     /\ children' = children \cup {[pa |-> pa, tables |-> tables]}
                     /\ forked' = "ok" /\ stale' = stale
                ELSE /\ GiveBack(u, n, block)
                     /\ stale' = stale \cup tables
                     /\ forked' = "EMFILE" /\ children' = children
    /\ UNCHANGED <<total, device, boot, machine, reserved, kernel>>

\* A child is reaped, by wait4, exit or kill: its block is free again, its
\* tables are not.
Reap(c) ==
    /\ c \in children
    /\ children' = children \ {c}
    /\ GiveBack(used, free_pages, PagesOf(c.pa))
    /\ stale' = stale \cup c.tables
    /\ forked' = "none"
    /\ UNCHANGED <<total, device, boot, machine, reserved, kernel>>

MemNext ==
    \/ mmu_init_identity
    \/ \E quick \in BOOLEAN : fb_init(quick)
    \/ fork
    \/ \E c \in children : Reap(c)

MemSpec == MemInit /\ [][MemNext]_memVars

-----------------------------------------------------------------------------
(* Properties.                                                             *)

Owners ==
    {reserved, kernel, stale} \cup {PagesOf(c.pa) : c \in children}
                              \cup {c.tables : c \in children}

\* Every page has one owner or is free, and the free ones are counted, over
\* boot, the forks that fail half way and any order of reaping.
PagesAccounted ==
    /\ UNION Owners = used
    /\ \A s, t \in Owners : s # t => s \cap t = {}
    /\ \A c, d \in children :
          /\ c.tables # PagesOf(d.pa)
          /\ c # d => PagesOf(c.pa) # PagesOf(d.pa) /\ c.tables # d.tables
    /\ free_pages = Cardinality(Pages \ used)

\* A child's block is one block of RAM that is mapped as memory, not as a
\* device, and no table lies where a child's own memory hides the kernel's
\* view of it.
MemoryUsable ==
    \A c \in children :
        /\ c.pa % (Block * Page) = 0
        /\ c.pa \div (Block * Page) \notin device
        /\ (c.tables \cup kernel) \cap PagesOf(UserRegion) = {}

\* fork refuses only when no block, or no three pages besides it, are left.
ForkRefusesForCause ==
    forked = "EMFILE" => Rooms = {} \/ free_pages < Block + 3

MemorySound == PagesAccounted /\ MemoryUsable /\ ForkRefusesForCause
=============================================================================
