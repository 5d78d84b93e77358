------------------------------ MODULE ProcSched ------------------------------
(***************************************************************************)
(* The process table and the cooperative scheduler of kernel-aarch64:      *)
(* sys_clone, sys_wait4, exit, sys_kill, sys_nanosleep, console sys_read,  *)
(* and sched_pick_next_runnable / proc_switch_to.                          *)
(*                                                                         *)
(* One CPU.  The kernel runs with interrupts masked, so a system call      *)
(* handler is one atomic step.  A handler that ends in the scheduler       *)
(* leaves its continuation in kcont; each Pick step is then one pass of    *)
(* the loop of sched_pick_next_runnable, with time and UART input          *)
(* advancing between the passes.                                           *)
(*                                                                         *)
(* A field of proc_t is a function of the slot, under the field's name.    *)
(***************************************************************************)
EXTENDS Integers

CONSTANTS
    MaxProcs,     \* MAX_PROCS
    NBlocks,      \* 2 MiB blocks the physical memory manager can hand out
    NTables,      \* page-table sets it can hand out (they are never freed)
    RingCap,      \* bytes the console ring holds: CONSOLE_IN_RING_SIZE - 1
    UartCap,      \* bytes the UART receive FIFO holds
    MaxSleep,     \* longest nanosleep, in ticks
    MaxRead,      \* longest console read
    Codes,        \* arguments of exit()
    Sigs,         \* signals passed to kill()
    WstatusPtrs,  \* wstatus arguments of wait4: "null", "ok" and "bad"
    KillSelf      \* may a process pass its own pid to kill()?

ASSUME SizesAssumption ==
    /\ MaxProcs \in Nat \ {0}
    /\ NBlocks \in Nat
    /\ NTables \in Nat
    /\ RingCap \in Nat \ {0}
    /\ UartCap \in Nat \ {0}
    /\ MaxSleep \in Nat
    /\ MaxRead \in Nat

ASSUME InputsAssumption ==
    /\ Codes \subseteq Nat
    /\ Sigs \subseteq {0, 9, 15}
    /\ WstatusPtrs \subseteq {"null", "ok", "bad"}
    /\ KillSelf \in BOOLEAN

Slots == 0 .. MaxProcs - 1

\* Each clone takes a page-table set for good, so no later pid is handed out.
Pids == 1 .. NTables + 1

\* user_pa_base: 0 for none, Home for USER_REGION_BASE (init's region, never
\* freed), the others for blocks of pmm_alloc_2mib_aligned.
Home == 1
Blocks == 2 .. NBlocks + 1

States == {"UNUSED", "RUNNABLE", "WAITING", "SLEEPING", "BLOCKED_IO", "ZOMBIE"}

\* Who called sched_pick_next_runnable and will act on its answer.
Callers == {"yield", "wait", "exit", "selfkill", "sleep", "read"}

VARIABLES
    state, pid, ppid, exit_code, wait_target_pid, wait_status_user,
    user_pa_base, sleep_left, pending_read_len,
    g_cur_proc, g_last_sched, g_next_pid,
    free,         \* 2 MiB blocks the PMM holds
    tables,       \* page-table sets the PMM can still build
    ttbr0,        \* the user_pa_base the live translation tables map
    ring, uart,   \* bytes in the console ring and in the UART FIFO
    kcont,        \* "user", a member of Callers, "off" or "halt"
    wstatus,      \* per block: the status word of the process living there
    died,         \* history: per pid, the code it died with (-1: alive)
    report        \* history: per slot, the child its last wait4 reported with
                  \* a status (0: none)

waitVars == <<wait_target_pid, wait_status_user>>
memVars  == <<user_pa_base, free, tables>>
idVars   == <<pid, ppid, g_next_pid>>
histVars == <<wstatus, died, report>>
schedVars == <<g_cur_proc, g_last_sched, ttbr0>>
inVars   == <<ring, uart>>
vars == <<state, exit_code, sleep_left, pending_read_len, kcont,
          waitVars, memVars, idVars, histVars, schedVars, inVars>>

InUse(i) == state[i] # "UNUSED"

\* The element a scan of the process table from slot 0 stops at.
First(S, i) == i \in S /\ \A j \in S : i <= j

\* Mutation: the scan starts at slot 0 every time.
ScanDistance_FromZero(i) == i

\* How far the round-robin scan from g_last_sched + 1 goes to reach slot i.
ScanDistance(i) == (i - g_last_sched - 1 + MaxProcs) % MaxProcs

ScanFirst(S, i) == i \in S /\ \A j \in S : ScanDistance(i) <= ScanDistance(j)

AtMost(a, b) == IF a <= b THEN a ELSE b

\* The status word wait4 stores: a uint32, (code & 0xff) << 8.
WaitStatus(code) == (code % 256) * 256

-----------------------------------------------------------------------------
(* proc_init_if_needed: init runs in slot 0, in the identity mapping.      *)

Init ==
    /\ state = [i \in Slots |-> IF i = 0 THEN "RUNNABLE" ELSE "UNUSED"]
    /\ pid = [i \in Slots |-> IF i = 0 THEN 1 ELSE 0]
    /\ ppid = [i \in Slots |-> 0]
    /\ exit_code = [i \in Slots |-> 0]
    /\ wait_target_pid = [i \in Slots |-> 0]
    /\ wait_status_user = [i \in Slots |-> "null"]
    /\ user_pa_base = [i \in Slots |-> IF i = 0 THEN Home ELSE 0]
    /\ sleep_left = [i \in Slots |-> 0]
    /\ pending_read_len = [i \in Slots |-> 0]
    /\ g_cur_proc = 0
    /\ g_last_sched = 0
    /\ g_next_pid = 2
    /\ free = Blocks
    /\ tables = NTables
    /\ ttbr0 = Home
    /\ ring = 0
    /\ uart = 0
    /\ kcont = "user"
    /\ wstatus = [b \in {Home} \cup Blocks |-> 0]
    /\ died = [p \in Pids |-> -1]
    /\ report = [i \in Slots |-> 0]

-----------------------------------------------------------------------------
(* System calls.  The running process is in EL0 when kcont = "user".       *)

\* A call that changes nothing modelled here and returns (getpid, a refused
\* argument, ...): exception_handle stores the result and time-slices.
Return ==
    /\ kcont = "user"
    /\ kcont' = "yield"
    /\ report' = [report EXCEPT ![g_cur_proc] = 0]
    /\ UNCHANGED <<state, exit_code, sleep_left, pending_read_len, waitVars,
                   memVars, idVars, wstatus, died, schedVars, inVars>>

FreeSlots == {i \in Slots : ~InUse(i)}

\* proc_clear, for the fields other than state, pid, ppid, user_pa_base and
\* those of the wait, which the callers also set for another process.
ClearProc(c) ==
    /\ exit_code' = [exit_code EXCEPT ![c] = 0]
    /\ sleep_left' = [sleep_left EXCEPT ![c] = 0]
    /\ pending_read_len' = [pending_read_len EXCEPT ![c] = 0]

\* The child: a copy of the caller's image in a block of its own.
CloneInto(c, b) ==
    /\ First(FreeSlots, c)
    /\ First(free, b)
    /\ tables > 0
    /\ free' = free \ {b}
    /\ tables' = tables - 1
    /\ g_next_pid' = g_next_pid + 1
    /\ ClearProc(c)
    /\ state' = [state EXCEPT ![c] = "RUNNABLE"]
    /\ pid' = [pid EXCEPT ![c] = g_next_pid]
    /\ ppid' = [ppid EXCEPT ![c] = pid[g_cur_proc]]
    /\ user_pa_base' = [user_pa_base EXCEPT ![c] = b]
    /\ wait_target_pid' = [wait_target_pid EXCEPT ![c] = 0]
    /\ wait_status_user' = [wait_status_user EXCEPT ![c] = "null"]
    /\ wstatus' = [wstatus EXCEPT ![b] = wstatus[ttbr0]]
    /\ report' = [report EXCEPT ![g_cur_proc] = 0, ![c] = 0]
    /\ kcont' = "yield"
    /\ UNCHANGED <<died, schedVars, inVars>>

\* No slot, no block, or no page tables (the block is given back): EMFILE.
CloneRefused ==
    /\ FreeSlots = {} \/ free = {} \/ tables = 0
    /\ Return

sys_clone ==
    /\ kcont = "user"
    /\ \/ \E c \in Slots, b \in Blocks : CloneInto(c, b)
       \/ CloneRefused

\* Does a wait for pid `want` (0 or less: any child) accept child c?
Accepts(want, c) == want <= 0 \/ pid[c] = want

ZombieChildren(want) ==
    {c \in Slots : /\ state[c] = "ZOMBIE"
                   /\ ppid[c] = pid[g_cur_proc]
                   /\ Accepts(want, c)}

\* Mutation: any process counts as a child.
HasChild_AnyProcess == \E i \in Slots : InUse(i)

HasChild == \E i \in Slots : InUse(i) /\ ppid[i] = pid[g_cur_proc]

\* Mutation: the block is not given back.
FreeWithBlockOf_Leak(c) == free

\* The PMM's blocks once slot c gives its own back (init's is never freed).
FreeWithBlockOf(c) ==
    IF user_pa_base[c] \in {0, Home} THEN free ELSE free \cup {user_pa_base[c]}

ReapZombie(c, ptr) ==
    /\ wstatus' = IF ptr = "ok"
                  THEN [wstatus EXCEPT ![ttbr0] = WaitStatus(exit_code[c])]
                  ELSE wstatus
    /\ report' = [report EXCEPT ![c] = 0,
                                ![g_cur_proc] = IF ptr = "ok" THEN pid[c] ELSE 0]
    /\ free' = FreeWithBlockOf(c)
    /\ ClearProc(c)
    /\ state' = [state EXCEPT ![c] = "UNUSED"]
    /\ pid' = [pid EXCEPT ![c] = 0]
    /\ ppid' = [ppid EXCEPT ![c] = 0]
    /\ user_pa_base' = [user_pa_base EXCEPT ![c] = 0]
    /\ wait_target_pid' = [wait_target_pid EXCEPT ![c] = 0]
    /\ wait_status_user' = [wait_status_user EXCEPT ![c] = "null"]
    /\ kcont' = "yield"
    /\ UNCHANGED <<tables, g_next_pid, died, schedVars, inVars>>

BlockInWait(want, ptr) ==
    /\ state' = [state EXCEPT ![g_cur_proc] = "WAITING"]
    /\ wait_target_pid' = [wait_target_pid EXCEPT ![g_cur_proc] = want]
    /\ wait_status_user' = [wait_status_user EXCEPT ![g_cur_proc] = ptr]
    /\ report' = [report EXCEPT ![g_cur_proc] = 0]
    /\ kcont' = "wait"
    /\ UNCHANGED <<exit_code, sleep_left, pending_read_len, memVars, idVars,
                   wstatus, died, schedVars, inVars>>

\* A zombie that matches is reaped, unless the status pointer is bad (EFAULT:
\* it stays a zombie); ECHILD without any child; 0 under WNOHANG; else block.
sys_wait4(want, ptr, nohang) ==
    /\ kcont = "user"
    /\ \/ \E c \in Slots : /\ First(ZombieChildren(want), c)
                           /\ ptr # "bad"
                           /\ ReapZombie(c, ptr)
       \/ /\ ZombieChildren(want) # {} /\ ptr = "bad"
          /\ Return
       \/ /\ ZombieChildren(want) = {}
          /\ ~HasChild \/ nohang
          /\ Return
       \/ /\ ZombieChildren(want) = {}
          /\ HasChild /\ ~nohang
          /\ BlockInWait(want, ptr)

\* Mutation: "any child" is not recognised as a target.
WaiterFor_ExactPid(c) ==
    {i \in Slots \ {c} : /\ state[i] = "WAITING"
                         /\ pid[i] = ppid[c]
                         /\ wait_target_pid[i] = pid[c]}

\* The parent of c that is blocked in wait4, if its wait accepts c.
WaiterFor(c) ==
    LET parents == {i \in Slots \ {c} : state[i] = "WAITING" /\ pid[i] = ppid[c]}
    IN  {i \in parents : First(parents, i) /\ Accepts(wait_target_pid[i], c)}

\* c dies with nobody waiting for it.
BecomeZombie(c, code) ==
    /\ WaiterFor(c) = {}
    /\ state' = [state EXCEPT ![c] = "ZOMBIE"]
    /\ exit_code' = [exit_code EXCEPT ![c] = code]
    /\ report' = [report EXCEPT ![g_cur_proc] = 0, ![c] = 0]
    /\ UNCHANGED <<sleep_left, pending_read_len, waitVars, memVars, pid, ppid,
                   g_next_pid, wstatus>>

\* Mutation: the translation tables are left as they are.
WaiterSpace_NotSwitched(i) == ttbr0

\* The address space made live to deliver a status to the waiter i.
WaiterSpace(i) == user_pa_base[i]

\* c dies while process i waits for it: i gets the status, through its own
\* address space, and c's pid as the result; c is reaped on the spot.
HandToWaiter(c, code, i) ==
    /\ i \in WaiterFor(c)
    /\ wstatus' = IF wait_status_user[i] = "ok"
                  THEN [wstatus EXCEPT ![WaiterSpace(i)] = WaitStatus(code)]
                  ELSE wstatus
    /\ report' = [report EXCEPT
                    ![g_cur_proc] = 0, ![c] = 0,
                    ![i] = IF wait_status_user[i] = "ok" THEN pid[c] ELSE 0]
    /\ free' = FreeWithBlockOf(c)
    /\ ClearProc(c)
    /\ state' = [state EXCEPT ![i] = "RUNNABLE", ![c] = "UNUSED"]
    /\ pid' = [pid EXCEPT ![c] = 0]
    /\ ppid' = [ppid EXCEPT ![c] = 0]
    /\ user_pa_base' = [user_pa_base EXCEPT ![c] = 0]
    /\ wait_target_pid' = [wait_target_pid EXCEPT ![i] = 0, ![c] = 0]
    /\ wait_status_user' = [wait_status_user EXCEPT ![i] = "null", ![c] = "null"]
    /\ UNCHANGED <<tables, g_next_pid>>

\* handle_exit_and_maybe_switch up to the scheduler, for a slot other than 0.
\* The address space left live is the woken parent's, or the dead process's.
ExitCurrent(code, caller) ==
    /\ g_cur_proc # 0
    /\ \/ BecomeZombie(g_cur_proc, code) /\ ttbr0' = ttbr0
       \/ \E i \in Slots : /\ HandToWaiter(g_cur_proc, code, i)
                           /\ ttbr0' = WaiterSpace(i)
    /\ died' = [died EXCEPT ![pid[g_cur_proc]] = code]
    /\ kcont' = caller
    /\ UNCHANGED <<g_cur_proc, g_last_sched, inVars>>

kernel_poweroff ==
    /\ kcont' = "off"
    /\ UNCHANGED <<state, exit_code, sleep_left, pending_read_len, waitVars,
                   memVars, idVars, histVars, schedVars, inVars>>

sys_exit(code) ==
    /\ kcont = "user"
    /\ \/ ExitCurrent(code, "exit")
       \/ g_cur_proc = 0 /\ kernel_poweroff

\* Any process may power the machine off.
sys_reboot == kcont = "user" /\ kernel_poweroff

\* The slot proc_find_idx_by_pid finds, as a set of at most one.
SlotOf(p) ==
    LET hits == {i \in Slots : InUse(i) /\ pid[i] = p}
    IN  {i \in hits : First(hits, i)}

KillCode(sig) == 128 + sig

\* Another process is killed: as exit, but the caller's address space is
\* restored and the caller goes on.
KillOther(c, sig) ==
    /\ c # g_cur_proc
    /\ \/ BecomeZombie(c, KillCode(sig))
       \/ \E i \in Slots : HandToWaiter(c, KillCode(sig), i)
    /\ ttbr0' = user_pa_base[g_cur_proc]
    /\ died' = [died EXCEPT ![pid[c]] = KillCode(sig)]
    /\ kcont' = "yield"
    /\ UNCHANGED <<g_cur_proc, g_last_sched, inVars>>

\* Signal 0, an unknown pid and a zombie have no effect.
sys_kill(p, sig) ==
    /\ kcont = "user"
    /\ \/ /\ \/ sig = 0
             \/ SlotOf(p) = {}
             \/ \E c \in SlotOf(p) : state[c] = "ZOMBIE"
          /\ Return
       \/ /\ sig # 0
          /\ \E c \in SlotOf(p) :
                /\ state[c] # "ZOMBIE"
                /\ \/ KillOther(c, sig)
                   \/ /\ c = g_cur_proc /\ KillSelf
                      /\ \/ ExitCurrent(KillCode(sig), "selfkill")
                         \/ g_cur_proc = 0 /\ kernel_poweroff

sys_nanosleep(ticks) ==
    /\ kcont = "user"
    /\ state' = [state EXCEPT ![g_cur_proc] = "SLEEPING"]
    /\ sleep_left' = [sleep_left EXCEPT ![g_cur_proc] = ticks]
    /\ report' = [report EXCEPT ![g_cur_proc] = 0]
    /\ kcont' = "sleep"
    /\ UNCHANGED <<exit_code, pending_read_len, waitVars, memVars, idVars,
                   wstatus, died, schedVars, inVars>>

\* console_in_poll: the UART FIFO is drained into the ring; what does not fit
\* is dropped.
Polled == AtMost(ring + uart, RingCap)

\* What is left in the ring after a read of len bytes out of avail.
Drained(avail, len) == avail - AtMost(avail, len)

\* A read with input at hand takes it; otherwise it parks the process.
sys_read(len) ==
    /\ kcont = "user"
    /\ uart' = 0
    /\ report' = [report EXCEPT ![g_cur_proc] = 0]
    /\ \/ /\ Polled > 0
          /\ ring' = Drained(Polled, len)
          /\ kcont' = "yield"
          /\ UNCHANGED <<state, pending_read_len>>
       \/ /\ Polled = 0
          /\ ring' = 0
          /\ state' = [state EXCEPT ![g_cur_proc] = "BLOCKED_IO"]
          /\ pending_read_len' = [pending_read_len EXCEPT ![g_cur_proc] = len]
          /\ kcont' = "read"
    /\ UNCHANGED <<exit_code, sleep_left, waitVars, memVars, idVars, wstatus,
                   died, schedVars>>

-----------------------------------------------------------------------------
(* The scheduler.                                                          *)

\* Mutation: the deadline is tested with > against a clock that stops at it.
Woken_Strict ==
    [i \in Slots |-> IF state[i] = "SLEEPING" /\ sleep_left[i] < 0
                     THEN "RUNNABLE" ELSE state[i]]

\* sched_wake_sleepers: the states once every expired sleeper is runnable.
Woken ==
    [i \in Slots |-> IF state[i] = "SLEEPING" /\ sleep_left[i] = 0
                     THEN "RUNNABLE" ELSE state[i]]

\* Mutation: blocked readers are not looked at.
ReadersReady_None == {}

\* Console readers are served before runnable processes while input is there.
ReadersReady ==
    IF Polled = 0 THEN {}
    ELSE {i \in Slots : Woken[i] = "BLOCKED_IO" /\ pending_read_len[i] > 0}

Candidates ==
    IF ReadersReady # {} THEN ReadersReady
    ELSE {i \in Slots : Woken[i] = "RUNNABLE"}

\* Mutation: processes blocked on input are forgotten.
MustIdle_SleepersOnly == \E i \in Slots : Woken[i] = "SLEEPING"

\* Something will become runnable by itself: idle rather than give up.
MustIdle == \E i \in Slots : Woken[i] \in {"SLEEPING", "BLOCKED_IO"}

\* sched_complete_console_read_if_needed: the read of n is served, if it can.
PendingAfterSwitch(n) ==
    IF Polled = 0 THEN pending_read_len ELSE [pending_read_len EXCEPT ![n] = 0]

\* proc_switch_to, with the pending console read of n completed in n's
\* address space.  `from` is the table of states the scheduler leaves.
proc_switch_to(n, from) ==
    /\ g_cur_proc' = n
    /\ ttbr0' = user_pa_base[n]
    /\ kcont' = "user"
    /\ uart' = 0
    /\ state' = IF pending_read_len[n] > 0 /\ Polled = 0
                THEN [from EXCEPT ![n] = "BLOCKED_IO"] ELSE from
    /\ ring' = Drained(Polled, pending_read_len[n])
    /\ pending_read_len' = PendingAfterSwitch(n)
    /\ UNCHANGED <<exit_code, sleep_left, waitVars, memVars, idVars, histVars>>

\* What the caller does when the scheduler has no other process for it
\* (sched_pick_next_runnable gave -1, or the caller itself).  The last resort
\* of an exit, slot 0 if it is runnable, is never taken: the scan that came
\* back empty has just visited slot 0.
Resume(from) ==
    /\ uart' = 0
    /\ \/ /\ kcont = "yield"
          /\ kcont' = "user"
          /\ state' = from
          /\ ring' = Polled
          /\ UNCHANGED <<sleep_left, pending_read_len, waitVars>>
       \/ /\ kcont = "wait"                       \* EAGAIN
          /\ kcont' = "yield"
          /\ state' = [from EXCEPT ![g_cur_proc] = "RUNNABLE"]
          /\ wait_target_pid' = [wait_target_pid EXCEPT ![g_cur_proc] = 0]
          /\ wait_status_user' = [wait_status_user EXCEPT ![g_cur_proc] = "null"]
          /\ ring' = Polled
          /\ UNCHANGED <<sleep_left, pending_read_len>>
       \/ /\ kcont = "sleep"
          /\ kcont' = "yield"
          /\ state' = [from EXCEPT ![g_cur_proc] = "RUNNABLE"]
          /\ sleep_left' = [sleep_left EXCEPT ![g_cur_proc] = 0]
          /\ ring' = Polled
          /\ UNCHANGED <<pending_read_len, waitVars>>
       \/ /\ kcont = "read" /\ Polled > 0         \* retry_first_byte succeeds
          /\ kcont' = "yield"
          /\ state' = [from EXCEPT ![g_cur_proc] = "RUNNABLE"]
          /\ ring' = Drained(Polled, pending_read_len[g_cur_proc])
          /\ pending_read_len' = [pending_read_len EXCEPT ![g_cur_proc] = 0]
          /\ UNCHANGED <<sleep_left, waitVars>>
       \/ /\ kcont \in {"exit", "selfkill"}       \* nobody left to run
          /\ kcont' = IF kcont = "exit" THEN "halt" ELSE "yield"
          /\ state' = from
          /\ ring' = Polled
          /\ UNCHANGED <<sleep_left, pending_read_len, waitVars>>
    /\ UNCHANGED <<exit_code, memVars, idVars, histVars, g_cur_proc, ttbr0>>

\* The scheduler settles on n.
PickOne ==
    /\ kcont \in Callers
    /\ \E n \in Slots :
          /\ ScanFirst(Candidates, n)
          /\ g_last_sched' = n
          /\ \/ /\ n # g_cur_proc
                /\ proc_switch_to(n, [Woken EXCEPT ![n] = "RUNNABLE"])
             \/ /\ n = g_cur_proc
                /\ Resume([Woken EXCEPT ![n] = "RUNNABLE"])

\* Nothing can ever run by itself: -1.
PickNone ==
    /\ kcont \in Callers
    /\ Candidates = {} /\ ~MustIdle
    /\ UNCHANGED g_last_sched
    /\ Resume(Woken)

\* One turn of the idle loop (the wait for interrupt itself: module Idle).
PickIdle ==
    /\ kcont \in Callers
    /\ Candidates = {} /\ MustIdle
    /\ ring' = Polled
    /\ uart' = 0
    /\ UNCHANGED <<state, exit_code, sleep_left, pending_read_len, kcont,
                   waitVars, memVars, idVars, histVars, schedVars>>

-----------------------------------------------------------------------------
(* The environment: time, and a byte arriving at the UART.                 *)

Up == kcont \notin {"off", "halt"}

Tick ==
    /\ Up
    /\ \E i \in Slots : state[i] = "SLEEPING" /\ sleep_left[i] > 0
    /\ sleep_left' = [i \in Slots |->
                        IF state[i] = "SLEEPING" /\ sleep_left[i] > 0
                        THEN sleep_left[i] - 1 ELSE sleep_left[i]]
    /\ UNCHANGED <<state, exit_code, pending_read_len, kcont, waitVars,
                   memVars, idVars, histVars, schedVars, inVars>>

UartRx ==
    /\ Up
    /\ uart < UartCap
    /\ uart' = uart + 1
    /\ UNCHANGED <<state, exit_code, sleep_left, pending_read_len, kcont, ring,
                   waitVars, memVars, idVars, histVars, schedVars>>

\* Powered off, or parked by the exception path: nothing moves any more.
Stopped == ~Up /\ UNCHANGED vars

WaitCalls == \E want \in {0} \cup Pids, ptr \in WstatusPtrs, nohang \in BOOLEAN :
                sys_wait4(want, ptr, nohang)
KillCalls == \E p \in Pids, sig \in Sigs : sys_kill(p, sig)
ExitCalls == \E code \in Codes : sys_exit(code)
SleepCalls == \E ticks \in 1 .. MaxSleep : sys_nanosleep(ticks)
ReadCalls == \E len \in 1 .. MaxRead : sys_read(len)

Syscall == \/ Return
           \/ sys_clone
           \/ WaitCalls
           \/ KillCalls
           \/ ExitCalls
           \/ sys_reboot
           \/ SleepCalls
           \/ ReadCalls

Pick == PickOne \/ PickNone \/ PickIdle

Next == \/ Syscall
        \/ Pick
        \/ Tick
        \/ UartRx
        \/ Stopped

Spec == Init /\ [][Next]_vars

\* The kernel's own steps and the clock never stall.  A process that is let
\* run enters the kernel again: the kernel is cooperative, so this is an
\* assumption about programs.
Fairness == WF_vars(Syscall) /\ WF_vars(Pick) /\ WF_vars(Tick)

FairSpec == Spec /\ Fairness

-----------------------------------------------------------------------------
(* Properties.                                                             *)

\* Every field keeps its type; pids are handed out in step with page tables,
\* and neither the ring nor the FIFO overflows.
TypeOK ==
    /\ state \in [Slots -> States]
    /\ pid \in [Slots -> 0 .. NTables + 1]
    /\ ppid \in [Slots -> 0 .. NTables + 1]
    /\ exit_code \in [Slots -> Nat]
    /\ wait_target_pid \in [Slots -> 0 .. NTables + 1]
    /\ wait_status_user \in [Slots -> {"null", "ok", "bad"}]
    /\ user_pa_base \in [Slots -> {0, Home} \cup Blocks]
    /\ sleep_left \in [Slots -> 0 .. MaxSleep]
    /\ pending_read_len \in [Slots -> 0 .. MaxRead]
    /\ g_cur_proc \in Slots
    /\ g_last_sched \in Slots
    /\ g_next_pid = NTables + 2 - tables
    /\ free \subseteq Blocks
    /\ tables \in 0 .. NTables
    /\ ttbr0 \in {Home} \cup Blocks
    /\ ring \in 0 .. RingCap
    /\ uart \in 0 .. UartCap
    /\ kcont \in Callers \cup {"user", "off", "halt"}
    /\ wstatus \in [{Home} \cup Blocks -> Nat]
    /\ died \in [Pids -> Nat \cup {-1}]
    /\ report \in [Slots -> 0 .. NTables + 1]

\* Physical memory is conserved: every 2 MiB block is either free or backs
\* exactly one process that is not yet reaped, over fork, exit, kill and both
\* ways of reaping a child (sys_clone, sys_wait4, the two copies of the
\* wake-the-parent loop).
BlocksConserved ==
    /\ \A b \in Blocks : b \in free \/ \E i \in Slots : user_pa_base[i] = b
    /\ \A i \in Slots :
          /\ user_pa_base[i] # 0 <=> InUse(i)
          /\ user_pa_base[i] \notin free
    /\ \A i, j \in Slots :
          user_pa_base[i] = user_pa_base[j] => i = j \/ user_pa_base[i] = 0

\* The live translation tables never map memory that has been given back, not
\* even inside a handler that reaps the process it interrupted; and a process
\* in EL0 runs in its own memory (mmu_ttbr0_write in exit, kill and
\* proc_switch_to).
LiveAddressSpace ==
    /\ ttbr0 \notin free
    /\ kcont = "user" => ttbr0 = user_pa_base[g_cur_proc]

\* No wakeup is lost between exit and wait4: a parent blocked in wait4 has no
\* zombie child that its wait would accept, whichever of them ran first.
NoMissedExit ==
    \A i, c \in Slots :
        /\ state[i] = "WAITING"
        /\ state[c] = "ZOMBIE"
        /\ ppid[c] = pid[i]
        => ~Accepts(wait_target_pid[i], c)

\* A process blocked in wait4 for any child has a child that is still alive,
\* so that there is an exit that will wake it (sys_wait4's any_child test).
AnyWaiterHasLiveChild ==
    \A i \in Slots :
        state[i] = "WAITING" /\ wait_target_pid[i] = 0 =>
            \E c \in Slots \ {i} : /\ state[c] \notin {"UNUSED", "ZOMBIE"}
                                   /\ ppid[c] = pid[i]

\* Who is blocked in wait4 has not missed the exit it waits for and, when any
\* child will do, has one whose exit is to come.
WaitersSound == NoMissedExit /\ AnyWaiterHasLiveChild

\* "Block parent: it will be woken by child exit." (sys_wait4): whoever is
\* blocked in wait4 has a child whose exit will end the wait.
WaiterWillBeWoken ==
    \A i \in Slots :
        state[i] = "WAITING" =>
            \E c \in Slots \ {i} : /\ InUse(c) /\ ppid[c] = pid[i]
                                   /\ Accepts(wait_target_pid[i], c)

\* What wait4 reports is true: the child it names is dead and reaped, and the
\* status word in the caller's own memory is that child's exit code, whether
\* the status was collected by wait4 or delivered by exit or kill.
WaitReportsTruth ==
    \A i \in Slots :
        report[i] # 0 =>
            /\ died[report[i]] # -1
            /\ wstatus[user_pa_base[i]] = WaitStatus(died[report[i]])
            /\ \A c \in Slots : pid[c] # report[i]

\* Slot 0, whose exit powers the machine off, holds init for ever: no
\* sequence of kills and waits hands the slot to another process.
Slot0IsInit == pid[0] = 1 /\ user_pa_base[0] = Home

\* Only a runnable process executes in EL0, and with no read still pending:
\* whatever path led out of the kernel, the process had been made runnable.
OnlyRunnableRuns ==
    kcont = "user" => /\ state[g_cur_proc] = "RUNNABLE"
                      /\ pending_read_len[g_cur_proc] = 0

\* Pids identify processes and order the family tree: a slot has a pid exactly
\* while it is in use, no two slots share one, and a parent is older than its
\* children (g_next_pid, proc_clear).
PidsSound ==
    /\ \A i \in Slots : InUse(i) <=> pid[i] # 0
    /\ \A i \in Slots : InUse(i) => ppid[i] < pid[i] /\ pid[i] < g_next_pid
    /\ \A i, j \in Slots : pid[i] = pid[j] => i = j \/ pid[i] = 0
    /\ ppid[0] = 0

\* Whose memory the kernel can reach while it is in a scheduler call.
KernelSpaceSound ==
    /\ kcont \in {"user", "yield", "wait", "sleep", "read"} =>
          ttbr0 = user_pa_base[g_cur_proc]
    /\ kcont = "selfkill" =>
          \/ ttbr0 = user_pa_base[g_cur_proc]
          \/ \E i \in Slots : state[i] = "RUNNABLE"
    /\ kcont \in {"exit", "selfkill"} => state[g_cur_proc] \in {"ZOMBIE", "UNUSED"}

\* The history variables agree with the table.
HistorySound ==
    /\ \A p \in Pids : died[p] # -1 => p < g_next_pid
    /\ \A i \in Slots : state[i] = "ZOMBIE" => died[pid[i]] = exit_code[i]
    /\ \A i \in Slots : report[i] # 0 => InUse(i)

\* The inductive invariant behind the safety properties: the wake-ups, the
\* memory, the address space and the reported statuses only hold together.
Inductive ==
    /\ TypeOK
    /\ BlocksConserved
    /\ LiveAddressSpace
    /\ Slot0IsInit
    /\ PidsSound
    /\ KernelSpaceSound
    /\ HistorySound
    /\ NoMissedExit
    /\ AnyWaiterHasLiveChild
    /\ WaitReportsTruth

\* The scheduler gives up only when giving up is right: a machine parked by
\* an exit has no process that time or input could still make runnable.
HaltIsFinal ==
    kcont = "halt" =>
        \A i \in Slots : state[i] \in {"UNUSED", "ZOMBIE", "WAITING"}

\* A nanosleep ends: every sleeper becomes runnable again (or is killed),
\* also when it is the only process and the kernel idles.
SleepersWake ==
    \A i \in Slots : state[i] = "SLEEPING" ~> (state[i] # "SLEEPING" \/ ~Up)

\* The round robin starves nobody once the console is quiet: a runnable
\* process gets to run (or is killed).
RunnableRuns ==
    <>[](uart = 0) =>
        \A i \in Slots : state[i] = "RUNNABLE" ~>
            \/ kcont = "user" /\ g_cur_proc = i
            \/ state[i] # "RUNNABLE"
            \/ ~Up

\* Neither sleep nor the run queue keeps a process for ever.
NobodyStarves == SleepersWake /\ RunnableRuns

\* A byte typed while a process is blocked in a console read is consumed: the
\* ring does not keep input from a blocked reader for ever.
InputReachesReader ==
    (\E i \in Slots : state[i] = "BLOCKED_IO") /\ uart > 0
        ~> ((ring = 0 /\ uart = 0)
              \/ (\A i \in Slots : state[i] # "BLOCKED_IO") \/ ~Up)
=============================================================================
