--------------------------- MODULE ProcSchedProofs ---------------------------
(***************************************************************************)
(* Proofs about ProcSched, for every size of its tables and every set of   *)
(* inputs.                                                                 *)
(***************************************************************************)
EXTENDS ProcSched, TLAPS

\* The facts about the constant sets that the proofs need; the sets
\* themselves stay folded.
LEMMA SlotFacts == 0 \in Slots /\ Slots \subseteq Nat
  BY SizesAssumption DEF Slots

\* Init's region is none of the allocator's blocks.
LEMMA BlockFacts ==
    /\ Home \notin Blocks /\ 0 \notin Blocks /\ Home # 0
    /\ Home \in Nat /\ Blocks \subseteq Nat
  BY SizesAssumption DEF Home, Blocks

\* A pid is a number other than 0 up to the last one handed out.
LEMMA PidFacts == \A p : p \in Pids <=> p \in 0 .. NTables + 1 /\ p # 0
  BY SizesAssumption DEF Pids

\* A wait status is a number.
LEMMA StatusType == \A code \in Nat : WaitStatus(code) \in Nat
  BY DEF WaitStatus

\* proc_init_if_needed establishes the invariant.
LEMMA InitInductive == Init => Inductive
<1> SUFFICES ASSUME Init PROVE Inductive
    OBVIOUS
<1> USE SizesAssumption, SlotFacts, BlockFacts DEF Init
<1>1. TypeOK
  BY PidFacts DEF TypeOK, States, Callers
<1>2. BlocksConserved
  BY DEF BlocksConserved, InUse
<1>3. LiveAddressSpace
  BY DEF LiveAddressSpace
<1>4. Slot0IsInit /\ PidsSound
  BY DEF Slot0IsInit, PidsSound, InUse
<1>5. KernelSpaceSound /\ HistorySound
  BY DEF KernelSpaceSound, HistorySound
<1>6. NoMissedExit /\ AnyWaiterHasLiveChild /\ WaitReportsTruth
  BY DEF NoMissedExit, AnyWaiterHasLiveChild, WaitReportsTruth
<1> QED
  BY <1>1, <1>2, <1>3, <1>4, <1>5, <1>6 DEF Inductive

-----------------------------------------------------------------------------
(* System calls.                                                           *)

\* A call that changes nothing but the running process's history.
LEMMA ReturnInductive == Inductive /\ Return => Inductive'
<1> SUFFICES ASSUME Inductive, Return PROVE Inductive'
    OBVIOUS
<1> USE SizesAssumption, SlotFacts
    DEF Return, waitVars, memVars, idVars, schedVars, inVars
<1>0. TypeOK /\ kcont = "user"
  BY DEF Inductive
<1>1. TypeOK'
  BY <1>0 DEF TypeOK, Callers
<1>2. BlocksConserved' /\ LiveAddressSpace'
  BY <1>0 DEF Inductive, BlocksConserved, LiveAddressSpace, InUse
<1>3. Slot0IsInit' /\ PidsSound'
  BY <1>0 DEF Inductive, Slot0IsInit, PidsSound, InUse
<1>4. KernelSpaceSound' /\ HistorySound'
  BY <1>0 DEF Inductive, KernelSpaceSound, HistorySound, TypeOK, InUse
<1>5. NoMissedExit' /\ AnyWaiterHasLiveChild'
  BY <1>0 DEF Inductive, NoMissedExit, AnyWaiterHasLiveChild, Accepts
<1>6. WaitReportsTruth'
  BY <1>0 DEF Inductive, WaitReportsTruth, TypeOK
<1> QED
  BY <1>1, <1>2, <1>3, <1>4, <1>5, <1>6 DEF Inductive

\* A process in EL0 is in use and has memory of its own.
LEMMA CurrentInUse ==
    ASSUME Inductive, kcont \in {"user", "yield", "wait", "sleep", "read"}
    PROVE  /\ g_cur_proc \in Slots
           /\ InUse(g_cur_proc)
           /\ ttbr0 = user_pa_base[g_cur_proc]
           /\ pid[g_cur_proc] # 0
           /\ pid[g_cur_proc] \in Pids
           /\ pid[g_cur_proc] < g_next_pid
<1>1. g_cur_proc \in Slots /\ ttbr0 # 0
  BY BlockFacts DEF Inductive, TypeOK
<1>2. ttbr0 = user_pa_base[g_cur_proc]
  BY DEF Inductive, KernelSpaceSound
<1>3. InUse(g_cur_proc)
  BY <1>1, <1>2 DEF Inductive, BlocksConserved
<1>4. pid[g_cur_proc] # 0 /\ pid[g_cur_proc] < g_next_pid
  BY <1>1, <1>3 DEF Inductive, PidsSound
<1>5. pid[g_cur_proc] \in Pids
  BY <1>1, <1>4, PidFacts DEF Inductive, TypeOK
<1> QED
  BY <1>1, <1>2, <1>3, <1>4, <1>5

\* A fork: the child's slot was unused, its block free, its pid new.
LEMMA CloneInductive ==
    ASSUME Inductive, kcont = "user",
           NEW c \in Slots, NEW b \in Blocks, CloneInto(c, b)
    PROVE  Inductive'
<1> USE SlotFacts, BlockFacts DEF CloneInto, ClearProc, schedVars, inVars
<1>0. TypeOK /\ g_cur_proc \in Slots /\ InUse(g_cur_proc)
      /\ ttbr0 = user_pa_base[g_cur_proc] /\ pid[g_cur_proc] < g_next_pid
      /\ pid[g_cur_proc] # 0
  BY CurrentInUse DEF Inductive
<1>1. state[c] = "UNUSED" /\ c # g_cur_proc /\ b \in free
  BY <1>0 DEF First, FreeSlots, InUse
<1>2. user_pa_base[c] = 0 /\ pid[c] = 0 /\ c # 0
  BY <1>1 DEF Inductive, BlocksConserved, PidsSound, InUse, Slot0IsInit
<1>3. /\ tables - 1 \in 0 .. NTables
      /\ g_next_pid \in 0 .. NTables + 1
      /\ g_next_pid # 0
      /\ g_next_pid' = NTables + 2 - tables'
  BY <1>0, SizesAssumption DEF TypeOK
<1>4. TypeOK'
  BY <1>0, <1>1, <1>3, SizesAssumption DEF TypeOK, States, Callers
<1>5. BlocksConserved'
  BY <1>0, <1>1, <1>2 DEF Inductive, BlocksConserved, InUse, TypeOK
<1>6. LiveAddressSpace'
  BY <1>0, <1>1, <1>2 DEF Inductive, LiveAddressSpace, TypeOK
<1>7. Slot0IsInit'
  BY <1>0, <1>2 DEF Inductive, Slot0IsInit, TypeOK
<1>8. PidsSound'
  BY <1>0, <1>1, <1>2, <1>3 DEF Inductive, PidsSound, InUse, TypeOK
<1>9. KernelSpaceSound'
  BY <1>0, <1>1 DEF Inductive, KernelSpaceSound, TypeOK
<1>10. HistorySound'
  <2>1. \A p \in Pids : died'[p] # -1 => p < g_next_pid'
    BY <1>0, <1>3, PidFacts, SizesAssumption DEF Inductive, HistorySound, TypeOK
  <2>2. \A i \in Slots : state'[i] = "ZOMBIE" => died'[pid'[i]] = exit_code'[i]
    BY <1>0, <1>1 DEF Inductive, HistorySound, TypeOK
  <2>3. \A i \in Slots : report'[i] # 0 => InUse(i)'
    BY <1>0, <1>1 DEF Inductive, HistorySound, InUse, TypeOK
  <2> QED
    BY <2>1, <2>2, <2>3 DEF HistorySound
<1>11. NoMissedExit'
  BY <1>0, <1>1 DEF Inductive, NoMissedExit, Accepts, TypeOK
<1>12. AnyWaiterHasLiveChild'
  BY <1>0, <1>1 DEF Inductive, AnyWaiterHasLiveChild, TypeOK
<1>13. WaitReportsTruth'
  <2> SUFFICES ASSUME NEW i \in Slots, report'[i] # 0
               PROVE  /\ died[report[i]] # -1
                      /\ wstatus'[user_pa_base'[i]] = WaitStatus(died[report[i]])
                      /\ \A d \in Slots : pid'[d] # report[i]
    BY <1>0 DEF WaitReportsTruth, TypeOK
  <2>1. i # c /\ i # g_cur_proc /\ report[i] # 0 /\ report[i] \in Pids
    BY <1>0, <1>1, PidFacts DEF TypeOK
  <2>2. /\ died[report[i]] # -1
        /\ wstatus[user_pa_base[i]] = WaitStatus(died[report[i]])
        /\ \A d \in Slots : pid[d] # report[i]
    BY <2>1 DEF Inductive, WaitReportsTruth
  <2>3. user_pa_base'[i] = user_pa_base[i] /\ user_pa_base[i] # b
    BY <1>0, <1>1, <2>1 DEF Inductive, BlocksConserved, TypeOK
  <2>4. report[i] # g_next_pid
    BY <1>3, <2>1, <2>2 DEF Inductive, HistorySound
  <2> QED
    BY <1>0, <2>1, <2>2, <2>3, <2>4 DEF TypeOK
<1> QED
  BY <1>4, <1>5, <1>6, <1>7, <1>8, <1>9, <1>10, <1>11, <1>12, <1>13
  DEF Inductive

\* wait4 collects a zombie: the slot and the block of c are given back, c is
\* not the caller, and nobody else's memory or report is touched.
LEMMA ReapInductive ==
    ASSUME Inductive, kcont = "user",
           NEW want \in {0} \cup Pids, NEW ptr \in WstatusPtrs,
           NEW c \in Slots, c \in ZombieChildren(want), ReapZombie(c, ptr)
    PROVE  Inductive'
<1> USE SlotFacts, BlockFacts DEF ReapZombie, ClearProc, schedVars, inVars
<1>0. TypeOK /\ g_cur_proc \in Slots /\ InUse(g_cur_proc)
      /\ ttbr0 = user_pa_base[g_cur_proc] /\ pid[g_cur_proc] # 0
  BY CurrentInUse DEF Inductive
<1>1. state[c] = "ZOMBIE" /\ ppid[c] = pid[g_cur_proc] /\ InUse(c)
  BY DEF ZombieChildren, InUse
<1>2. /\ ppid[c] < pid[c] /\ pid[c] # 0 /\ pid[c] \in Pids
      /\ pid[c] \in 0 .. NTables + 1
      /\ died[pid[c]] = exit_code[c]
      /\ user_pa_base[c] # 0
      /\ user_pa_base[c] \notin free
      /\ exit_code[c] \in Nat
  BY <1>0, <1>1, PidFacts
  DEF Inductive, PidsSound, HistorySound, BlocksConserved, TypeOK
<1>3. c # g_cur_proc /\ c # 0
  BY <1>0, <1>1, <1>2, SizesAssumption DEF Inductive, TypeOK, PidsSound
<1>4. user_pa_base[c] \in Blocks /\ free' = free \cup {user_pa_base[c]}
  BY <1>0, <1>2, <1>3
  DEF FreeWithBlockOf, Inductive, TypeOK, Slot0IsInit, BlocksConserved
<1>5. TypeOK'
  <2>1. (wstatus \in [{Home} \cup Blocks -> Nat])'
    BY <1>0, <1>2, StatusType DEF TypeOK
  <2>2. (report \in [Slots -> 0 .. NTables + 1])'
    BY <1>0, <1>2, SizesAssumption DEF TypeOK
  <2>3. (/\ state \in [Slots -> States]
         /\ pid \in [Slots -> 0 .. NTables + 1]
         /\ ppid \in [Slots -> 0 .. NTables + 1]
         /\ exit_code \in [Slots -> Nat]
         /\ sleep_left \in [Slots -> 0 .. MaxSleep]
         /\ pending_read_len \in [Slots -> 0 .. MaxRead])'
    BY <1>0, SizesAssumption DEF TypeOK, States
  <2>4. (/\ wait_target_pid \in [Slots -> 0 .. NTables + 1]
         /\ wait_status_user \in [Slots -> {"null", "ok", "bad"}]
         /\ user_pa_base \in [Slots -> {0, Home} \cup Blocks])'
    BY <1>0, SizesAssumption DEF TypeOK
  <2>5. (free \subseteq Blocks /\ kcont \in Callers \cup {"user", "off", "halt"})'
    BY <1>0, <1>4 DEF TypeOK, Callers
  <2> QED
    BY <1>0, <2>1, <2>2, <2>3, <2>4, <2>5 DEF TypeOK
<1>6. BlocksConserved'
  BY <1>0, <1>2, <1>4 DEF Inductive, BlocksConserved, InUse, TypeOK
<1>7. LiveAddressSpace' /\ KernelSpaceSound'
  BY <1>0, <1>2, <1>3, <1>4
  DEF Inductive, LiveAddressSpace, KernelSpaceSound, BlocksConserved, TypeOK
<1>8. Slot0IsInit' /\ PidsSound'
  BY <1>0, <1>3 DEF Inductive, Slot0IsInit, PidsSound, InUse, TypeOK
<1>9. HistorySound'
  BY <1>0, <1>1, <1>3 DEF Inductive, HistorySound, InUse, TypeOK
<1>10. NoMissedExit' /\ AnyWaiterHasLiveChild'
  <2>1. NoMissedExit'
    BY <1>0 DEF Inductive, NoMissedExit, Accepts, TypeOK
  <2>2. AnyWaiterHasLiveChild'
    BY <1>0, <1>1 DEF Inductive, AnyWaiterHasLiveChild, TypeOK
  <2> QED BY <2>1, <2>2
<1>11. WaitReportsTruth'
  <2> SUFFICES ASSUME NEW i \in Slots, report'[i] # 0
               PROVE  /\ died[report'[i]] # -1
                      /\ wstatus'[user_pa_base'[i]] = WaitStatus(died[report'[i]])
                      /\ \A d \in Slots : pid'[d] # report'[i]
    BY <1>0 DEF WaitReportsTruth, TypeOK
  <2>1. i # c
    BY <1>0 DEF TypeOK
  <2>2. CASE i = g_cur_proc
    <3>1. ptr = "ok" /\ report'[i] = pid[c]
      BY <1>0, <1>3, <2>2 DEF TypeOK
    <3>2. wstatus'[user_pa_base'[i]] = WaitStatus(exit_code[c])
      BY <1>0, <1>3, <2>2, <3>1 DEF TypeOK
    <3>3. \A d \in Slots : pid'[d] # pid[c]
      BY <1>0, <1>2 DEF Inductive, PidsSound, TypeOK
    <3>4. died[pid[c]] = exit_code[c] /\ exit_code[c] # -1
      BY <1>2
    <3> QED
      BY <3>1, <3>2, <3>3, <3>4 DEF WaitReportsTruth
  <2>3. CASE i # g_cur_proc
    <3>1. report'[i] = report[i] /\ report[i] # 0
      BY <1>0, <2>1, <2>3 DEF TypeOK
    <3>2. user_pa_base'[i] = user_pa_base[i] /\ user_pa_base[i] # ttbr0
      BY <1>0, <2>1, <2>3, <3>1
      DEF Inductive, BlocksConserved, HistorySound, TypeOK
    <3>3. /\ died[report[i]] # -1
          /\ wstatus[user_pa_base[i]] = WaitStatus(died[report[i]])
          /\ \A d \in Slots : pid[d] # report[i]
      BY <3>1 DEF Inductive, WaitReportsTruth
    <3> QED
      BY <1>0, <3>1, <3>2, <3>3 DEF TypeOK
  <2> QED
    BY <2>2, <2>3
<1> QED
  BY <1>5, <1>6, <1>7, <1>8, <1>9, <1>10, <1>11 DEF Inductive

\* wait4 blocks: there is a child, and no zombie child it would accept.
LEMMA BlockInWaitInductive ==
    ASSUME Inductive, kcont = "user",
           NEW want \in {0} \cup Pids, NEW ptr \in WstatusPtrs,
           ZombieChildren(want) = {}, HasChild, BlockInWait(want, ptr)
    PROVE  Inductive'
<1> USE SlotFacts DEF BlockInWait, memVars, idVars, schedVars, inVars
<1>0. TypeOK /\ g_cur_proc \in Slots /\ InUse(g_cur_proc)
      /\ ttbr0 = user_pa_base[g_cur_proc] /\ pid[g_cur_proc] # 0
  BY CurrentInUse DEF Inductive
<1>1. TypeOK'
  <2>1. (wait_target_pid \in [Slots -> 0 .. NTables + 1])'
    BY <1>0, PidFacts, SizesAssumption DEF TypeOK
  <2>2. (wait_status_user \in [Slots -> {"null", "ok", "bad"}])'
    BY <1>0, InputsAssumption DEF TypeOK
  <2> QED
    BY <1>0, <2>1, <2>2, SizesAssumption DEF TypeOK, States, Callers
<1>2. BlocksConserved' /\ LiveAddressSpace' /\ KernelSpaceSound'
  BY <1>0 DEF Inductive, BlocksConserved, LiveAddressSpace, KernelSpaceSound,
              InUse, TypeOK
<1>3. Slot0IsInit' /\ PidsSound'
  BY <1>0 DEF Inductive, Slot0IsInit, PidsSound, InUse, TypeOK
<1>4. HistorySound'
  BY <1>0 DEF Inductive, HistorySound, InUse, TypeOK
<1>5. NoMissedExit'
  BY <1>0 DEF Inductive, NoMissedExit, ZombieChildren, Accepts, TypeOK
<1>6. AnyWaiterHasLiveChild'
  <2> SUFFICES ASSUME NEW i \in Slots, state'[i] = "WAITING",
                      wait_target_pid'[i] = 0
               PROVE  \E c \in Slots \ {i} :
                         /\ state'[c] \notin {"UNUSED", "ZOMBIE"}
                         /\ ppid[c] = pid[i]
    BY DEF AnyWaiterHasLiveChild
  <2>1. CASE i = g_cur_proc
    <3>1. PICK c \in Slots : InUse(c) /\ ppid[c] = pid[g_cur_proc]
      BY DEF HasChild
    <3>2. want = 0
      BY <1>0, <2>1 DEF TypeOK
    <3>3. state[c] # "ZOMBIE"
      BY <3>1, <3>2 DEF ZombieChildren, Accepts
    <3>4. c # g_cur_proc
      BY <3>1, <1>0 DEF Inductive, PidsSound, TypeOK
    <3> QED
      BY <1>0, <2>1, <3>1, <3>3, <3>4 DEF InUse, TypeOK
  <2>2. CASE i # g_cur_proc
    <3>1. PICK c \in Slots \ {i} : /\ state[c] \notin {"UNUSED", "ZOMBIE"}
                                   /\ ppid[c] = pid[i]
      BY <1>0, <2>2 DEF Inductive, AnyWaiterHasLiveChild, TypeOK
    <3> QED
      BY <1>0, <3>1 DEF TypeOK
  <2> QED
    BY <2>1, <2>2
<1>7. WaitReportsTruth'
  BY <1>0 DEF Inductive, WaitReportsTruth, TypeOK
<1> QED
  BY <1>1, <1>2, <1>3, <1>4, <1>5, <1>6, <1>7 DEF Inductive

-----------------------------------------------------------------------------
(* Death of a process c, in exit and in kill.  The parts of the invariant   *)
(* that do not speak of the address space are shared by the two.            *)

\* The parent that waits for c is the one the wake-up loop stops at: pids are
\* unique, so the first waiting process with the right pid is the only one.
LEMMA WaiterIsFound ==
    ASSUME Inductive, NEW c \in Slots, NEW i \in Slots,
           i # c, state[i] = "WAITING", pid[i] = ppid[c],
           Accepts(wait_target_pid[i], c)
    PROVE  i \in WaiterFor(c)
<1>1. pid[i] # 0
  BY DEF Inductive, PidsSound, InUse
<1>2. \A j \in Slots : pid[j] = ppid[c] => j = i
  BY <1>1 DEF Inductive, PidsSound
<1>3. i <= i
  BY SlotFacts
<1> QED
  BY <1>2, <1>3 DEF WaiterFor, First

\* The parts of Inductive that a death preserves whatever happens to ttbr0.
TableSound ==
    /\ BlocksConserved
    /\ Slot0IsInit
    /\ PidsSound
    /\ HistorySound
    /\ NoMissedExit
    /\ AnyWaiterHasLiveChild
    /\ WaitReportsTruth

\* A process that dies unawaited leaves the table sound.
LEMMA ZombieTableSound ==
    ASSUME Inductive, g_cur_proc \in Slots,
           NEW c \in Slots, NEW code \in Nat, InUse(c), BecomeZombie(c, code),
           died' = [died EXCEPT ![pid[c]] = code]
    PROVE  TableSound'
<1> USE SlotFacts DEF BecomeZombie, waitVars, memVars
<1>0. TypeOK /\ pid[c] # 0 /\ pid[c] \in Pids /\ pid[c] < g_next_pid /\ code # -1
  BY PidFacts DEF Inductive, PidsSound, TypeOK
<1>1. BlocksConserved' /\ Slot0IsInit' /\ PidsSound'
  BY <1>0 DEF Inductive, BlocksConserved, Slot0IsInit, PidsSound, InUse, TypeOK
<1>2. HistorySound'
  <2>1. \A p \in Pids : died'[p] # -1 => p < g_next_pid'
    BY <1>0 DEF Inductive, HistorySound, TypeOK
  <2>2. \A i \in Slots : state'[i] = "ZOMBIE" => died'[pid'[i]] = exit_code'[i]
    <3> SUFFICES ASSUME NEW i \in Slots, state'[i] = "ZOMBIE"
                 PROVE  died'[pid[i]] = exit_code'[i]
      OBVIOUS
    <3>1. CASE i = c
      BY <1>0, <3>1 DEF TypeOK
    <3>2. CASE i # c
      <4>1. state[i] = "ZOMBIE" /\ pid[i] # 0 /\ pid[i] # pid[c]
        BY <1>0, <3>2 DEF Inductive, PidsSound, InUse, TypeOK
      <4> QED
        BY <1>0, <3>2, <4>1 DEF Inductive, HistorySound, TypeOK
    <3> QED
      BY <3>1, <3>2
  <2>3. \A i \in Slots : report'[i] # 0 => InUse(i)'
    BY <1>0 DEF Inductive, HistorySound, InUse, TypeOK
  <2> QED
    BY <2>1, <2>2, <2>3 DEF HistorySound
<1>3. NoMissedExit'
  <2> SUFFICES ASSUME NEW i \in Slots, NEW d \in Slots, state'[i] = "WAITING",
                      state'[d] = "ZOMBIE", ppid[d] = pid[i]
               PROVE  ~Accepts(wait_target_pid[i], d)
    BY DEF NoMissedExit, Accepts
  <2>1. i # c /\ state[i] = "WAITING"
    BY <1>0 DEF TypeOK
  <2>2. CASE d = c
    BY <2>1, <2>2, WaiterIsFound
  <2>3. CASE d # c
    BY <1>0, <2>1, <2>3 DEF Inductive, NoMissedExit, TypeOK
  <2> QED
    BY <2>2, <2>3
<1>4. AnyWaiterHasLiveChild'
  <2> SUFFICES ASSUME NEW i \in Slots, state'[i] = "WAITING",
                      wait_target_pid[i] = 0
               PROVE  \E d \in Slots \ {i} :
                         /\ state'[d] \notin {"UNUSED", "ZOMBIE"}
                         /\ ppid[d] = pid[i]
    BY DEF AnyWaiterHasLiveChild
  <2>1. i # c /\ state[i] = "WAITING"
    BY <1>0 DEF TypeOK
  <2>2. PICK d \in Slots \ {i} : /\ state[d] \notin {"UNUSED", "ZOMBIE"}
                                 /\ ppid[d] = pid[i]
    BY <2>1 DEF Inductive, AnyWaiterHasLiveChild
  <2>3. d # c
    BY <2>1, <2>2, WaiterIsFound DEF Accepts
  <2> QED
    BY <1>0, <2>2, <2>3 DEF TypeOK
<1>5. WaitReportsTruth'
  BY <1>0 DEF Inductive, WaitReportsTruth, TypeOK
<1> QED
  BY <1>1, <1>2, <1>3, <1>4, <1>5 DEF TableSound

\* A process that dies awaited, and is reaped at once, leaves it sound.
LEMMA HandToWaiterTableSound ==
    ASSUME Inductive, g_cur_proc \in Slots,
           NEW c \in Slots, NEW code \in Nat, InUse(c),
           NEW i \in Slots, HandToWaiter(c, code, i),
           died' = [died EXCEPT ![pid[c]] = code]
    PROVE  /\ TableSound'
           /\ user_pa_base[c] \in Blocks
           /\ free' = free \cup {user_pa_base[c]}
           /\ i # c
           /\ user_pa_base[i] # user_pa_base[c]
           /\ user_pa_base[i] \in {Home} \cup Blocks
           /\ user_pa_base[i] \notin free
           /\ state'[i] = "RUNNABLE"
<1> USE SlotFacts, BlockFacts DEF HandToWaiter, ClearProc, WaiterSpace
<1>0. TypeOK /\ pid[c] # 0 /\ pid[c] \in Pids /\ pid[c] < g_next_pid /\ code # -1
  BY PidFacts DEF Inductive, PidsSound, TypeOK
<1>1. i # c /\ state[i] = "WAITING" /\ pid[i] = ppid[c] /\ InUse(i)
  BY DEF WaiterFor, InUse
<1>2. pid[i] # 0 /\ user_pa_base[i] # 0 /\ user_pa_base[c] # 0 /\ c # 0
  BY <1>1 DEF Inductive, PidsSound, BlocksConserved
<1>3. user_pa_base[c] \in Blocks /\ free' = free \cup {user_pa_base[c]}
  BY <1>0, <1>2
  DEF FreeWithBlockOf, Inductive, TypeOK, Slot0IsInit, BlocksConserved
<1>4. /\ user_pa_base[i] # user_pa_base[c]
      /\ user_pa_base[i] \in {Home} \cup Blocks
      /\ user_pa_base[i] \notin free
      /\ user_pa_base[c] \notin free
  BY <1>0, <1>1, <1>2 DEF Inductive, BlocksConserved, TypeOK
<1>5. state'[i] = "RUNNABLE"
  BY <1>0, <1>1 DEF TypeOK
<1>6. BlocksConserved'
  BY <1>0, <1>1, <1>3, <1>4 DEF Inductive, BlocksConserved, InUse, TypeOK
<1>7. Slot0IsInit' /\ PidsSound'
  BY <1>0, <1>1, <1>2 DEF Inductive, Slot0IsInit, PidsSound, InUse, TypeOK
<1>8. HistorySound'
  <2>1. \A p \in Pids : died'[p] # -1 => p < g_next_pid'
    BY <1>0 DEF Inductive, HistorySound, TypeOK
  <2>2. \A j \in Slots : state'[j] = "ZOMBIE" => died'[pid'[j]] = exit_code'[j]
    <3> SUFFICES ASSUME NEW j \in Slots, state'[j] = "ZOMBIE"
                 PROVE  died'[pid'[j]] = exit_code'[j]
      OBVIOUS
    <3>1. j # c /\ j # i /\ state[j] = "ZOMBIE"
      BY <1>0, <1>1 DEF TypeOK
    <3>2. pid'[j] = pid[j] /\ exit_code'[j] = exit_code[j]
      BY <1>0, <3>1 DEF TypeOK
    <3>3. pid[j] # 0 /\ pid[j] # pid[c]
      BY <3>1, <1>0 DEF Inductive, PidsSound, InUse
    <3> QED
      BY <1>0, <3>1, <3>2, <3>3 DEF Inductive, HistorySound, TypeOK
  <2>3. \A j \in Slots : report'[j] # 0 => InUse(j)'
    BY <1>0, <1>1 DEF Inductive, HistorySound, InUse, TypeOK
  <2> QED
    BY <2>1, <2>2, <2>3 DEF HistorySound
<1>9. NoMissedExit'
  BY <1>0, <1>1 DEF Inductive, NoMissedExit, Accepts, TypeOK
<1>10. AnyWaiterHasLiveChild'
  <2> SUFFICES ASSUME NEW j \in Slots, state'[j] = "WAITING",
                      wait_target_pid'[j] = 0
               PROVE  \E d \in Slots \ {j} :
                         /\ state'[d] \notin {"UNUSED", "ZOMBIE"}
                         /\ ppid'[d] = pid'[j]
    BY DEF AnyWaiterHasLiveChild
  <2>1. j # c /\ j # i /\ state[j] = "WAITING" /\ wait_target_pid[j] = 0
    BY <1>0, <1>1 DEF TypeOK
  <2>2. PICK d \in Slots \ {j} : /\ state[d] \notin {"UNUSED", "ZOMBIE"}
                                 /\ ppid[d] = pid[j]
    BY <2>1 DEF Inductive, AnyWaiterHasLiveChild
  <2>3. d # c
    BY <1>1, <1>2, <2>1, <2>2 DEF Inductive, PidsSound
  <2>4. state'[d] \notin {"UNUSED", "ZOMBIE"}
    BY <1>0, <2>2, <2>3 DEF TypeOK
  <2>5. ppid'[d] = pid'[j]
    BY <1>0, <2>1, <2>2, <2>3 DEF TypeOK
  <2> QED
    BY <2>2, <2>4, <2>5
<1>11. WaitReportsTruth'
  <2> SUFFICES ASSUME NEW j \in Slots, report'[j] # 0
               PROVE  /\ died'[report'[j]] # -1
                      /\ wstatus'[user_pa_base'[j]] = WaitStatus(died'[report'[j]])
                      /\ \A d \in Slots : pid'[d] # report'[j]
    BY DEF WaitReportsTruth
  <2>1. j # c /\ user_pa_base'[j] = user_pa_base[j]
    BY <1>0, <1>1 DEF TypeOK
  <2>2. CASE j = i
    <3>1. wait_status_user[i] = "ok" /\ report'[j] = pid[c]
      BY <1>0, <1>1, <2>2 DEF TypeOK
    <3>2. wstatus'[user_pa_base'[j]] = WaitStatus(code)
      BY <1>0, <1>4, <2>1, <2>2, <3>1 DEF TypeOK
    <3>3. \A d \in Slots : pid'[d] # pid[c]
      BY <1>0 DEF Inductive, PidsSound, TypeOK
    <3>4. died'[pid[c]] = code
      BY <1>0 DEF TypeOK
    <3> QED
      BY <1>0, <3>1, <3>2, <3>3, <3>4
  <2>3. CASE j # i
    <3>1. report'[j] = report[j] /\ report[j] # 0 /\ report[j] \in Pids
      BY <1>0, <2>1, <2>3, PidFacts DEF TypeOK
    <3>2. user_pa_base[j] # user_pa_base[i]
      BY <1>2, <2>3 DEF Inductive, BlocksConserved
    <3>3. /\ died[report[j]] # -1
          /\ wstatus[user_pa_base[j]] = WaitStatus(died[report[j]])
          /\ \A d \in Slots : pid[d] # report[j]
      BY <3>1 DEF Inductive, WaitReportsTruth
    <3>4. died'[report[j]] = died[report[j]]
      BY <1>0, <3>1, <3>3 DEF TypeOK
    <3>5. wstatus'[user_pa_base[j]] = wstatus[user_pa_base[j]]
      BY <1>0, <1>4, <3>2 DEF TypeOK
    <3>6. \A d \in Slots : pid'[d] # report[j]
      BY <1>0, <3>1, <3>3 DEF TypeOK
    <3> QED
      BY <2>1, <3>1, <3>3, <3>4, <3>5, <3>6
  <2> QED
    BY <2>2, <2>3
<1> QED
  BY <1>1, <1>3, <1>4, <1>5, <1>6, <1>7, <1>8, <1>9, <1>10, <1>11
  DEF TableSound

\* The types of what a death changes.
LEMMA DeathTypes ==
    ASSUME TypeOK, NEW c \in Slots, NEW code \in Nat, NEW i \in Slots,
           BecomeZombie(c, code) \/ HandToWaiter(c, code, i)
    PROVE  (/\ state \in [Slots -> States]
            /\ pid \in [Slots -> 0 .. NTables + 1]
            /\ ppid \in [Slots -> 0 .. NTables + 1]
            /\ exit_code \in [Slots -> Nat]
            /\ wait_target_pid \in [Slots -> 0 .. NTables + 1]
            /\ wait_status_user \in [Slots -> {"null", "ok", "bad"}]
            /\ user_pa_base \in [Slots -> {0, Home} \cup Blocks]
            /\ sleep_left \in [Slots -> 0 .. MaxSleep]
            /\ pending_read_len \in [Slots -> 0 .. MaxRead]
            /\ free \subseteq Blocks
            /\ tables \in 0 .. NTables
            /\ g_next_pid = NTables + 2 - tables
            /\ wstatus \in [{Home} \cup Blocks -> Nat]
            /\ report \in [Slots -> 0 .. NTables + 1])'
<1>1. CASE BecomeZombie(c, code)
  BY <1>1, SizesAssumption DEF BecomeZombie, waitVars, memVars, TypeOK, States
<1>2. CASE HandToWaiter(c, code, i)
  <2> USE <1>2, SizesAssumption DEF HandToWaiter, ClearProc
  <2>1. (/\ state \in [Slots -> States]
         /\ pid \in [Slots -> 0 .. NTables + 1]
         /\ ppid \in [Slots -> 0 .. NTables + 1]
         /\ exit_code \in [Slots -> Nat]
         /\ sleep_left \in [Slots -> 0 .. MaxSleep]
         /\ pending_read_len \in [Slots -> 0 .. MaxRead])'
    BY DEF TypeOK, States
  <2>2. (/\ wait_target_pid \in [Slots -> 0 .. NTables + 1]
         /\ wait_status_user \in [Slots -> {"null", "ok", "bad"}]
         /\ user_pa_base \in [Slots -> {0, Home} \cup Blocks])'
    BY DEF TypeOK
  <2>3. (/\ free \subseteq Blocks
         /\ tables \in 0 .. NTables
         /\ g_next_pid = NTables + 2 - tables)'
    BY DEF TypeOK, FreeWithBlockOf
  <2>4. (wstatus \in [{Home} \cup Blocks -> Nat])'
    BY StatusType DEF TypeOK
  <2>5. (report \in [Slots -> 0 .. NTables + 1])'
    BY DEF TypeOK
  <2> QED
    BY <2>1, <2>2, <2>3, <2>4, <2>5
<1> QED
  BY <1>1, <1>2

\* The running process dies, by exit or by its own kill.
LEMMA ExitInductive ==
    ASSUME Inductive, kcont = "user", NEW code \in Nat,
           NEW caller \in {"exit", "selfkill"}, ExitCurrent(code, caller)
    PROVE  Inductive'
<1> DEFINE c == g_cur_proc
<1>0. TypeOK /\ c \in Slots /\ InUse(c) /\ ttbr0 = user_pa_base[c]
      /\ pid[c] \in Pids
  BY CurrentInUse DEF Inductive
<1>1. /\ died' = [died EXCEPT ![pid[c]] = code]
      /\ kcont' = caller
      /\ UNCHANGED <<g_cur_proc, g_last_sched, ring, uart>>
  BY DEF ExitCurrent, inVars
<1>2. died' \in [Pids -> Nat \cup {-1}]
  BY <1>0, <1>1 DEF TypeOK
<1>3. CASE BecomeZombie(c, code) /\ ttbr0' = ttbr0
  <2>1. TableSound'
    BY <1>0, <1>1, <1>3, ZombieTableSound
  <2>2. TypeOK'
    BY <1>0, <1>1, <1>2, <1>3, DeathTypes DEF TypeOK, Callers
  <2>3. /\ user_pa_base' = user_pa_base /\ free' = free
        /\ state'[c] = "ZOMBIE"
    BY <1>0, <1>3 DEF BecomeZombie, memVars, TypeOK
  <2>4. LiveAddressSpace' /\ KernelSpaceSound'
    BY <1>0, <1>1, <1>3, <2>3 DEF Inductive, LiveAddressSpace, KernelSpaceSound
  <2> QED
    BY <2>1, <2>2, <2>4 DEF Inductive, TableSound
<1>4. CASE \E i \in Slots : HandToWaiter(c, code, i) /\ ttbr0' = WaiterSpace(i)
  <2>1. PICK i \in Slots : HandToWaiter(c, code, i) /\ ttbr0' = WaiterSpace(i)
    BY <1>4
  <2>2. /\ TableSound'
        /\ free' = free \cup {user_pa_base[c]}
        /\ user_pa_base[i] # user_pa_base[c]
        /\ user_pa_base[i] \in {Home} \cup Blocks
        /\ user_pa_base[i] \notin free
        /\ state'[i] = "RUNNABLE"
    BY <1>0, <1>1, <2>1, HandToWaiterTableSound
  <2>3. TypeOK'
    BY <1>0, <1>1, <1>2, <2>1, <2>2, DeathTypes
    DEF TypeOK, Callers, WaiterSpace
  <2>4. state'[c] = "UNUSED"
    BY <1>0, <2>1 DEF HandToWaiter, TypeOK
  <2>5. LiveAddressSpace' /\ KernelSpaceSound'
    BY <1>0, <1>1, <2>1, <2>2, <2>4
    DEF LiveAddressSpace, KernelSpaceSound, WaiterSpace
  <2> QED
    BY <2>2, <2>3, <2>5 DEF Inductive, TableSound
<1> QED
  BY <1>3, <1>4 DEF ExitCurrent

\* Another process is killed; the caller's own address space is put back.
LEMMA KillOtherInductive ==
    ASSUME Inductive, kcont = "user", NEW sig \in Sigs,
           NEW c \in Slots, InUse(c), KillOther(c, sig)
    PROVE  Inductive'
<1>0. /\ TypeOK /\ g_cur_proc \in Slots /\ InUse(g_cur_proc)
      /\ ttbr0 = user_pa_base[g_cur_proc]
      /\ ttbr0 \in {Home} \cup Blocks
      /\ pid[c] \in Pids
      /\ KillCode(sig) \in Nat
  BY CurrentInUse, PidFacts, InputsAssumption
  DEF Inductive, PidsSound, TypeOK, KillCode
<1>1. /\ died' = [died EXCEPT ![pid[c]] = KillCode(sig)]
      /\ kcont' = "yield"
      /\ ttbr0' = user_pa_base[g_cur_proc]
      /\ c # g_cur_proc
      /\ UNCHANGED <<g_cur_proc, g_last_sched, ring, uart>>
  BY DEF KillOther, inVars
<1>2. died' \in [Pids -> Nat \cup {-1}]
  BY <1>0, <1>1 DEF TypeOK
<1>3. CASE BecomeZombie(c, KillCode(sig))
  <2>1. TableSound'
    BY <1>0, <1>1, <1>3, ZombieTableSound
  <2>2. TypeOK'
    BY <1>0, <1>1, <1>2, <1>3, DeathTypes DEF TypeOK, Callers
  <2>3. user_pa_base' = user_pa_base /\ free' = free
    BY <1>3 DEF BecomeZombie, memVars
  <2>4. LiveAddressSpace' /\ KernelSpaceSound'
    BY <1>0, <1>1, <2>3 DEF Inductive, LiveAddressSpace, KernelSpaceSound
  <2> QED
    BY <2>1, <2>2, <2>4 DEF Inductive, TableSound
<1>4. CASE \E i \in Slots : HandToWaiter(c, KillCode(sig), i)
  <2>1. PICK i \in Slots : HandToWaiter(c, KillCode(sig), i)
    BY <1>4
  <2>2. /\ TableSound'
        /\ free' = free \cup {user_pa_base[c]}
        /\ user_pa_base[c] \in Blocks
    BY <1>0, <1>1, <2>1, HandToWaiterTableSound
  <2>3. TypeOK'
    BY <1>0, <1>1, <1>2, <2>1, DeathTypes DEF TypeOK, Callers
  <2>4. user_pa_base'[g_cur_proc] = user_pa_base[g_cur_proc]
    BY <1>0, <1>1, <2>1 DEF HandToWaiter, TypeOK
  <2>5. ttbr0 # user_pa_base[c]
    BY <1>0, <1>1, <2>2, BlockFacts DEF Inductive, BlocksConserved
  <2>6. LiveAddressSpace' /\ KernelSpaceSound'
    BY <1>0, <1>1, <2>2, <2>4, <2>5
    DEF Inductive, LiveAddressSpace, KernelSpaceSound
  <2> QED
    BY <2>2, <2>3, <2>6 DEF Inductive, TableSound
<1> QED
  BY <1>3, <1>4 DEF KillOther

\* The machine is switched off.
LEMMA PowerOffInductive == Inductive /\ kernel_poweroff => Inductive'
<1> SUFFICES ASSUME Inductive, kernel_poweroff PROVE Inductive'
    OBVIOUS
<1> USE DEF kernel_poweroff, waitVars, memVars, idVars, histVars, schedVars, inVars
<1>1. TypeOK'
  BY DEF Inductive, TypeOK, Callers
<1>2. BlocksConserved' /\ LiveAddressSpace' /\ KernelSpaceSound'
  BY DEF Inductive, BlocksConserved, LiveAddressSpace, KernelSpaceSound, InUse
<1>3. Slot0IsInit' /\ PidsSound' /\ HistorySound'
  BY DEF Inductive, Slot0IsInit, PidsSound, HistorySound, InUse
<1>4. NoMissedExit' /\ AnyWaiterHasLiveChild' /\ WaitReportsTruth'
  BY DEF Inductive, NoMissedExit, AnyWaiterHasLiveChild, WaitReportsTruth, Accepts
<1> QED
  BY <1>1, <1>2, <1>3, <1>4 DEF Inductive

\* A step that touches only the running state of processes: states move
\* among the live ones, input is consumed, and nothing else changes.  This
\* covers nanosleep, the console read, the scheduler and the clock.
StateStep ==
    /\ \A i \in Slots : state'[i] \in {"UNUSED", "ZOMBIE"} => state'[i] = state[i]
    /\ \A i \in Slots : state[i] = "UNUSED" => state'[i] = "UNUSED"
    /\ \A i \in Slots : state'[i] = "WAITING" =>
          state[i] = "WAITING" /\ wait_target_pid'[i] = wait_target_pid[i]
    /\ \A i \in Slots : report'[i] \in {0, report[i]}
    /\ UNCHANGED <<exit_code, memVars, idVars, wstatus, died>>

\* A step that only changes states, as StateStep says, leaves it sound.
LEMMA StateStepTableSound == Inductive /\ StateStep => TableSound'
<1> SUFFICES ASSUME Inductive, StateStep PROVE TableSound'
    OBVIOUS
<1> USE SlotFacts DEF StateStep, memVars, idVars
<1>1. BlocksConserved'
  BY DEF Inductive, BlocksConserved, InUse
<1>2. Slot0IsInit' /\ PidsSound'
  BY DEF Inductive, Slot0IsInit, PidsSound, InUse
<1>3. HistorySound'
  BY DEF Inductive, HistorySound, InUse
<1>4. NoMissedExit'
  BY DEF Inductive, NoMissedExit, Accepts
<1>5. AnyWaiterHasLiveChild'
  BY DEF Inductive, AnyWaiterHasLiveChild
<1>6. WaitReportsTruth'
  BY DEF Inductive, WaitReportsTruth
<1> QED
  BY <1>1, <1>2, <1>3, <1>4, <1>5, <1>6 DEF TableSound

\* nanosleep preserves the invariant.
LEMMA NanosleepInductive ==
    ASSUME Inductive, NEW ticks \in 1 .. MaxSleep, sys_nanosleep(ticks)
    PROVE  Inductive'
<1> USE DEF sys_nanosleep, waitVars, memVars, idVars, schedVars, inVars
<1>0. TypeOK /\ g_cur_proc \in Slots /\ InUse(g_cur_proc)
      /\ ttbr0 = user_pa_base[g_cur_proc]
  BY CurrentInUse DEF Inductive
<1>1. TypeOK'
  BY <1>0, SizesAssumption DEF TypeOK, States, Callers
<1>2. StateStep
  BY <1>0 DEF StateStep, TypeOK, InUse
<1>3. LiveAddressSpace' /\ KernelSpaceSound'
  BY <1>0 DEF Inductive, LiveAddressSpace, KernelSpaceSound
<1> QED
  BY <1>1, <1>2, <1>3, StateStepTableSound DEF Inductive, TableSound

\* What is drained fits the ring again, and a drained ring loses no room.
LEMMA RingFacts ==
    ASSUME TypeOK
    PROVE  /\ Polled \in 0 .. RingCap
           /\ \A len \in Nat : Drained(Polled, len) \in 0 .. RingCap
  BY SizesAssumption DEF TypeOK, Polled, Drained, AtMost

\* A console read preserves the invariant, served or blocked.
LEMMA ReadInductive ==
    ASSUME Inductive, NEW len \in 1 .. MaxRead, sys_read(len)
    PROVE  Inductive'
<1> USE DEF sys_read, waitVars, memVars, idVars, schedVars
<1>0. TypeOK /\ g_cur_proc \in Slots /\ InUse(g_cur_proc)
      /\ ttbr0 = user_pa_base[g_cur_proc]
  BY CurrentInUse DEF Inductive
<1>1. ring' \in 0 .. RingCap /\ uart' \in 0 .. UartCap
  BY <1>0, RingFacts, SizesAssumption
<1>2. TypeOK'
  BY <1>0, <1>1, SizesAssumption DEF TypeOK, States, Callers
<1>3. StateStep
  BY <1>0 DEF StateStep, TypeOK, InUse
<1>4. LiveAddressSpace' /\ KernelSpaceSound'
  BY <1>0 DEF Inductive, LiveAddressSpace, KernelSpaceSound
<1> QED
  BY <1>2, <1>3, <1>4, StateStepTableSound DEF Inductive, TableSound

-----------------------------------------------------------------------------
(* The scheduler.                                                          *)

\* Whoever the scheduler settles on is alive, and the states it leaves differ
\* only in sleepers and readers made runnable.
LEMMA CandidatesAlive ==
    ASSUME TypeOK, NEW n \in Candidates
    PROVE  /\ n \in Slots
           /\ state[n] \in {"RUNNABLE", "SLEEPING", "BLOCKED_IO"}
  BY DEF Candidates, ReadersReady, Woken

\* Waking sleepers changes only sleepers.
LEMMA WokenFacts ==
    ASSUME TypeOK
    PROVE  /\ Woken \in [Slots -> States]
           /\ \A i \in Slots : \/ Woken[i] = state[i]
                               \/ state[i] = "SLEEPING" /\ Woken[i] = "RUNNABLE"
  BY DEF TypeOK, Woken, States

\* proc_switch_to preserves the invariant: it loads the address space of the
\* process it resumes.
LEMMA SwitchInductive ==
    ASSUME Inductive, NEW n \in Candidates, g_last_sched' = n,
           proc_switch_to(n, [Woken EXCEPT ![n] = "RUNNABLE"])
    PROVE  Inductive'
<1> USE DEF proc_switch_to, waitVars, memVars, idVars, histVars
<1>0. TypeOK /\ n \in Slots /\ state[n] \in {"RUNNABLE", "SLEEPING", "BLOCKED_IO"}
  BY CandidatesAlive DEF Inductive
<1>1. user_pa_base[n] \in {Home} \cup Blocks /\ user_pa_base[n] \notin free
  BY <1>0 DEF Inductive, BlocksConserved, InUse, TypeOK
<1>2. state' \in [Slots -> States]
      /\ \A i \in Slots : \/ state'[i] = state[i]
                          \/ /\ state[i] \notin {"UNUSED", "ZOMBIE", "WAITING"}
                             /\ state'[i] \in {"RUNNABLE", "BLOCKED_IO"}
  BY <1>0, WokenFacts DEF States
<1>3. ring' \in 0 .. RingCap /\ uart' \in 0 .. UartCap
  BY <1>0, RingFacts, SizesAssumption DEF TypeOK
<1>4. pending_read_len' \in [Slots -> 0 .. MaxRead]
  BY <1>0, SizesAssumption DEF TypeOK, PendingAfterSwitch
<1>5. TypeOK'
  BY <1>0, <1>1, <1>2, <1>3, <1>4 DEF TypeOK
<1>6. StateStep
  BY <1>0, <1>2 DEF StateStep
<1>7. LiveAddressSpace' /\ KernelSpaceSound'
  BY <1>1 DEF LiveAddressSpace, KernelSpaceSound
<1> QED
  BY <1>5, <1>6, <1>7, StateStepTableSound DEF Inductive, TableSound

\* Going on with the caller preserves the invariant.
LEMMA ResumeInductive ==
    ASSUME Inductive, kcont \in Callers,
           NEW from \in [Slots -> States],
           \A i \in Slots : \/ from[i] = state[i]
                            \/ /\ state[i] \in {"SLEEPING", "BLOCKED_IO"}
                               /\ from[i] = "RUNNABLE",
           kcont \in {"exit", "selfkill"} =>
              \A i \in Slots : state[i] # "RUNNABLE",
           g_last_sched' \in Slots,
           Resume(from)
    PROVE  Inductive'
<1> USE DEF Resume, waitVars, memVars, idVars, histVars
<1>0. TypeOK
  BY DEF Inductive
<1>1. /\ g_cur_proc \in Slots
      /\ kcont \notin {"exit", "selfkill"} => InUse(g_cur_proc)
      /\ kcont # "exit" => ttbr0 = user_pa_base[g_cur_proc]
  BY CurrentInUse DEF Inductive, TypeOK, KernelSpaceSound, Callers
<1>2. /\ state' \in [Slots -> States]
      /\ \A i \in Slots : \/ state'[i] = from[i]
                          \/ i = g_cur_proc /\ state'[i] = "RUNNABLE"
      /\ kcont \in {"exit", "selfkill"} => state' = from
  BY <1>1 DEF States
<1>3. ring' \in 0 .. RingCap /\ uart' \in 0 .. UartCap
  BY <1>0, <1>1, RingFacts, SizesAssumption DEF TypeOK
<1>4. /\ pending_read_len' \in [Slots -> 0 .. MaxRead]
      /\ sleep_left' \in [Slots -> 0 .. MaxSleep]
      /\ wait_target_pid' \in [Slots -> 0 .. NTables + 1]
      /\ wait_status_user' \in [Slots -> {"null", "ok", "bad"}]
      /\ kcont' \in {"user", "yield", "halt"}
  BY <1>0, <1>1, SizesAssumption DEF TypeOK
<1>5. TypeOK'
  BY <1>0, <1>2, <1>3, <1>4 DEF TypeOK, Callers
<1>6. StateStep
  <2>1. \A i \in Slots : state'[i] \in {"UNUSED", "ZOMBIE"} => state'[i] = state[i]
    BY <1>2
  <2>2. \A i \in Slots : state[i] = "UNUSED" => state'[i] = "UNUSED"
    BY <1>1, <1>2 DEF InUse
  <2>3. \A i \in Slots : state'[i] = "WAITING" =>
          state[i] = "WAITING" /\ wait_target_pid'[i] = wait_target_pid[i]
    BY <1>0, <1>1, <1>2 DEF TypeOK, States
  <2> QED
    BY <2>1, <2>2, <2>3 DEF StateStep
<1>7. LiveAddressSpace' /\ KernelSpaceSound'
  BY <1>1, <1>4 DEF Inductive, LiveAddressSpace, KernelSpaceSound
<1> QED
  BY <1>5, <1>6, <1>7, StateStepTableSound DEF Inductive, TableSound

\* Every turn of the scheduler preserves the invariant.
LEMMA PickInductive == Inductive /\ Pick => Inductive'
<1> SUFFICES ASSUME Inductive, Pick PROVE Inductive'
    OBVIOUS
<1>0. TypeOK
  BY DEF Inductive
<1>1. CASE PickOne
  <2>1. PICK n \in Slots :
           /\ n \in Candidates
           /\ g_last_sched' = n
           /\ \/ /\ n # g_cur_proc
                 /\ proc_switch_to(n, [Woken EXCEPT ![n] = "RUNNABLE"])
              \/ /\ n = g_cur_proc
                 /\ Resume([Woken EXCEPT ![n] = "RUNNABLE"])
    BY <1>1 DEF PickOne, ScanFirst
  <2>2. CASE n # g_cur_proc
    BY <2>1, <2>2, SwitchInductive
  <2>3. CASE n = g_cur_proc
    <3> DEFINE from == [Woken EXCEPT ![n] = "RUNNABLE"]
    <3>1. state[n] \in {"RUNNABLE", "SLEEPING", "BLOCKED_IO"}
      BY <1>0, <2>1, CandidatesAlive
    <3>2. kcont \notin {"exit", "selfkill"}
      BY <2>3, <3>1 DEF Inductive, KernelSpaceSound
    <3>3. from \in [Slots -> States]
      BY <1>0, WokenFacts DEF States
    <3>4. \A i \in Slots : \/ from[i] = state[i]
                           \/ /\ state[i] \in {"SLEEPING", "BLOCKED_IO"}
                              /\ from[i] = "RUNNABLE"
      BY <1>0, <3>1, WokenFacts
    <3>5. Resume(from) /\ g_last_sched' \in Slots /\ kcont \in Callers
      BY <1>1, <2>1, <2>3 DEF PickOne
    <3> HIDE DEF from
    <3> QED
      BY <3>2, <3>3, <3>4, <3>5, ResumeInductive
  <2> QED
    BY <2>2, <2>3
<1>2. CASE PickNone
  <2>1. \A i \in Slots : state[i] # "RUNNABLE"
    BY <1>2, <1>0, WokenFacts DEF PickNone, Candidates
  <2>2. Resume(Woken) /\ g_last_sched' \in Slots /\ kcont \in Callers
    BY <1>2, <1>0 DEF PickNone, TypeOK
  <2> QED
    BY <1>0, <2>1, <2>2, WokenFacts, ResumeInductive
<1>3. CASE PickIdle
  <2> USE <1>3 DEF PickIdle, waitVars, memVars, idVars, histVars, schedVars
  <2>1. ring' \in 0 .. RingCap /\ uart' \in 0 .. UartCap
    BY <1>0, RingFacts, SizesAssumption
  <2>2. TypeOK'
    BY <1>0, <2>1 DEF TypeOK
  <2>3. StateStep
    BY DEF StateStep
  <2>4. LiveAddressSpace' /\ KernelSpaceSound'
    BY DEF Inductive, LiveAddressSpace, KernelSpaceSound
  <2> QED
    BY <2>2, <2>3, <2>4, StateStepTableSound DEF Inductive, TableSound
<1> QED
  BY <1>1, <1>2, <1>3 DEF Pick

\* Time, input and a stopped machine.
LEMMA EnvironmentInductive ==
    Inductive /\ (Tick \/ UartRx \/ UNCHANGED vars) => Inductive'
<1> SUFFICES ASSUME Inductive, Tick \/ UartRx \/ UNCHANGED vars PROVE Inductive'
    OBVIOUS
<1> USE DEF waitVars, memVars, idVars, histVars, schedVars, inVars, vars
<1>0. TypeOK
  BY DEF Inductive
<1>1. UNCHANGED <<state, exit_code, pending_read_len, kcont, waitVars,
                  memVars, idVars, histVars, schedVars, ring>>
  BY DEF Tick, UartRx
<1>2. sleep_left' \in [Slots -> 0 .. MaxSleep]
  BY <1>0, SizesAssumption DEF Tick, UartRx, TypeOK
<1>3. uart' \in 0 .. UartCap
  BY <1>0, SizesAssumption DEF Tick, UartRx, TypeOK
<1>4. TypeOK'
  BY <1>0, <1>1, <1>2, <1>3 DEF TypeOK
<1>5. StateStep
  BY <1>1 DEF StateStep
<1>6. LiveAddressSpace' /\ KernelSpaceSound'
  BY <1>1 DEF Inductive, LiveAddressSpace, KernelSpaceSound
<1> QED
  BY <1>4, <1>5, <1>6, StateStepTableSound DEF Inductive, TableSound

\* Every system call preserves the invariant.
LEMMA SyscallInductive == Inductive /\ Syscall => Inductive'
<1> SUFFICES ASSUME Inductive, Syscall PROVE Inductive'
    OBVIOUS
<1>1. CASE Return
  BY <1>1, ReturnInductive
<1>2. CASE sys_clone
  BY <1>2, ReturnInductive, CloneInductive DEF sys_clone, CloneRefused
<1>3. CASE WaitCalls
  <2>1. PICK want \in {0} \cup Pids, ptr \in WstatusPtrs, nohang \in BOOLEAN :
           sys_wait4(want, ptr, nohang)
    BY <1>3 DEF WaitCalls
  <2>2. kcont = "user"
    BY <2>1 DEF sys_wait4
  <2>3. CASE \E c \in Slots : First(ZombieChildren(want), c) /\ ReapZombie(c, ptr)
    BY <2>2, <2>3, ReapInductive DEF First
  <2>4. CASE Return
    BY <2>4, ReturnInductive
  <2>5. CASE ZombieChildren(want) = {} /\ HasChild /\ BlockInWait(want, ptr)
    BY <2>2, <2>5, BlockInWaitInductive
  <2> QED
    BY <2>1, <2>3, <2>4, <2>5 DEF sys_wait4
<1>4. CASE KillCalls
  <2>1. PICK p \in Pids, sig \in Sigs : sys_kill(p, sig)
    BY <1>4 DEF KillCalls
  <2>2. kcont = "user" /\ KillCode(sig) \in Nat
    BY <2>1, InputsAssumption DEF sys_kill, KillCode
  <2>3. CASE Return
    BY <2>3, ReturnInductive
  <2>4. CASE \E c \in SlotOf(p) : KillOther(c, sig)
    BY <2>2, <2>4, KillOtherInductive DEF SlotOf
  <2>5. CASE ExitCurrent(KillCode(sig), "selfkill")
    BY <2>2, <2>5, ExitInductive
  <2>6. CASE kernel_poweroff
    BY <2>6, PowerOffInductive
  <2> QED
    BY <2>1, <2>3, <2>4, <2>5, <2>6 DEF sys_kill
<1>5. CASE ExitCalls
  <2>1. PICK code \in Codes : sys_exit(code)
    BY <1>5 DEF ExitCalls
  <2> QED
    BY <2>1, InputsAssumption, ExitInductive, PowerOffInductive DEF sys_exit
<1>6. CASE sys_reboot
  BY <1>6, PowerOffInductive DEF sys_reboot
<1>7. CASE SleepCalls
  BY <1>7, NanosleepInductive DEF SleepCalls
<1>8. CASE ReadCalls
  BY <1>8, ReadInductive DEF ReadCalls
<1> QED
  BY <1>1, <1>2, <1>3, <1>4, <1>5, <1>6, <1>7, <1>8 DEF Syscall

-----------------------------------------------------------------------------
(* Theorems.                                                               *)

\* The inductive invariant holds in every reachable state, for any number of
\* process slots, blocks, page tables, and any exit codes and read lengths.
THEOREM InductiveInvariant == Spec => []Inductive
<1>1. Inductive /\ [Next]_vars => Inductive'
  BY SyscallInductive, PickInductive, EnvironmentInductive DEF Next, Stopped
<1> QED
  BY InitInductive, <1>1, PTL DEF Spec

\* The process table is well typed: in particular the pids handed out never
\* exceed the page-table sets, and the ring never overflows (proc.c, sched.c).
THEOREM TypeCorrect == Spec => []TypeOK
  BY InductiveInvariant, PTL DEF Inductive

\* Fork, exit, kill and wait4 neither leak a 2 MiB block nor share or free
\* one in use.
THEOREM MemoryConserved == Spec => []BlocksConserved
  BY InductiveInvariant, PTL DEF Inductive

\* No handler leaves the CPU translating through a freed block, and EL0 code
\* runs in its own process's memory.
THEOREM AddressSpaceLive == Spec => []LiveAddressSpace
  BY InductiveInvariant, PTL DEF Inductive

\* A parent blocked in wait4 never sleeps past a matching zombie, and one
\* that waits for any child has a live one (sys_wait4).
THEOREM ExitNeverMissed == Spec => []WaitersSound
  <1>1. Inductive => WaitersSound
    BY DEF Inductive, WaitersSound
  <1> QED
    BY <1>1, InductiveInvariant, PTL

\* wait4 reports the pid and the status of a child that did die that way.
THEOREM WaitTruthful == Spec => []WaitReportsTruth
  BY InductiveInvariant, PTL DEF Inductive

\* Slot 0 belongs to init for ever.
THEOREM InitKeepsSlot0 == Spec => []Slot0IsInit
  BY InductiveInvariant, PTL DEF Inductive

-----------------------------------------------------------------------------
(* What the scheduler runs, and when it gives up.                          *)

\* A process that does not wait for input has no read pending, and the one
\* that is current is in the state that its last call left it in.
PendingSound ==
    \A i \in Slots : state[i] \in {"RUNNABLE", "SLEEPING", "WAITING"}
                        => pending_read_len[i] = 0
CurrentSound ==
    /\ kcont \in {"user", "yield"} => state[g_cur_proc] = "RUNNABLE"
    /\ kcont = "wait" => state[g_cur_proc] = "WAITING"
    /\ kcont = "sleep" => state[g_cur_proc] = "SLEEPING"
    /\ kcont = "read" => state[g_cur_proc] = "BLOCKED_IO"
    /\ kcont # "selfkill"
RunSound == PendingSound /\ CurrentSound

\* A scheduler that answers -1 has left nobody that could still run.
LEMMA NoneLeft ==
    ASSUME TypeOK, Candidates = {}, ~MustIdle
    PROVE  \A i \in Slots : Woken[i] \in {"UNUSED", "ZOMBIE", "WAITING"}
<1>1. \A i \in Slots : Woken[i] \in States /\ Woken[i] \notin {"SLEEPING", "BLOCKED_IO"}
  BY WokenFacts DEF MustIdle
<1>2. \A i \in Slots : Woken[i] # "RUNNABLE"
  BY DEF Candidates
<1> QED
  BY <1>1, <1>2 DEF States

\* Only the scheduler's -1 parks the machine, on behalf of an exit.
LEMMA HaltStep == Inductive /\ HaltIsFinal /\ [Next]_vars => HaltIsFinal'
<1> SUFFICES ASSUME Inductive, HaltIsFinal, [Next]_vars, kcont' = "halt"
             PROVE  \A i \in Slots : state'[i] \in {"UNUSED", "ZOMBIE", "WAITING"}
  BY DEF HaltIsFinal
<1>1. TypeOK
  BY DEF Inductive
<1>2. CASE kcont = "halt"
  <2>1. state' = state
    BY <1>2 DEF vars, Next, Syscall, Return, sys_clone, CloneInto, CloneRefused, WaitCalls,
           sys_wait4, KillCalls, sys_kill, ExitCalls, sys_exit, sys_reboot, SleepCalls,
           sys_nanosleep, ReadCalls, sys_read, Pick, PickOne, PickNone, PickIdle, Callers,
           Tick, UartRx, Up, Stopped
  <2> QED
    BY <1>2, <2>1 DEF HaltIsFinal
<1>3. CASE kcont # "halt"
  <2>1. ~Syscall
    BY DEF Syscall, Return, sys_clone, CloneInto, CloneRefused, WaitCalls, sys_wait4,
           ReapZombie, BlockInWait, KillCalls, sys_kill, KillOther, ExitCurrent,
           ExitCalls, sys_exit, sys_reboot, kernel_poweroff, SleepCalls, sys_nanosleep,
           ReadCalls, sys_read
  <2>2. Pick
    BY <1>3, <2>1 DEF Next, vars, Tick, UartRx, Stopped
  <2>3. ~PickIdle
    BY <1>3 DEF PickIdle
  <2>4. ~PickOne
    <3> SUFFICES ASSUME PickOne PROVE FALSE
      OBVIOUS
    <3>1. PICK n \in Slots :
             /\ n \in Candidates
             /\ \/ proc_switch_to(n, [Woken EXCEPT ![n] = "RUNNABLE"])
                \/ /\ n = g_cur_proc
                   /\ Resume([Woken EXCEPT ![n] = "RUNNABLE"])
      BY DEF PickOne, ScanFirst
    <3>2. n = g_cur_proc /\ kcont = "exit"
      BY <3>1 DEF proc_switch_to, Resume
    <3>3. state[n] \in {"ZOMBIE", "UNUSED"}
      BY <3>2 DEF Inductive, KernelSpaceSound
    <3> QED
      BY <1>1, <3>1, <3>3, CandidatesAlive
  <2>5. /\ Candidates = {} /\ ~MustIdle /\ Resume(Woken)
    BY <2>2, <2>3, <2>4 DEF Pick, PickNone
  <2>6. state' = Woken
    BY <2>5 DEF Resume
  <2> QED
    BY <1>1, <2>5, <2>6, NoneLeft
<1> QED
  BY <1>2, <1>3

\* For every size of the table: when an exit parks the machine, no process is
\* left that time or input could make runnable (sched_pick_next_runnable and
\* the tail of handle_exit_and_maybe_switch).
THEOREM HaltsOnlyWhenDone == Spec => []HaltIsFinal
<1>1. Init => HaltIsFinal
  BY DEF Init, HaltIsFinal
<1> QED
  BY <1>1, HaltStep, InductiveInvariant, PTL DEF Spec

\* A call that leaves the tables of states and pending reads alone, and comes
\* back to its caller.
LEMMA ReturnRuns == RunSound /\ Return => RunSound'
BY DEF RunSound, PendingSound, CurrentSound, Return, schedVars

LEMMA CloneRuns ==
    ASSUME Inductive, RunSound, kcont = "user",
           NEW c \in Slots, NEW b \in Blocks, CloneInto(c, b)
    PROVE  RunSound'
<1>1. state[g_cur_proc] = "RUNNABLE" /\ state[c] = "UNUSED" /\ TypeOK
  BY DEF RunSound, CurrentSound, CloneInto, First, FreeSlots, InUse, Inductive
<1> QED
  BY <1>1 DEF RunSound, PendingSound, CurrentSound, CloneInto, ClearProc, TypeOK, schedVars

\* What both ways of reaping, and a death that nobody waits for, do to the
\* states of the processes.
LEMMA ReapRuns ==
    ASSUME Inductive, RunSound, kcont = "user", NEW want, NEW ptr,
           NEW c \in Slots, c \in ZombieChildren(want), ReapZombie(c, ptr)
    PROVE  RunSound'
<1>1. state[g_cur_proc] = "RUNNABLE" /\ state[c] = "ZOMBIE" /\ TypeOK
  BY DEF RunSound, CurrentSound, ZombieChildren, Inductive
<1> QED
  BY <1>1 DEF RunSound, PendingSound, CurrentSound, ReapZombie, ClearProc, TypeOK, schedVars

LEMMA DeathRuns ==
    ASSUME Inductive, RunSound, NEW c \in Slots, NEW code, NEW i \in Slots,
           BecomeZombie(c, code) \/ HandToWaiter(c, code, i)
    PROVE  /\ PendingSound'
           /\ \A j \in Slots \ {c} : state[j] = "RUNNABLE" => state'[j] = "RUNNABLE"
<1>0. TypeOK
  BY DEF Inductive
<1>1. CASE BecomeZombie(c, code)
  BY <1>0, <1>1 DEF RunSound, PendingSound, BecomeZombie, TypeOK
<1>2. CASE HandToWaiter(c, code, i)
  <2>1. state[i] = "WAITING" /\ i # c
    BY <1>2 DEF HandToWaiter, WaiterFor
  <2> QED
    BY <1>0, <1>2, <2>1 DEF RunSound, PendingSound, HandToWaiter, ClearProc, TypeOK
<1> QED
  BY <1>1, <1>2

LEMMA KillOtherRuns ==
    ASSUME Inductive, RunSound, kcont = "user", NEW c \in Slots, NEW sig, KillOther(c, sig)
    PROVE  RunSound'
<1>1. c # g_cur_proc /\ g_cur_proc' = g_cur_proc /\ kcont' = "yield"
      /\ g_cur_proc \in Slots /\ state[g_cur_proc] = "RUNNABLE"
  BY DEF KillOther, Inductive, TypeOK, RunSound, CurrentSound
<1>2. \E i \in Slots : \/ BecomeZombie(c, KillCode(sig))
                       \/ HandToWaiter(c, KillCode(sig), i)
  BY <1>1 DEF KillOther
<1>3. PendingSound' /\ state'[g_cur_proc] = "RUNNABLE"
  BY <1>1, <1>2, DeathRuns
<1> QED
  BY <1>1, <1>3 DEF RunSound, CurrentSound

LEMMA ExitRuns ==
    ASSUME Inductive, RunSound, kcont = "user", NEW code, ExitCurrent(code, "exit")
    PROVE  RunSound'
<1>1. g_cur_proc \in Slots /\ kcont' = "exit"
  BY DEF ExitCurrent, Inductive, TypeOK
<1>2. \E i \in Slots : BecomeZombie(g_cur_proc, code) \/ HandToWaiter(g_cur_proc, code, i)
  BY <1>1 DEF ExitCurrent
<1>3. PendingSound'
  BY <1>1, <1>2, DeathRuns
<1> QED
  BY <1>1, <1>3 DEF RunSound, CurrentSound

\* The system calls, as long as no process kills itself.
LEMMA SyscallRuns ==
    ASSUME ~KillSelf, Inductive, RunSound, Syscall
    PROVE  RunSound'
<1>0. TypeOK /\ kcont = "user" /\ g_cur_proc \in Slots /\ state[g_cur_proc] = "RUNNABLE"
  BY DEF Inductive, TypeOK, Syscall, Return, sys_clone, WaitCalls, sys_wait4, KillCalls,
         sys_kill, ExitCalls, sys_exit, sys_reboot, SleepCalls, sys_nanosleep, ReadCalls,
         sys_read, RunSound, CurrentSound
<1>1. CASE Return
  BY <1>1, ReturnRuns
<1>2. CASE sys_clone
  BY <1>0, <1>2, ReturnRuns, CloneRuns DEF sys_clone, CloneRefused
<1>3. CASE WaitCalls
  <2>1. PICK want \in {0} \cup Pids, ptr \in WstatusPtrs, nohang \in BOOLEAN :
           sys_wait4(want, ptr, nohang)
    BY <1>3 DEF WaitCalls
  <2>2. CASE \E c \in Slots : First(ZombieChildren(want), c) /\ ReapZombie(c, ptr)
    BY <1>0, <2>2, ReapRuns DEF First
  <2>3. CASE Return
    BY <2>3, ReturnRuns
  <2>4. CASE BlockInWait(want, ptr)
    BY <1>0, <2>4
    DEF BlockInWait, RunSound, PendingSound, CurrentSound, TypeOK, schedVars
  <2> QED
    BY <2>1, <2>2, <2>3, <2>4 DEF sys_wait4
<1>4. CASE KillCalls
  <2>1. PICK p \in Pids, sig \in Sigs : sys_kill(p, sig)
    BY <1>4 DEF KillCalls
  <2>2. CASE Return
    BY <2>2, ReturnRuns
  <2>3. CASE \E c \in SlotOf(p) : KillOther(c, sig)
    BY <1>0, <2>3, KillOtherRuns DEF SlotOf
  <2> QED
    BY <2>1, <2>2, <2>3 DEF sys_kill
<1>5. CASE ExitCalls
  BY <1>0, <1>5, ExitRuns DEF ExitCalls, sys_exit, kernel_poweroff, RunSound, PendingSound,
                        CurrentSound
<1>6. CASE sys_reboot
  BY <1>6 DEF sys_reboot, kernel_poweroff, RunSound, PendingSound, CurrentSound
<1>7. CASE SleepCalls
  BY <1>0, <1>7 DEF SleepCalls, sys_nanosleep, RunSound, PendingSound, CurrentSound,
                    TypeOK, schedVars
<1>8. CASE ReadCalls
  BY <1>0, <1>8 DEF ReadCalls, sys_read, RunSound, PendingSound, CurrentSound, TypeOK,
                    schedVars
<1> QED
  BY <1>1, <1>2, <1>3, <1>4, <1>5, <1>6, <1>7, <1>8 DEF Syscall

\* A candidate that the scheduler settles on can be run: a reader is only
\* taken when its input is there.
LEMMA CandidateRuns ==
    ASSUME TypeOK, RunSound, NEW n \in Candidates
    PROVE  /\ pending_read_len[n] > 0 => Polled > 0
           /\ n \in Slots /\ pending_read_len[n] \in Nat
<1>1. n \in Slots /\ pending_read_len[n] \in Nat
  BY SizesAssumption DEF Candidates, ReadersReady, TypeOK
<1>2. CASE ReadersReady # {}
  BY <1>1, <1>2, RingFacts DEF ReadersReady
<1>3. CASE ReadersReady = {}
  <2>1. Woken[n] = "RUNNABLE"
    BY <1>3 DEF Candidates
  <2>2. state[n] \in {"RUNNABLE", "SLEEPING"}
    BY <1>1, <2>1, WokenFacts
  <2> QED
    BY <1>1, <2>2 DEF RunSound, PendingSound
<1> QED
  BY <1>1, <1>2, <1>3

\* Waking the sleepers disturbs no pending read.
LEMMA WokenPending ==
    ASSUME TypeOK, RunSound
    PROVE  \A i \in Slots : Woken[i] \in {"RUNNABLE", "SLEEPING", "WAITING"}
                              => pending_read_len[i] = 0
BY WokenFacts DEF RunSound, PendingSound

LEMMA PickOneRuns ==
    ASSUME Inductive, RunSound, PickOne
    PROVE  RunSound'
<1>0. TypeOK
  BY DEF Inductive
<1>1. PICK n \in Slots :
         /\ n \in Candidates
         /\ \/ /\ n # g_cur_proc
               /\ proc_switch_to(n, [Woken EXCEPT ![n] = "RUNNABLE"])
            \/ /\ n = g_cur_proc
               /\ Resume([Woken EXCEPT ![n] = "RUNNABLE"])
  BY DEF PickOne, ScanFirst
<1> DEFINE from == [Woken EXCEPT ![n] = "RUNNABLE"]
<1>2. /\ pending_read_len[n] > 0 => Polled > 0
      /\ pending_read_len[n] \in Nat
  BY <1>0, <1>1, CandidateRuns
<1>3. /\ from \in [Slots -> States] /\ from[n] = "RUNNABLE"
      /\ \A i \in Slots \ {n} : from[i] \in {"RUNNABLE", "SLEEPING", "WAITING"}
                                  => pending_read_len[i] = 0
  BY <1>0, WokenFacts, WokenPending DEF States
<1> HIDE DEF from
<1>4. CASE n # g_cur_proc /\ proc_switch_to(n, from)
  <2>1. state' = from /\ g_cur_proc' = n /\ kcont' = "user"
    BY <1>0, <1>2, <1>4, RingFacts DEF proc_switch_to
  <2>2. pending_read_len' = [pending_read_len EXCEPT ![n] = 0]
    <3>1. pending_read_len \in [Slots -> 0 .. MaxRead]
      BY <1>0 DEF TypeOK
    <3>2. Polled = 0 => pending_read_len[n] = 0
      BY <1>2
    <3> QED
      BY <1>4, <3>1, <3>2 DEF proc_switch_to, PendingAfterSwitch
  <2> QED
    BY <1>0, <1>3, <2>1, <2>2 DEF RunSound, PendingSound, CurrentSound, TypeOK
<1>5. CASE n = g_cur_proc /\ Resume(from)
  <2>1. state[n] \in {"RUNNABLE", "SLEEPING", "BLOCKED_IO"}
    BY <1>0, <1>1, CandidatesAlive
  <2>2. kcont \notin {"exit", "selfkill"}
    BY <1>5, <2>1 DEF Inductive, KernelSpaceSound
  <2>3. g_cur_proc' = g_cur_proc /\ state' = from
        /\ kcont' \in {"user", "yield"}
    BY <1>3, <1>5, <2>2 DEF Resume
  <2>4. pending_read_len'[n] = 0
        /\ \A i \in Slots \ {n} : pending_read_len'[i] = pending_read_len[i]
    <3>1. CASE kcont = "read"
      BY <1>0, <1>5, <3>1 DEF Resume, TypeOK
    <3>2. CASE kcont # "read"
      <4>1. pending_read_len' = pending_read_len
        BY <1>5, <3>2 DEF Resume
      <4>2. kcont \in {"yield", "wait", "sleep"}
        BY <1>5, <2>2, <3>2 DEF Resume
      <4>3. state[n] \in {"RUNNABLE", "WAITING", "SLEEPING"}
        BY <1>5, <4>2 DEF RunSound, CurrentSound
      <4> QED
        BY <4>1, <4>3 DEF RunSound, PendingSound
    <3> QED
      BY <3>1, <3>2
  <2> QED
    BY <1>3, <1>5, <2>3, <2>4 DEF RunSound, PendingSound, CurrentSound
<1> QED
  BY <1>1, <1>4, <1>5 DEF from

LEMMA PickNoneRuns ==
    ASSUME Inductive, RunSound, PickNone
    PROVE  RunSound'
<1>0. TypeOK /\ g_cur_proc \in Slots
  BY DEF Inductive, TypeOK
<1>1. Candidates = {} /\ ~MustIdle /\ Resume(Woken) /\ kcont \in Callers
  BY DEF PickNone
<1>2. \A i \in Slots : Woken[i] \in {"UNUSED", "ZOMBIE", "WAITING"}
  BY <1>0, <1>1, NoneLeft
<1>3. \A i \in Slots : Woken[i] \in {"RUNNABLE", "SLEEPING", "WAITING"}
                         => pending_read_len[i] = 0
  BY <1>0, WokenPending
<1>4. kcont \in {"wait", "exit"}
  <2>1. Woken[g_cur_proc] \in {"UNUSED", "ZOMBIE", "WAITING"}
    BY <1>0, <1>2
  <2>2. state[g_cur_proc] \notin {"RUNNABLE", "SLEEPING", "BLOCKED_IO"}
    BY <1>0, <2>1, WokenFacts
  <2> QED
    BY <1>1, <2>2 DEF RunSound, CurrentSound, Callers
<1>5. CASE kcont = "wait"
  <2>1. /\ state' = [Woken EXCEPT ![g_cur_proc] = "RUNNABLE"] /\ kcont' = "yield"
        /\ g_cur_proc' = g_cur_proc /\ pending_read_len' = pending_read_len
    BY <1>1, <1>5 DEF Resume
  <2>2. pending_read_len[g_cur_proc] = 0
    BY <1>0, <1>5 DEF RunSound, CurrentSound, PendingSound
  <2> QED
    BY <1>0, <1>3, <2>1, <2>2, WokenFacts DEF RunSound, CurrentSound, PendingSound
<1>6. CASE kcont = "exit"
  <2>1. state' = Woken /\ kcont' = "halt" /\ pending_read_len' = pending_read_len
    BY <1>1, <1>6 DEF Resume
  <2> QED
    BY <1>3, <2>1 DEF RunSound, CurrentSound, PendingSound
<1> QED
  BY <1>4, <1>5, <1>6

LEMMA StepRuns ==
    ASSUME ~KillSelf, Inductive, RunSound, [Next]_vars
    PROVE  RunSound'
<1>1. CASE Syscall
  BY <1>1, SyscallRuns
<1>2. CASE Pick
  BY <1>2, PickOneRuns, PickNoneRuns
     DEF Pick, PickIdle, RunSound, CurrentSound, PendingSound, schedVars
<1>3. CASE Tick \/ UartRx \/ UNCHANGED vars
  BY <1>3 DEF Tick, UartRx, vars, schedVars, RunSound, CurrentSound, PendingSound
<1> QED
  BY <1>1, <1>2, <1>3 DEF Next, Stopped

\* As long as no process passes its own pid to kill(), only a runnable process
\* without a pending read executes in EL0.  That leaves sys_kill's return
\* into a process it has just killed as the only way to run anything else.
THEOREM OnlySelfKillRunsTheDead ==
    ASSUME ~KillSelf
    PROVE  Spec => []OnlyRunnableRuns
<1>1. Init => RunSound
  BY SlotFacts DEF Init, RunSound, PendingSound, CurrentSound
<1>2. Inductive /\ RunSound /\ [Next]_vars => RunSound'
  BY StepRuns
<1>3. Inductive /\ RunSound => OnlyRunnableRuns
  BY DEF Inductive, TypeOK, RunSound, PendingSound, CurrentSound, OnlyRunnableRuns
<1> QED
  BY <1>1, <1>2, <1>3, InductiveInvariant, PTL DEF Spec
=============================================================================
