------------------------------- MODULE FdTable -------------------------------
(***************************************************************************)
(* File descriptors: the per-process tables, the shared and counted file   *)
(* descriptions (g_descs), and the counted objects behind them: pipes, and *)
(* UDP and TCP sockets.  Every operation is a system call of one process,  *)
(* run to its end.                                                         *)
(*                                                                         *)
(* A handler calls several functions that each change the tables, so those *)
(* functions are operators from one kernel state to the next.              *)
(***************************************************************************)
EXTENDS Integers, FiniteSets

CONSTANTS
    MaxProcs,       \* MAX_PROCS
    MAX_FDS,
    MAX_FILEDESCS,
    MAX_PIPES,
    NSocks,         \* entries of g_udp6, and of g_tcp6
    StdFds          \* standard descriptors; openat starts after them (3)

FdAssumption ==
    /\ MaxProcs \in Nat \ {0} /\ MAX_FDS \in Nat /\ StdFds \in 0 .. MAX_FDS
    /\ MAX_FILEDESCS \in Nat \ {0} /\ MAX_PIPES \in Nat /\ NSocks \in Nat

Procs == 0 .. MaxProcs - 1
Fds   == 0 .. MAX_FDS - 1
Descs == 0 .. MAX_FILEDESCS - 1
Pipes == 0 .. MAX_PIPES - 1
Socks == 0 .. NSocks - 1
None  == -1

SockKinds == {"UDP6", "TCP6"}
Ends == {"read", "write"}

VARIABLES
    live,   \* slots of processes that are not dead
    k       \* the kernel's tables: fdt, descs, pipes and socks

vars == <<live, k>>

FreePipe == [used |-> FALSE, refs |-> [e \in Ends |-> 0]]

\* desc_clear.
ClearDesc == [kind |-> "UNUSED", refs |-> 0, obj |-> 0, end |-> "read"]

Desc(kind, obj, end) == [kind |-> kind, refs |-> 1, obj |-> obj, end |-> end]

\* fd_init, pipe_init, and the console as the standard descriptors of init.
Init ==
    /\ live = {0}
    /\ k = [fdt   |-> [p \in Procs |-> [f \in Fds |->
                         IF p = 0 /\ f < StdFds THEN 0 ELSE None]],
            descs |-> [d \in Descs |->
                         IF d = 0 /\ StdFds > 0
                         THEN [Desc("UART", 0, "read") EXCEPT !.refs = StdFds]
                         ELSE ClearDesc],
            pipes |-> [i \in Pipes |-> FreePipe],
            socks |-> [s \in SockKinds |-> [i \in Socks |-> 0]]]

\* The entry a scan of a table from its start finds.
Lowest(S) == CHOOSE x \in S : \A y \in S : x <= y
LowestOrNone(S) == IF S = {} THEN None ELSE Lowest(S)

-----------------------------------------------------------------------------
(* The objects behind descriptions.                                        *)

pipe_maybe_free(pp) == IF \A e \in Ends : pp.refs[e] = 0 THEN FreePipe ELSE pp

pipe_on_desc_incref(kk, i, e) ==
    IF ~kk.pipes[i].used THEN kk
    ELSE [kk EXCEPT !.pipes[i].refs[e] = @ + 1]

pipe_on_desc_decref(kk, i, e) ==
    IF ~kk.pipes[i].used THEN kk
    ELSE LET pp == kk.pipes[i]
             n  == IF pp.refs[e] > 0 THEN pp.refs[e] - 1 ELSE 0
         IN  [kk EXCEPT !.pipes[i] = pipe_maybe_free([pp EXCEPT !.refs[e] = n])]

\* A socket is in use while it has references.
sock_incref(kk, s, i) ==
    IF kk.socks[s][i] = 0 THEN kk ELSE [kk EXCEPT !.socks[s][i] = @ + 1]

sock_decref(kk, s, i) ==
    IF kk.socks[s][i] = 0 THEN kk ELSE [kk EXCEPT !.socks[s][i] = @ - 1]

-----------------------------------------------------------------------------
(* Descriptions and descriptors.                                           *)

desc_alloc(kk) == LowestOrNone({d \in Descs : kk.descs[d].refs = 0})

desc_incref(kk, d) ==
    LET de == kk.descs[d]
        k1 == [kk EXCEPT !.descs[d].refs = @ + 1]
    IN  CASE de.refs = 0            -> kk
          [] de.kind = "PIPE"       -> pipe_on_desc_incref(k1, de.obj, de.end)
          [] de.kind \in SockKinds  -> sock_incref(k1, de.kind, de.obj)
          [] OTHER                  -> k1

\* Mutation: the object's count is dropped with the last reference only.
desc_decref_OnLast(kk, d) ==
    LET de == kk.descs[d]
        k1 == [kk EXCEPT !.descs[d] =
                 IF de.refs = 1 THEN ClearDesc ELSE [de EXCEPT !.refs = de.refs - 1]]
    IN  CASE de.refs = 0            -> kk
          [] de.refs > 1            -> k1
          [] de.kind = "PIPE"       -> pipe_on_desc_decref(k1, de.obj, de.end)
          [] de.kind \in SockKinds  -> sock_decref(k1, de.kind, de.obj)
          [] OTHER                  -> k1

desc_decref(kk, d) ==
    LET de == kk.descs[d]
        k1 == [kk EXCEPT !.descs[d] =
                 IF de.refs = 1 THEN ClearDesc ELSE [de EXCEPT !.refs = de.refs - 1]]
    IN  CASE de.refs = 0            -> kk
          [] de.kind = "PIPE"       -> pipe_on_desc_decref(k1, de.obj, de.end)
          [] de.kind \in SockKinds  -> sock_decref(k1, de.kind, de.obj)
          [] OTHER                  -> k1

fd_close(kk, p, f) ==
    LET d == kk.fdt[p][f]
    IN  IF d = None THEN kk
        ELSE desc_decref([kk EXCEPT !.fdt[p][f] = None], d)

\* fd_alloc_into, and the descriptor it returns.
FreeFd(kk, p, min) == LowestOrNone({f \in Fds : f >= min /\ kk.fdt[p][f] = None})

fd_alloc_into(kk, p, min, d) ==
    IF FreeFd(kk, p, min) = None THEN kk
    ELSE desc_incref([kk EXCEPT !.fdt[p][FreeFd(kk, p, min)] = d], d)

\* Mutation: the loop starts at descriptor 1.
proc_close_all_fds_FromOne(kk, p) ==
    LET closed[n \in 0 .. MAX_FDS] ==
          IF n <= 1 THEN kk ELSE fd_close(closed[n - 1], p, n - 1)
    IN  closed[MAX_FDS]

\* closed[n] are the tables after n turns of the loop.
proc_close_all_fds(kk, p) ==
    LET closed[n \in 0 .. MAX_FDS] ==
          IF n = 0 THEN kk ELSE fd_close(closed[n - 1], p, n - 1)
    IN  closed[MAX_FDS]

\* A new description d, installed at the lowest descriptor from min on; the
\* reference of its creation is dropped, and with it d if there was no room.
Install(kk, p, min, d, desc) ==
    desc_decref(fd_alloc_into([kk EXCEPT !.descs[d] = desc], p, min, d), d)

-----------------------------------------------------------------------------
(* System calls of process p.                                              *)

\* Files, directories and /proc: descriptions with nothing counted behind.
sys_openat(p) ==
    /\ desc_alloc(k) # None                                        \* EMFILE
    /\ k' = Install(k, p, StdFds, desc_alloc(k), Desc("FILE", 0, "read"))
    /\ UNCHANGED live

sys_close(p, f) ==
    /\ k.fdt[p][f] # None                                           \* EBADF
    /\ k' = fd_close(k, p, f)
    /\ UNCHANGED live

AfterDup3(kk, p, old, new) ==
    LET d == kk.fdt[p][old]
    IN  desc_incref([fd_close(kk, p, new) EXCEPT !.fdt[p][new] = d], d)

sys_dup3(p, old, new) ==
    /\ k.fdt[p][old] # None                                         \* EBADF
    /\ old # new
    /\ k' = AfterDup3(k, p, old, new)
    /\ UNCHANGED live

FreePipes == {i \in Pipes : ~k.pipes[i].used}

\* The tables once both ends of pipe i have a description and, if there is
\* room, a descriptor: fd_alloc_into twice, then the two creation references.
PipeInstalled(kk, p, i, r, w) ==
    LET k1 == [kk EXCEPT !.pipes[i] = [FreePipe EXCEPT !.used = TRUE],
                         !.descs[r] = Desc("PIPE", i, "read"),
                         !.descs[w] = Desc("PIPE", i, "write")]
        k2 == pipe_on_desc_incref(pipe_on_desc_incref(k1, i, "read"), i, "write")
        k3 == fd_alloc_into(fd_alloc_into(k2, p, 0, r), p, 0, w)
    IN  desc_decref(desc_decref(k3, r), w)

\* pipe2 gives up: the descriptor f of the read end, if it got one, is
\* closed and the pipe freed (pipe_abort).
PipeUndone(kk, p, i, f) ==
    [(IF f = None THEN kk ELSE fd_close(kk, p, f)) EXCEPT !.pipes[i] = FreePipe]

\* Without a pipe slot, or without two descriptions, nothing changes.  (That
\* the result cannot be stored, after its range was checked, cannot happen.)
sys_pipe2(p) ==
    /\ FreePipes # {}
    /\ Cardinality({d \in Descs : k.descs[d].refs = 0}) >= 2
    /\ LET i == Lowest(FreePipes)
           r == desc_alloc(k)
           w == desc_alloc([k EXCEPT !.descs[r].refs = 1])
           room == Cardinality({f \in Fds : k.fdt[p][f] = None}) >= 2
           k1 == PipeInstalled(k, p, i, r, w)
       IN  k' = IF room THEN k1 ELSE PipeUndone(k1, p, i, FreeFd(k, p, 0))
    /\ UNCHANGED live

\* A fresh socket of kind s with its description, or the socket alone when
\* there is none, whose reference is dropped at once: in effect no change.
SocketInstalled(kk, p, s) ==
    LET i  == Lowest({j \in Socks : kk.socks[s][j] = 0})
        k1 == [kk EXCEPT !.socks[s][i] = 1]
    IN  IF desc_alloc(kk) = None THEN sock_decref(k1, s, i)
        ELSE Install(k1, p, 0, desc_alloc(kk), Desc(s, i, "read"))

sys_mona_udp6_socket(p) ==
    /\ \E j \in Socks : k.socks["UDP6"][j] = 0                     \* ENOMEM
    /\ k' = SocketInstalled(k, p, "UDP6")
    /\ UNCHANGED live

\* A connection that fails or times out closes its descriptor again.
sys_mona_tcp6_connect(p, established) ==
    /\ \E j \in Socks : k.socks["TCP6"][j] = 0                     \* ENOMEM
    /\ LET f  == FreeFd(k, p, 0)
           k1 == SocketInstalled(k, p, "TCP6")
       IN  k' = IF established \/ f = None THEN k1 ELSE fd_close(k1, p, f)
    /\ UNCHANGED live

\* Mutation: the child's table is copied without counting.
Inherited_NoCount(kk, p, c) == [kk EXCEPT !.fdt[c] = kk.fdt[p]]

\* The child shares every description of its parent.
Inherited(kk, p, c) ==
    LET counted[n \in 0 .. MAX_FDS] ==
          IF n = 0 THEN [kk EXCEPT !.fdt[c] = kk.fdt[p]]
          ELSE IF kk.fdt[p][n - 1] = None THEN counted[n - 1]
          ELSE desc_incref(counted[n - 1], kk.fdt[p][n - 1])
    IN  counted[MAX_FDS]

sys_clone(p) ==
    /\ live # Procs
    /\ LET c == Lowest(Procs \ live)
       IN  /\ k' = Inherited(k, p, c)
           /\ live' = live \cup {c}

\* p exits or is killed.  Init's exit powers the machine off.
proc_exit(p) ==
    /\ p # 0
    /\ k' = proc_close_all_fds(k, p)
    /\ live' = live \ {p}

Next ==
    \E p \in live :
        \/ sys_openat(p)
        \/ \E f \in Fds : sys_close(p, f)
        \/ \E old, new \in Fds : sys_dup3(p, old, new)
        \/ sys_pipe2(p)
        \/ sys_mona_udp6_socket(p)
        \/ \E established \in BOOLEAN : sys_mona_tcp6_connect(p, established)
        \/ sys_clone(p)
        \/ proc_exit(p)

Spec == Init /\ [][Next]_vars

-----------------------------------------------------------------------------
(* Properties.                                                             *)

\* How many descriptors, over all live processes, are open on a description
\* in D.
Holders(D) == Cardinality({pf \in live \X Fds : k.fdt[pf[1]][pf[2]] \in D})

\* The descriptions of one end of pipe i, and those of socket i of kind s.
PipeDescs(i, e) == {d \in Descs : /\ k.descs[d].kind = "PIPE"
                                  /\ k.descs[d].obj = i
                                  /\ k.descs[d].end = e}
SockDescs(s, i) == {d \in Descs : k.descs[d].kind = s /\ k.descs[d].obj = i}

\* Every table keeps its shape, and no count exceeds the number of
\* descriptors there are (the counts are uint32 and must not drift).
TypeOK ==
    /\ live \subseteq Procs /\ 0 \in live
    /\ \A p \in Procs, f \in Fds : k.fdt[p][f] \in Descs \cup {None}
    /\ \A d \in Descs : /\ k.descs[d].refs \in 0 .. MaxProcs * MAX_FDS
                        /\ k.descs[d].kind \in SockKinds \cup
                                {"UNUSED", "UART", "FILE", "PIPE"}
    /\ \A i \in Pipes, e \in Ends :
          k.pipes[i].refs[e] \in 0 .. MaxProcs * MAX_FDS
    /\ \A s \in SockKinds, i \in Socks :
          k.socks[s][i] \in 0 .. MaxProcs * MAX_FDS

\* A description is counted exactly: between system calls its references are
\* the descriptors the living have open on it, over fork, dup3, close, exit
\* and every failure of pipe2, openat and the socket calls.  So none is freed
\* while in use and none is leaked.
DescRefsExact == \A d \in Descs : k.descs[d].refs = Holders({d})

\* The objects behind descriptions are counted exactly too, each end of a
\* pipe by itself: pipe_read's EOF and pipe_write's EPIPE are the truth about
\* who still holds the other end, and a slot is reused only when nobody does.
BackingExact ==
    /\ \A i \in Pipes :
          /\ \A e \in Ends : k.pipes[i].refs[e] = Holders(PipeDescs(i, e))
          /\ k.pipes[i].used <=> \E e \in Ends : k.pipes[i].refs[e] # 0
    /\ \A s \in SockKinds, i \in Socks :
          k.socks[s][i] = Holders(SockDescs(s, i))

CountsExact == DescRefsExact /\ BackingExact

\* A descriptor that a call leaves open keeps denoting the same object: no
\* call, of whichever process, recycles a description somebody holds.
Object(d) == <<k.descs[d].kind, k.descs[d].obj, k.descs[d].end>>

KeepsObjects ==
    \A p \in live \cap live', f \in Fds :
       LET d == k.fdt[p][f]
       IN  d # None /\ k'.fdt[p][f] = d => Object(d)' = Object(d)

ObjectsKept == [][KeepsObjects]_vars
=============================================================================
