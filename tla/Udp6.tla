-------------------------------- MODULE Udp6 --------------------------------
(***************************************************************************)
(* The UDP sockets of net_ipv6.c and the system calls on them: who holds a *)
(* socket, which port it has, which datagrams wait on it, and how a        *)
(* process that waits for one is put to sleep, woken and resumed.          *)
(*                                                                         *)
(* Frames are taken from the network only where the kernel polls the       *)
(* device, and a process runs with interrupts masked, so every step below  *)
(* is one turn of the kernel.  A datagram is the port it is sent to and a  *)
(* number; where it came from and what is in it do not matter.             *)
(***************************************************************************)
EXTENDS Integers, FiniteSets, Sequences

CONSTANTS
    NProcs,   \* processes
    NSocks,   \* sizeof(g_udp6) / sizeof(g_udp6[0])
    QCap,     \* datagrams a socket queues
    EphFirst, \* first ephemeral port, 49152
    EphLast,  \* last port, 65535
    EphTries, \* ports tried before EADDRINUSE
    MaxDgrams \* datagrams the network sends: bounds the model

ASSUME Udp6Assumption ==
    /\ NProcs \in Nat \ {0} /\ NSocks \in Nat \ {0} /\ QCap \in Nat \ {0}
    /\ EphFirst \in Nat \ {0} /\ EphLast \in Nat /\ EphFirst <= EphLast
    /\ EphTries \in Nat \ {0} /\ MaxDgrams \in Nat

Procs == 0 .. NProcs - 1
Socks == 0 .. NSocks - 1
Ports == EphFirst .. EphLast
None  == -1

VARIABLES
    forking,  \* whether a process with a socket may fork
    socks,    \* g_udp6
    eph,      \* g_udp6_ephemeral_next
    fd,       \* the socket behind a process's descriptor, or None
    state,    \* proc_t.state
    pending,  \* pending_udp6_sock_id, None when not pending_udp6_recv
    deadline, \* sleep_deadline_ns: "none", "ahead" or "past"
    got,      \* the number of the datagram a process received last, or 0
    cur,      \* g_cur_proc
    last,     \* g_last_sched
    waiting,  \* cur is in the loop of sys_mona_udp6_recvfrom
    local,    \* deadline_ns of that loop
    sent      \* datagrams the network has sent so far

procVars == <<fd, state, pending, deadline, got>>
vars == <<forking, socks, eph, procVars, cur, last, waiting, local, sent>>

Free == [used |-> FALSE, refs |-> 0, port |-> 0, q |-> <<>>]

Init ==
    /\ forking \in BOOLEAN
    /\ socks = [s \in Socks |-> Free]
    /\ eph = EphFirst
    /\ fd = [p \in Procs |-> None]
    /\ state = [p \in Procs |-> IF forking /\ p # 0 THEN "unused"
                                                    ELSE "runnable"]
    /\ pending = [p \in Procs |-> None]
    /\ deadline = [p \in Procs |-> "none"]
    /\ got = [p \in Procs |-> 0]
    /\ cur = 0 /\ last = 0
    /\ waiting = FALSE /\ local = "none"
    /\ sent = 0

-----------------------------------------------------------------------------
(* Sockets.                                                                *)

\* udp6_port_in_use.
PortInUse(port, skip) ==
    \/ port = 0
    \/ \E s \in Socks \ {skip} : socks[s].used /\ socks[s].port = port

\* The port g_udp6_ephemeral_next names after i increments.
PortAfter(i) == ((eph - EphFirst + i) % (EphLast - EphFirst + 1)) + EphFirst

\* udp6_bind_ephemeral: the tries that find a free port.
FreeTries(s) == {i \in 0 .. EphTries - 1 : ~PortInUse(PortAfter(i), s)}

bind_ephemeral(s) ==
    IF FreeTries(s) = {}
    THEN socks' = socks /\ eph' = PortAfter(EphTries)
    ELSE LET i == CHOOSE t \in FreeTries(s) : \A u \in FreeTries(s) : t <= u
         IN  /\ socks' = [socks EXCEPT ![s].port = PortAfter(i)]
             /\ eph' = PortAfter(i + 1)

\* Mutation: the descriptor a fork copies is not counted.
Incref_Lost(s) == socks

\* net_udp6_on_desc_incref.
Incref(s) ==
    IF s # None /\ socks[s].used
    THEN [socks EXCEPT ![s].refs = @ + 1] ELSE socks

\* net_udp6_on_desc_decref: the last reference empties the slot.
Decref(s) ==
    IF s = None \/ ~socks[s].used THEN socks
    ELSE IF socks[s].refs <= 1 THEN [socks EXCEPT ![s] = Free]
    ELSE [socks EXCEPT ![s].refs = @ - 1]

InUserMode == state[cur] # "unused" /\ ~waiting

\* sys_mona_udp6_socket, with a descriptor free (FdTable models the rest).
sys_mona_udp6_socket ==
    /\ InUserMode
    /\ fd[cur] = None
    /\ \E s \in Socks :
          /\ ~socks[s].used
          /\ \A t \in Socks : t < s => socks[t].used
          /\ socks' = [socks EXCEPT ![s] = [Free EXCEPT !.used = TRUE, !.refs = 1]]
          /\ fd' = [fd EXCEPT ![cur] = s]
    /\ UNCHANGED <<forking, eph, state, pending, deadline, got, cur, last,
                   waiting, local, sent>>

\* sys_mona_udp6_bind: port 0 asks for an ephemeral one.
sys_mona_udp6_bind(port) ==
    /\ InUserMode
    /\ fd[cur] # None /\ socks[fd[cur]].used
    /\ IF port = 0 THEN bind_ephemeral(fd[cur])
       ELSE /\ ~PortInUse(port, fd[cur])
            /\ socks' = [socks EXCEPT ![fd[cur]].port = port]
            /\ eph' = eph
    /\ UNCHANGED <<forking, procVars, cur, last, waiting, local, sent>>

\* net_udp6_sendto: what it does to the socket.  Whether the datagram leaves
\* (module Neighbour) makes no difference here once a port is bound.
sys_mona_udp6_sendto ==
    /\ InUserMode
    /\ fd[cur] # None /\ socks[fd[cur]].used /\ socks[fd[cur]].port = 0
    /\ bind_ephemeral(fd[cur])
    /\ UNCHANGED <<forking, procVars, cur, last, waiting, local, sent>>

\* close, or the end of the process.
close ==
    /\ InUserMode
    /\ fd[cur] # None
    /\ socks' = Decref(fd[cur])
    /\ fd' = [fd EXCEPT ![cur] = None]
    /\ UNCHANGED <<forking, eph, state, pending, deadline, got, cur, last,
                   waiting, local, sent>>

\* fork: the child has the parent's descriptors.
fork(child) ==
    /\ forking
    /\ InUserMode
    /\ state[child] = "unused"
    /\ state' = [state EXCEPT ![child] = "runnable"]
    /\ fd' = [fd EXCEPT ![child] = fd[cur]]
    /\ socks' = Incref(fd[cur])
    /\ UNCHANGED <<forking, eph, pending, deadline, got, cur, last,
                   waiting, local, sent>>

-----------------------------------------------------------------------------
(* Arrival.  The network sends what it likes, to any port.  A poll of the  *)
(* device may bring several frames: all but the last come in Poll.         *)

Polls ==
    {{}} \cup {{[port |-> port, id |-> sent + 1]} :
              port \in IF sent < MaxDgrams THEN Ports ELSE {}}

\* The sockets a datagram goes to: bound to its port and with room.
Takes(s, d) ==
    socks[s].used /\ socks[s].port = d.port /\ Len(socks[s].q) < QCap

\* udp6_deliver and udp6_wake_waiters, for the frames in the set ds (none or
\* one): the sockets, and the state and deadline of every process, after it.
Delivered(ds) ==
    [s \in Socks |-> IF \E d \in ds : Takes(s, d)
                     THEN [socks[s] EXCEPT !.q = @ \o <<CHOOSE d \in ds : TRUE>>]
                     ELSE socks[s]]

\* Mutation: the datagram is queued and nobody is told.
Woken_Nobody(ds) == {}

Woken(ds) ==
    {p \in Procs : /\ pending[p] # None
                   /\ \E d \in ds : Takes(pending[p], d)
                   /\ state[p] \in {"sleeping", "blocked"}}

\* Mutation: a sleeper is woken on every pass.
Due_Always(p, ds) == state[p] = "sleeping"

\* sched_wake_sleepers, after the poll.
Due(p, ds) == state[p] = "sleeping" /\ deadline[p] = "past"

StatePolled(ds) ==
    [p \in Procs |-> IF p \in Woken(ds) \/ Due(p, ds) THEN "runnable" ELSE state[p]]
DeadlinePolled(ds) ==
    [p \in Procs |-> IF p \in Woken(ds) THEN "none" ELSE deadline[p]]

\* The first runnable process after g_last_sched.
After(i) == (last + i) % NProcs
Picked(st) ==
    LET steps == {i \in 1 .. NProcs : st[After(i)] = "runnable"}
    IN  IF steps = {} THEN None
        ELSE After(CHOOSE i \in steps : \A j \in steps : i <= j)

-----------------------------------------------------------------------------
(* Receiving.                                                              *)

\* net_udp6_try_recv.
CanTake(sk, s) == sk[s].used /\ sk[s].q # <<>>
\* Mutation: the newest datagram is taken out, and the oldest returned.
TakeFrom_Newest(sk, s) ==
    IF CanTake(sk, s)
    THEN [sk EXCEPT ![s].q = SubSeq(@, 1, Len(@) - 1)] ELSE sk

TakeFrom(sk, s) == IF CanTake(sk, s) THEN [sk EXCEPT ![s].q = Tail(@)] ELSE sk
Received(p, sk, s) ==
    IF CanTake(sk, s) THEN [got EXCEPT ![p] = Head(sk[s].q).id] ELSE got

\* sys_mona_udp6_recvfrom up to retry_wait.
sys_mona_udp6_recvfrom(timed) ==
    /\ InUserMode
    /\ pending[cur] = None
    /\ fd[cur] # None /\ socks[fd[cur]].used
    /\ IF socks[fd[cur]].q # <<>>
       THEN /\ got' = Received(cur, socks, fd[cur])
            /\ socks' = TakeFrom(socks, fd[cur])
            /\ UNCHANGED <<pending, deadline, state, waiting, local>>
       ELSE /\ pending' = [pending EXCEPT ![cur] = fd[cur]]
            /\ deadline' = [deadline EXCEPT ![cur] = IF timed THEN "ahead" ELSE "none"]
            /\ state' = [state EXCEPT ![cur] = IF timed THEN "sleeping" ELSE "blocked"]
            /\ waiting' = TRUE
            /\ local' = IF timed THEN "ahead" ELSE "none"
            /\ UNCHANGED <<socks, got>>
    /\ UNCHANGED <<forking, eph, fd, cur, last, sent>>

\* The pending receive of p ends, with a datagram or an error, in the state
\* the poll left: sockets sk, states st, deadlines dl.
Finish(p, sk, st, dl) ==
    /\ got' = Received(p, sk, pending[p])
    /\ socks' = TakeFrom(sk, pending[p])
    /\ pending' = [pending EXCEPT ![p] = None]
    /\ deadline' = [dl EXCEPT ![p] = "none"]
    /\ state' = st

\* EAGAIN before the deadline.
StillWaiting(p, sk, dl) ==
    sk[pending[p]].used /\ sk[pending[p]].q = <<>> /\ dl # "past"

\* proc_switch_to, with sched_complete_udp6_recv_if_needed: q runs from here
\* on, also when it is marked waiting again.
Resume(q, sk, st, dl) ==
    /\ cur' = q
    /\ waiting' = FALSE /\ local' = "none"
    /\ \/ /\ pending[q] = None
          /\ socks' = sk /\ state' = st /\ deadline' = dl
          /\ UNCHANGED <<pending, got>>
       \/ /\ pending[q] # None /\ StillWaiting(q, sk, dl[q])
          /\ state' = [st EXCEPT ![q] = IF dl[q] = "none" THEN "blocked" ELSE "sleeping"]
          /\ socks' = sk /\ deadline' = dl
          /\ UNCHANGED <<pending, got>>
       \/ /\ pending[q] # None /\ ~StillWaiting(q, sk, dl[q])
          /\ Finish(q, sk, st, dl)

\* The end of the loop for cur itself, which the pass found runnable.
Inline(sk, st, dl) ==
    /\ cur' = cur
    /\ \/ /\ StillWaiting(cur, sk, local)
          /\ socks' = sk /\ state' = st /\ deadline' = dl
          /\ UNCHANGED <<got, pending, waiting, local>>
       \/ /\ ~StillWaiting(cur, sk, local)
          /\ Finish(cur, sk, st, dl)
          /\ waiting' = FALSE /\ local' = "none"

\* A pass of sched_pick_next_runnable that finds a process, from the receive
\* loop or from a system call that yields: poll, wake, pick, switch.
Schedule ==
    \E ds \in Polls :
      LET sk == Delivered(ds)
          st == StatePolled(ds)
          dl == DeadlinePolled(ds)
          next == Picked(st)
      IN  /\ next # None
          /\ last' = next
          /\ sent' = sent + Cardinality(ds)
          /\ \/ next # cur /\ Resume(next, sk, st, dl)
             \/ next = cur /\ waiting /\ Inline(sk, st, dl)
             \/ /\ next = cur /\ ~waiting
                /\ socks' = sk /\ state' = st /\ deadline' = dl
                /\ UNCHANGED <<pending, got, cur, waiting, local>>
          /\ UNCHANGED <<forking, eph, fd>>

\* usb_poll, at retry_wait or in a pass that goes on.
Poll ==
    /\ \E ds \in Polls \ {{}} :
          /\ socks' = Delivered(ds)
          /\ state' = StatePolled(ds)
          /\ deadline' = DeadlinePolled(ds)
          /\ sent' = sent + Cardinality(ds)
    /\ UNCHANGED <<forking, eph, fd, pending, got, cur, last, waiting, local>>

\* A pass that finds nobody: the kernel idles with what it polled.
Idle ==
    \E ds \in Polls :
      /\ Picked(StatePolled(ds)) = None
      /\ socks' = Delivered(ds)
      /\ sent' = sent + Cardinality(ds)
      /\ UNCHANGED <<forking, eph, procVars, cur, last, waiting, local>>

-----------------------------------------------------------------------------
(* The clock.                                                              *)

\* The clock passes the deadlines of the processes in P.
Passed(d) == IF d = "ahead" THEN "past" ELSE d
Tick(P) ==
    /\ deadline' = [p \in Procs |-> IF p \in P THEN Passed(deadline[p]) ELSE deadline[p]]
    /\ local' = IF cur \in P THEN Passed(local) ELSE local
    /\ <<deadline', local'>> # <<deadline, local>>
    /\ UNCHANGED <<forking, socks, eph, fd, state, pending, got, cur, last,
                   waiting, sent>>

Next ==
    \/ sys_mona_udp6_socket \/ sys_mona_udp6_sendto \/ close
    \/ \E port \in {0, EphFirst} : sys_mona_udp6_bind(port)
    \/ \E child \in Procs : fork(child)
    \/ \E timed \in BOOLEAN : sys_mona_udp6_recvfrom(timed)
    \/ Schedule \/ Poll \/ Idle
    \/ \E p \in Procs : Tick({p})

\* The kernel's passes go on and the clock runs.
Spec ==
    /\ Init /\ [][Next]_vars
    /\ WF_vars(Schedule)
    /\ \A p \in Procs : WF_vars(Tick({p}))

-----------------------------------------------------------------------------
(* Properties.                                                             *)

\* A socket lives exactly as long as a descriptor names it, however the
\* descriptors were copied by fork; no two sockets have one port, whatever
\* the ephemeral counter gave out before; and a queue never exceeds its ring.
SocketsSound ==
    /\ \A s \in Socks :
         /\ socks[s].refs = Cardinality({p \in Procs : fd[p] = s})
         /\ socks[s].used <=> socks[s].refs > 0
         /\ Len(socks[s].q) <= QCap
    /\ \A s, t \in Socks :
         s # t /\ socks[s].port = socks[t].port => socks[s].port = 0

\* Whichever way a datagram is handed over - at once, in the loop of
\* recvfrom, or when the process is resumed - nobody receives it a second
\* time, and the holder of a socket receives in the order of arrival.
DatagramsOnceInOrder ==
    /\ \A s \in Socks, i, j \in 1 .. QCap :
         i < j /\ j <= Len(socks[s].q) => socks[s].q[i].id < socks[s].q[j].id
    /\ \A p, q \in Procs : p # q /\ got[p] # 0 => got[p] # got[q]
    /\ \A p \in Procs, s \in Socks, i \in 1 .. QCap :
         i <= Len(socks[s].q) =>
           /\ socks[s].q[i].id # got[p]
           /\ ~forking /\ s = fd[p] => got[p] < socks[s].q[i].id

\* "Still waiting; keep blocked." (sched.c:168): a process whose receive is
\* not over does not run.
StaysBlocked == pending[cur] # None => waiting

\* As long as every socket has one holder, that is so, and the socket a
\* process waits on is its own.
SoleHolderStaysBlocked ==
    ~forking => /\ StaysBlocked
                /\ \A p \in Procs : pending[p] \in {None, fd[p]}

\* Then, too, a receive with a time-out returns, and so does every receive
\* for which a datagram is queued.
ReceiveReturns ==
    \A p \in Procs :
      /\ ~forking /\ pending[p] # None
      /\ state[p] = "sleeping" \/ socks[pending[p]].q # <<>>
      ~> pending[p] = None
=============================================================================
