--------------------------------- MODULE MCIo ---------------------------------
(***************************************************************************)
(* Small instances of the parts of the kernel that wait for the world      *)
(* outside: the idle loop, neighbours with ping6, and a TCP connection.    *)
(* They share no state in the models, so that a behaviour follows one of   *)
(* them, which; the others stay in an initial state.                       *)
(***************************************************************************)
EXTENDS Neighbour, Tcp6, Idle

VARIABLES which

iovars == <<which, vars, tcpVars, idleVars>>

ASSUME IoAssumption == Tcp6Assumption /\ IdleAssumption

-----------------------------------------------------------------------------
MCInit ==
    /\ which \in {"neighbour", "tcp", "idle"}
    /\ Init /\ TcpInit /\ IdleInit
    /\ which # "neighbour" => app = "idle" /\ ~failing
    /\ which # "tcp" => ~piggyback /\ ~lossy /\ irs = 0
    /\ which # "idle" => ~polling /\ sleeper = "awake" /\ reader = "awake"

NdStep(A)  == which = "neighbour" /\ A /\ UNCHANGED <<which, tcpVars, idleVars>>
TcpStep(A) == which = "tcp" /\ A /\ UNCHANGED <<which, vars, idleVars>>
CpuStep(A) == which = "idle" /\ A /\ UNCHANGED <<which, vars, tcpVars>>

MCNext ==
    NdStep(Next) \/ TcpStep(TcpNext) \/ CpuStep(IdleNext)

\* The fairness of the three specifications.  Only steps of one of them can
\* ever be taken in a behaviour, so that fairness to the disjunction of steps
\* of different ones is fairness to each.
Answers(host) == NdStep(NeighbourAdvert(Solicit(host)))
MCSpec ==
    /\ MCInit /\ [][MCNext]_iovars
    /\ WF_iovars(\/ NdStep(Return) \/ TcpStep(Connected) \/ CpuStep(Process))
    /\ WF_iovars(\/ NdStep(Send) \/ TcpStep(sys_mona_tcp6_recv(1))
                 \/ CpuStep(Kernel))
    /\ WF_iovars(\/ NdStep(RouterAdvert(1, TRUE)) \/ CpuStep(Tick))
    /\ SF_iovars(Answers("onlink") \/ TcpStep(PeerRepeats) \/ CpuStep(cpu_wfi))
    /\ SF_iovars(Answers("router") \/ TcpStep(PeerHears) \/ CpuStep(irq_disable))

=============================================================================
