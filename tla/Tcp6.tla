-------------------------------- MODULE Tcp6 --------------------------------
(***************************************************************************)
(* One connection of the TCP client of net_ipv6.c, with the system calls   *)
(* that open, read, write and close it, against a peer that follows the    *)
(* protocol and a network that loses, repeats, delays and reorders.        *)
(*                                                                         *)
(* The peer sends the bytes 1 .. Len and closes.  It retransmits whatever  *)
(* is not acknowledged, cut up as it likes, so that any segment it may     *)
(* have sent can arrive at any time: the network needs no state.           *)
(***************************************************************************)
EXTENDS Integers, Sequences

CONSTANTS
    StreamLen, \* bytes the peer sends
    Window,    \* the window every segment of ours advertises
    RxCap,     \* TCP6_RX_CAP
    SeqMod,    \* sequence numbers wrap here, at 2^32
    MaxSend    \* bytes the program sends: bounds the model

Tcp6Assumption ==
    /\ StreamLen \in Nat /\ Window \in Nat \ {0} /\ RxCap \in Nat \ {0}
    /\ MaxSend \in Nat
    /\ SeqMod \in Nat /\ SeqMod > 2 * (StreamLen + 2)

VARIABLES
    piggyback, \* the peer may put its FIN on its last data
    lossy,     \* whether tx_frame may fail
    irs,       \* the peer's initial sequence number
    state,     \* tcp6_conn_t.state, "free" when not used
    rcv_nxt,   \* tcp6_conn_t.rcv_nxt
    rx,        \* tcp6_conn_t.rx, oldest byte first
    user,      \* the program: "connecting", "open", "closed" or "failed"
    read,      \* bytes it has read
    eof,       \* it has been told of the end of the stream
    out,       \* bytes of ours transmitted: snd_nxt - iss - 1
    acksent,   \* the highest acknowledgement we have sent; -1: none
    acked      \* the highest one the peer has heard

connVars  == <<state, rcv_nxt, rx>>
appVars   == <<user, read, eof>>
sendVars  == <<out>>
peerVars  == <<acksent, acked>>
tcpConfig == <<piggyback, lossy, irs>>
tcpVars   == <<tcpConfig, connVars, appVars, sendVars, peerVars>>

AtMost(a, b) == IF a <= b THEN a ELSE b

TcpInit ==
    /\ piggyback \in BOOLEAN
    /\ lossy \in BOOLEAN
    /\ irs \in {0, SeqMod - 2}
    /\ state = "syn_sent" /\ rcv_nxt = 0 /\ rx = <<>>
    /\ user = "connecting" /\ read = <<>> /\ eof = FALSE
    /\ out = 0
    /\ acksent = -1 /\ acked = -1

\* The sequence number of byte i; StreamLen + 1 is the FIN's.
SeqNo(i) == (irs + i) % SeqMod

\* The byte the peer takes acknowledgement n to ask for, less one.
Acked(n) == (n - irs - 1) % SeqMod

-----------------------------------------------------------------------------
(* tcp6_input.                                                             *)

\* Mutation: only data is acknowledged, not what came before.
AckWith_InOrderOnly(n, sends) ==
    acksent' = IF sends /\ n # rcv_nxt THEN Acked(n) ELSE acksent

\* The acknowledgement of n, which is not sent when the next hop is not
\* known or the device refuses the frame.
AckWith(n, sends) == acksent' = IF sends THEN Acked(n) ELSE acksent

SynAck(sends) ==
    /\ state = "syn_sent"
    /\ state' = "established"
    /\ rcv_nxt' = SeqNo(1)
    /\ AckWith(SeqNo(1), sends)
    /\ UNCHANGED <<tcpConfig, rx, appVars, sendVars, acked>>

\* Segments the peer may have sent: the bytes a + 1 .. b, and a FIN perhaps.
Sent(a, b, fin) ==
    /\ acked >= 0
    /\ a <= b /\ b <= AtMost(StreamLen, acked + Window)
    /\ a < b \/ fin
    /\ fin => b = StreamLen /\ (a = b \/ piggyback)

\* Mutation: data is taken wherever it starts.
InOrder_Any(a) == TRUE

\* seq == rcv_nxt.
InOrder(a) == SeqNo(a + 1) = rcv_nxt

\* As much as there is room for; the peer repeats the rest.
Taken(n) == AtMost(n, RxCap - Len(rx))

Segment(a, b, fin, sends) ==
    /\ Sent(a, b, fin)
    /\ state \in {"established", "close_wait"}
    /\ \/ /\ fin /\ InOrder(a)
          /\ rcv_nxt' = (rcv_nxt + 1) % SeqMod
          /\ state' = "close_wait"
          /\ rx' = rx
       \/ /\ ~fin /\ InOrder(a)
          /\ rcv_nxt' = (rcv_nxt + Taken(b - a)) % SeqMod
          /\ rx' = rx \o [i \in 1 .. AtMost(b - a, RxCap - Len(rx)) |-> a + i]
          /\ state' = state
       \/ ~InOrder(a) /\ UNCHANGED connVars
    /\ AckWith(rcv_nxt', sends)
    /\ UNCHANGED <<tcpConfig, appVars, sendVars, acked>>

\* An acknowledgement reaches the peer.
PeerHears ==
    /\ acked < acksent
    /\ acked' = acksent
    /\ UNCHANGED <<tcpConfig, connVars, appVars, sendVars, acksent>>

-----------------------------------------------------------------------------
(* System calls.                                                           *)

\* A turn of the loop of sys_mona_tcp6_connect: established, or closed by
\* the peer in the same poll, for which connect_start has EINVAL.
Connected ==
    /\ user = "connecting"
    /\ \/ state = "established" /\ user' = "open" /\ state' = state
       \/ state = "close_wait" /\ user' = "failed" /\ state' = "free"
    /\ UNCHANGED <<tcpConfig, rcv_nxt, rx, read, eof, sendVars, peerVars>>

\* The deadline of connect passes: the descriptor is closed.
ConnectTimeout ==
    /\ user = "connecting"
    /\ user' = "failed"
    /\ state' = "free"
    /\ UNCHANGED <<tcpConfig, rcv_nxt, rx, read, eof, sendVars, peerVars>>

\* net_tcp6_try_recv: the end of the stream, once the queue is empty.
AtEnd == state = "close_wait" /\ rx = <<>>

sys_mona_tcp6_recv(n) ==
    /\ user = "open"
    /\ \/ /\ AtEnd
          /\ eof' = TRUE
          /\ UNCHANGED <<read, rx>>
       \/ /\ rx # <<>>
          /\ read' = read \o SubSeq(rx, 1, AtMost(n, Len(rx)))
          /\ rx' = SubSeq(rx, AtMost(n, Len(rx)) + 1, Len(rx))
          /\ eof' = eof
    /\ UNCHANGED <<tcpConfig, state, rcv_nxt, user, sendVars, peerVars>>

\* sys_mona_tcp6_send of n chunks, k of which go out before an error (of
\* which the caller then is not told); each acknowledges what has come in.
sys_mona_tcp6_send(n, k) ==
    /\ user = "open"
    /\ state \in {"established", "close_wait"}
    /\ out + n <= MaxSend
    /\ k <= n /\ (k < n => lossy)
    /\ out' = out + k
    /\ acksent' = IF k > 0 THEN Acked(rcv_nxt) ELSE acksent
    /\ UNCHANGED <<tcpConfig, connVars, appVars, acked>>

\* close: the slot is free, and the peer is not told.
close ==
    /\ user = "open"
    /\ user' = "closed"
    /\ state' = "free"
    /\ UNCHANGED <<tcpConfig, rcv_nxt, rx, read, eof, sendVars, peerVars>>

TcpNext ==
    \/ \E sends \in BOOLEAN : SynAck(sends)
    \/ \E a, b \in 0 .. StreamLen, fin, sends \in BOOLEAN : Segment(a, b, fin, sends)
    \/ PeerHears
    \/ Connected \/ ConnectTimeout \/ close
    \/ \E n \in 1 .. 2 : sys_mona_tcp6_recv(n)
    \/ \E n, k \in 0 .. 2 : sys_mona_tcp6_send(n, k)

\* The peer retransmits what is next, one byte of it and, at the end, a FIN
\* of its own.
PeerRepeats ==
    \/ Segment(acked, acked + 1, FALSE, TRUE)
    \/ acked = StreamLen /\ Segment(StreamLen, StreamLen, TRUE, TRUE)

\* The network delivers in the end what is sent again and again, either way
\* (acked only grows, so that this is fairness to each segment); the program
\* reads.
TcpSpec ==
    /\ TcpInit /\ [][TcpNext]_tcpVars
    /\ SF_tcpVars(PeerRepeats) /\ SF_tcpVars(PeerHears)
    /\ WF_tcpVars(Connected)
    /\ WF_tcpVars(sys_mona_tcp6_recv(1))

-----------------------------------------------------------------------------
(* Properties.                                                             *)

\* As long as the peer sends its FIN alone, the bytes read and those queued
\* are the stream from its start, whatever was repeated, came out of order
\* or did not fit, also where sequence numbers wrap; rcv_nxt asks for the
\* byte after them, or acknowledges the FIN, so that what the peer may forget
\* is with us; and the program is told of the end when it has all of it.  (A
\* FIN on a segment with data moves rcv_nxt by one, as if there were none.)
StreamIntact ==
    LET got == read \o rx IN
    ~piggyback =>
      /\ got = [i \in 1 .. Len(got) |-> i]
      /\ state \in {"established", "close_wait"} =>
           rcv_nxt = SeqNo(Len(got) + IF state = "close_wait" THEN 2 ELSE 1)
      /\ eof => Len(read) = StreamLen

\* A program that reads on gets the whole stream and its end, though we
\* never retransmit and never lower the window: the peer does it all, from
\* when it has heard that the connection stands.  (The acknowledgement of
\* its SYN is sent once: when that is lost, and the program sends nothing,
\* both sides wait for ever, the answer to a repeated SYN being nothing.)
StreamArrives ==
    (user = "open" /\ ~piggyback /\ acked >= 0) ~> (eof \/ user # "open")
=============================================================================
