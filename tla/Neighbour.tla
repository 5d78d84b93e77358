------------------------------ MODULE Neighbour ------------------------------
(***************************************************************************)
(* How net_ipv6.c finds the way to a destination - the neighbour cache,    *)
(* the address and the router it learns from advertisements, the choice of *)
(* a next hop - and what two clients make of it: the system call ping6,    *)
(* and a program that sends and tries again on EAGAIN.                     *)
(*                                                                         *)
(* ping6 keeps the processor until it returns, but the one request in      *)
(* flight is kernel state that outlives the call.  The network loses,      *)
(* repeats, delays and reorders.  A MAC address is named after the         *)
(* neighbour it belongs to.                                                *)
(***************************************************************************)
EXTENDS Integers, FiniteSets, Sequences

CONSTANTS
    Slots,    \* ND_CACHE_SIZE
    MaxPings, \* ping6 calls made: bounds the model
    Idents    \* (ident, seq) pairs the callers use

ASSUME NeighbourAssumption == Slots \in Nat \ {0} /\ MaxPings \in Nat

\* The router (link-local), a neighbour in the router's prefix, a host beyond
\* the router, and the all-nodes group.
Hosts == {"router", "onlink", "offlink"}
Dsts == Hosts \cup {"multicast"}
Procs == {1, 2}

VARIABLES
    talkers, \* hosts that send to us of their own accord
    failing, \* whether tx_frame may fail
    nd,      \* g_nd, the used slots
    global,  \* ipv6_global_valid, and with it the prefix
    router,  \* ipv6_router_valid
    ping,    \* g_ping_*: the request in flight
    call,    \* the ping6 system call that runs
    pings,   \* calls made so far; a behaviour has pings or a sender
    app,     \* the sender: "idle", "done", or the destination it tries
    withdrawn, \* the router has once advertised a lifetime of 0
    net      \* questions of ours that are in the network

config == <<talkers, failing>>
vars == <<config, nd, global, router, ping, call, pings, app, withdrawn, net>>

Idle == [phase |-> 0]
NoCall == [p |-> 0, done |-> FALSE]

Init ==
    /\ failing \in BOOLEAN
    /\ nd = <<>>
    /\ global = FALSE /\ router = FALSE
    /\ ping = Idle /\ call = NoCall
    /\ \/ app = "idle" /\ pings = 0 /\ talkers = Hosts
       \/ app \in Hosts /\ pings = MaxPings /\ talkers \in SUBSET Hosts
    /\ withdrawn = FALSE
    /\ net = {}

-----------------------------------------------------------------------------
(* The neighbour cache.                                                    *)

\* Frames from beyond the router carry the router's MAC.
MacOf(ip) == IF ip = "offlink" THEN "router" ELSE ip

Entry(cache, ip) == {i \in 1 .. Len(cache) : cache[i].ip = ip}

\* Mutation: the search ends at the first slot that holds another address.
Known_FirstOnly(cache, ip) == cache # <<>> /\ cache[1].ip = ip

\* nd_lookup_mac.
Known(cache, ip) == Entry(cache, ip) # {}

\* Mutation: a full cache is not searched for the address first.
Updated_FullFirst(cache, ip, mac) ==
    LET e == [ip |-> ip, mac |-> mac] IN
    IF Len(cache) = Slots THEN [cache EXCEPT ![1] = e]
    ELSE IF Known(cache, ip) THEN [i \in 1 .. Len(cache) |->
            IF cache[i].ip = ip THEN e ELSE cache[i]]
    ELSE Append(cache, e)

\* nd_update: refresh the address, take a free slot, or evict the first.
Updated(cache, ip, mac) ==
    LET e == [ip |-> ip, mac |-> mac] IN
    IF Known(cache, ip) THEN [i \in 1 .. Len(cache) |->
            IF cache[i].ip = ip THEN e ELSE cache[i]]
    ELSE IF Len(cache) < Slots THEN Append(cache, e)
    ELSE [cache EXCEPT ![1] = e]

-----------------------------------------------------------------------------
(* The way to a destination.                                               *)

IsGlobal(dst) == dst \in {"onlink", "offlink"}

\* ipv6_select_next_hop; "none" is ENETUNREACH.
NextHop(dst) ==
    IF ~IsGlobal(dst) \/ (dst = "onlink" /\ global) THEN dst
    ELSE IF router THEN "router" ELSE "none"

\* ipv6_select_src_ip.
Source(dst) == IF IsGlobal(dst) THEN "global" ELSE "link-local"

\* send_neighbor_solicitation: it goes to a multicast group.
Solicit(target) == [kind |-> "NS", dst |-> target, src |-> Source("multicast")]
Echo(dst, id) == [kind |-> "echo", dst |-> dst, id |-> id, src |-> Source(dst)]

\* A frame handed to the device: it is in the network, or (if sends can
\* fail) the call reports EIO.
TxOutcomes == IF failing THEN {TRUE, FALSE} ELSE {TRUE}
Transmit(f, ok) == net' = IF ok THEN net \cup {f} ELSE net

\* Where a packet to dst goes at once: tcp6_prepare_l2, and the same steps
\* in net_udp6_sendto.  An unanswered neighbour in the prefix is tried
\* through the router.
Reachable(dst) ==
    /\ ~IsGlobal(dst) \/ global
    /\ \/ dst = "multicast"
       \/ NextHop(dst) # "none" /\ Known(nd, NextHop(dst))
       \/ /\ IsGlobal(dst) /\ NextHop(dst) = dst
          /\ router /\ Known(nd, "router")

\* The questions asked on the way.  Before an address is configured that is
\* a router solicitation, which is not modelled: routers advertise unasked
\* as well.
Questions(dst) ==
    IF (IsGlobal(dst) /\ ~global) \/ NextHop(dst) = "none" \/ Known(nd, NextHop(dst))
    THEN {}
    ELSE {Solicit(NextHop(dst))} \cup
         (IF IsGlobal(dst) /\ NextHop(dst) = dst /\ router /\ ~Known(nd, "router")
          THEN {Solicit("router")} ELSE {})

\* A program sends, and sends again when it is told EAGAIN.
Send ==
    /\ call = NoCall
    /\ app \in Hosts
    /\ app' = IF Reachable(app) THEN "done" ELSE app
    /\ net' = net \cup Questions(app)
    /\ UNCHANGED <<config, nd, global, router, ping, call, pings, withdrawn>>

-----------------------------------------------------------------------------
(* ping6.                                                                  *)

\* net_ipv6_ping6_start: why it refuses, in its order.
StartResult(dst) ==
    IF IsGlobal(dst) /\ ~global THEN "EAGAIN"
    ELSE IF ping # Idle THEN "EBUSY"
    ELSE IF NextHop(dst) = "none" THEN "ENETUNREACH" ELSE "started"

\* An echo request goes out at once unless the neighbour must be asked
\* first; on the link it always is.
AsksFirst(dst) ==
    /\ dst # "multicast"
    /\ \/ IsGlobal(dst) /\ NextHop(dst) = dst
       \/ ~Known(nd, NextHop(dst))

Request(c, asks) ==
    [phase |-> IF asks THEN 1 ELSE 2, p |-> c.p, dst |-> c.dst, id |-> c.id,
     nh |-> NextHop(c.dst)]

\* The start of a request for call c: the call becomes c2, or ends with EIO
\* and leaves the request where it is when it is the first (and cancels it
\* when it is a later try, in the loop of sys_mona_ping6).
Start(c, first) ==
    LET asks == AsksFirst(c.dst) IN
    \E ok \in TxOutcomes :
      /\ Transmit(IF asks THEN Solicit(NextHop(c.dst)) ELSE Echo(c.dst, c.id), ok)
      /\ IF ok THEN /\ ping' = Request(c, asks)
                    /\ call' = [c EXCEPT !.started = ~asks]
         ELSE IF first THEN ping' = Request(c, asks) /\ call' = NoCall
         ELSE ping' = Idle /\ call' = [c EXCEPT !.done = TRUE, !.ret = "EIO"]

sys_mona_ping6(p, dst, id) ==
    /\ call = NoCall
    /\ pings < MaxPings
    /\ pings' = pings + 1
    /\ LET c == [p |-> p, dst |-> dst, id |-> id, started |-> FALSE,
                 done |-> FALSE, ret |-> "none", by |-> <<>>]
       IN  \/ StartResult(dst) = "started" /\ Start(c, TRUE)
           \/ /\ StartResult(dst) \in {"EAGAIN", "EBUSY"}
              /\ call' = c /\ UNCHANGED <<ping, net>>
           \/ /\ StartResult(dst) = "ENETUNREACH"
              /\ UNCHANGED <<call, ping, net>>
    /\ UNCHANGED <<config, nd, global, router, app, withdrawn>>

\* A later try, once the network is configured or the slot has come free.
Retry ==
    /\ call # NoCall /\ ~call.done /\ ~call.started
    /\ \/ StartResult(call.dst) = "started" /\ Start(call, FALSE)
       \/ /\ StartResult(call.dst) = "ENETUNREACH"
          /\ call' = [call EXCEPT !.done = TRUE, !.ret = "ENETUNREACH"]
          /\ UNCHANGED <<ping, net>>
    /\ UNCHANGED <<config, nd, global, router, pings, app, withdrawn>>

\* Mutation: the request outlives a call that times out.
Cancelled_Not(p) == ping

\* net_ipv6_ping6_cancel.
Cancelled(p) == IF ping # Idle /\ ping.p = p THEN Idle ELSE ping

\* The loop ends with what completed the request, or at the deadline.
Return ==
    /\ call # NoCall
    /\ ping' = IF call.done THEN ping ELSE Cancelled(call.p)
    /\ call' = NoCall
    /\ UNCHANGED <<config, nd, global, router, pings, app, withdrawn, net>>

-----------------------------------------------------------------------------
(* net_ipv6_input.                                                         *)

\* Traffic that teaches us its sender's MAC and nothing else here: UDP, TCP,
\* echo requests and neighbour solicitations.
Hear(host) ==
    /\ host \in talkers
    /\ nd' = Updated(nd, host, MacOf(host))
    /\ UNCHANGED <<config, global, router, ping, call, pings, app, withdrawn, net>>

\* A router advertisement, with or without a prefix to form an address from.
RouterAdvert(lifetime, prefix) ==
    /\ lifetime = 0 => ~withdrawn
    /\ withdrawn' = (withdrawn \/ lifetime = 0)
    /\ nd' = Updated(nd, "router", "router")
    /\ router' = (lifetime # 0)
    /\ global' = (global \/ prefix)
    /\ UNCHANGED <<config, ping, call, pings, app, net>>

\* A question is answered; it stays in the network for a second answer.
\* maybe_kick_ping_after_nd_update sends the echo that waited for this hop,
\* on behalf of whatever call of its process runs now.
NeighbourAdvert(f) ==
    /\ f \in net /\ f.kind = "NS"
    /\ nd' = Updated(nd, f.dst, f.dst)
    /\ IF /\ ping.phase = 1 /\ ping.nh = f.dst
          /\ call # NoCall /\ call.p = ping.p
       THEN \E ok \in TxOutcomes :
              /\ Transmit(Echo(ping.dst, ping.id), ok)
              /\ ping' = IF ok THEN [ping EXCEPT !.phase = 2] ELSE ping
              /\ call' = IF ok THEN [call EXCEPT !.started = TRUE] ELSE call
       ELSE UNCHANGED <<ping, call, net>>
    /\ UNCHANGED <<config, global, router, pings, app, withdrawn>>

Matches(f) == f.dst = ping.dst /\ f.id = ping.id

\* An echo reply, and ping_complete.
EchoReply(f) ==
    /\ f \in net /\ f.kind = "echo" /\ f.dst \in Hosts
    /\ nd' = Updated(nd, f.dst, MacOf(f.dst))
    /\ IF ping.phase = 2 /\ Matches(f) /\ call # NoCall /\ call.p = ping.p
       THEN /\ call' = [call EXCEPT !.done = TRUE, !.ret = "ok",
                                    !.by = <<f.dst, f.id>>]
            /\ ping' = Idle
       ELSE UNCHANGED <<ping, call>>
    /\ UNCHANGED <<config, global, router, pings, app, withdrawn, net>>

Lose(f) ==
    /\ f \in net
    /\ net' = net \ {f}
    /\ UNCHANGED <<config, nd, global, router, ping, call, pings, app, withdrawn>>

Next ==
    \/ \E p \in Procs, dst \in Dsts, id \in Idents : sys_mona_ping6(p, dst, id)
    \/ Retry \/ Return \/ Send
    \/ \E host \in Hosts : Hear(host)
    \/ \E lifetime \in 0 .. 1, prefix \in BOOLEAN : RouterAdvert(lifetime, prefix)
    \/ \E f \in net : NeighbourAdvert(f) \/ EchoReply(f) \/ Lose(f)

\* The clock ends every call, a program tries again, the router advertises
\* itself now and then, and a neighbour on the link who is asked again and
\* again answers.
Spec ==
    /\ Init /\ [][Next]_vars
    /\ WF_vars(Return) /\ WF_vars(Send)
    /\ WF_vars(RouterAdvert(1, TRUE))
    /\ \A host \in Hosts \ {"offlink"} : SF_vars(NeighbourAdvert(Solicit(host)))

-----------------------------------------------------------------------------
(* Properties.                                                             *)

\* However full the cache was when an address was learned, it has one entry
\* for it, and nothing passes for a neighbour that is not on the link.
CacheSound ==
    /\ \A i, j \in 1 .. Len(nd) : nd[i].ip = nd[j].ip => i = j
    /\ \A i \in 1 .. Len(nd) : nd[i].mac = MacOf(nd[i].ip)

\* As long as no transmission fails, a ping6 that reports success was
\* answered by the host it asked, with its own ident and seq, whatever calls
\* came before it and however late their answers are; and no request is in
\* flight but that of the running call.
PingAnsweredByItsHost ==
    ~failing =>
      /\ ping # Idle => call # NoCall /\ ping.p = call.p
                        /\ ping.dst = call.dst /\ ping.id = call.id
      /\ call # NoCall /\ call.done /\ call.ret = "ok"
         => call.by = <<call.dst, call.id>>

\* A program that tries again gets its packet out, provided the hosts that
\* talk to us and those we ask fit the cache.  With more of them it may not:
\* one slot serves all those who come when the cache is full.
CacheSuffices == Cardinality(talkers \cup {"router", app}) <= Slots
SenderGetsThrough == (app \in Hosts /\ CacheSuffices) ~> app = "done"

\* "This ensures the host learns our (global IP -> MAC) mapping from the NS"
\* (net_ipv6.c:1668): the solicitation sent before an echo to a neighbour
\* comes from the global address.
SolicitationTeachesGlobal ==
    \A f \in net : f.kind = "NS" /\ IsGlobal(f.dst) => f.src = "global"
=============================================================================
