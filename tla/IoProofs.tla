------------------------------- MODULE IoProofs -------------------------------
(***************************************************************************)
(* The parts of the kernel that deal with the world outside, for every     *)
(* value of their constants:                                               *)
(*   - Neighbour: the cache stays sound and ping6 reports the answer of    *)
(*     the host it asked, for every size of the cache and every number of  *)
(*     calls, whatever the network loses or repeats;                       *)
(*   - Tcp6: what the program has read and what is queued are the stream   *)
(*     from its start, for every stream, window, receive buffer and        *)
(*     modulus of sequence numbers;                                        *)
(*   - Idle: the timer is armed in time and only when it is needed, for    *)
(*     every length of sleeps, polls and ticks and every interleaving of   *)
(*     interrupts with the idle window;                                    *)
(*   - Term: the screen shows what was written and the log keeps the end   *)
(*     of what was printed, for every screen, framebuffer and log and      *)
(*     every escape sequence.                                              *)
(***************************************************************************)
EXTENDS Neighbour, Tcp6, Idle, Term, FiniteSetTheorems, SequenceTheorems, TLAPS

-----------------------------------------------------------------------------
(* Neighbour: the cache and ping6.                                         *)

\* Only hosts on the link are ever solicited.
OnLink == Hosts \ {"offlink"}
CacheEntry == [ip : Hosts, mac : Hosts]
Question == [kind : {"NS"}, dst : OnLink, src : {"link-local"}]
EchoRequest == [kind : {"echo"}, dst : Dsts, id : Idents, src : {"global", "link-local"}]
PingRequest == [phase : {1, 2}, p : Procs, dst : Dsts, id : Idents, nh : OnLink \cup {"multicast"}]
PingCall ==
    [p : Procs, dst : Dsts, id : Idents, started : BOOLEAN, done : BOOLEAN,
     ret : {"none", "ok", "EIO", "ENETUNREACH"}, by : {<<>>} \cup (Hosts \X Idents)]

TypeOK ==
    /\ failing \in BOOLEAN /\ talkers \in SUBSET Hosts
    /\ nd \in Seq(CacheEntry) /\ Len(nd) <= Slots
    /\ global \in BOOLEAN /\ router \in BOOLEAN /\ withdrawn \in BOOLEAN
    /\ ping \in {Idle} \cup PingRequest
    /\ call \in {NoCall} \cup PingCall
    /\ pings \in Nat
    /\ app \in {"idle", "done"} \cup Hosts
    /\ net \in SUBSET (Question \cup EchoRequest)

\* A call that is done has left no request in flight, for Return does not
\* cancel the request of such a call.
DoneLeavesNone == ~failing /\ call # NoCall /\ call.done => ping = Idle

PingInv == PingAnsweredByItsHost /\ DoneLeavesNone

NeighbourInv == TypeOK /\ CacheSound /\ PingInv

-----------------------------------------------------------------------------
(* The cache.                                                              *)

\* A cache of a legal size whose entries are distinct and on the link.
SoundCache(cache) ==
    /\ cache \in Seq(CacheEntry) /\ Len(cache) <= Slots
    /\ \A i, j \in 1 .. Len(cache) : cache[i].ip = cache[j].ip => i = j
    /\ \A i \in 1 .. Len(cache) : cache[i].mac = MacOf(cache[i].ip)

LEMMA MacOfHost ==
    ASSUME NEW ip \in Hosts
    PROVE  MacOf(ip) \in Hosts
BY DEF MacOf, Hosts

\* nd_update keeps a sound cache sound, in each of its three cases.
LEMMA UpdatedSound ==
    ASSUME NEW cache, SoundCache(cache), NEW ip \in Hosts
    PROVE  SoundCache(Updated(cache, ip, MacOf(ip)))
<1> DEFINE e == [ip |-> ip, mac |-> MacOf(ip)]
           new == Updated(cache, ip, MacOf(ip))
<1>1. /\ e \in CacheEntry /\ e.ip = ip /\ e.mac = MacOf(ip)
      /\ cache \in Seq(CacheEntry) /\ Len(cache) \in Nat /\ Len(cache) <= Slots
      /\ \A i \in 1 .. Len(cache) : cache[i] \in CacheEntry
  <2>1. e \in CacheEntry /\ e.ip = ip /\ e.mac = MacOf(ip)
    BY MacOfHost DEF CacheEntry
  <2>2. cache \in Seq(CacheEntry) /\ Len(cache) <= Slots
    BY DEF SoundCache
  <2> QED
    BY <2>1, <2>2
<1>2. CASE Known(cache, ip)
  <2>1. new = [i \in 1 .. Len(cache) |-> IF cache[i].ip = ip THEN e ELSE cache[i]]
    BY <1>2 DEF Updated
  <2> HIDE DEF e, new
  <2>2. new \in Seq(CacheEntry) /\ Len(new) = Len(cache)
    BY <1>1, <2>1
  <2>3. \A i \in 1 .. Len(new) :
          new[i].ip = cache[i].ip /\ new[i].mac = MacOf(new[i].ip)
    BY <1>1, <2>1, <2>2 DEF SoundCache
  <2> QED
    BY <1>1, <2>2, <2>3 DEF SoundCache, new
<1>3. CASE ~Known(cache, ip) /\ Len(cache) < Slots
  <2>1. new = Append(cache, e)
    BY <1>3 DEF Updated
  <2>2. \A i \in 1 .. Len(cache) : cache[i].ip # ip
    BY <1>3 DEF Known, Entry
  <2> HIDE DEF e, new
  <2>3. /\ new \in Seq(CacheEntry) /\ Len(new) = Len(cache) + 1
        /\ new[Len(cache) + 1] = e
        /\ \A i \in 1 .. Len(cache) : new[i] = cache[i]
    BY <1>1, <2>1
  <2> QED
    BY <1>1, <1>3, <2>2, <2>3, NeighbourAssumption DEF SoundCache, new
<1>4. CASE ~Known(cache, ip) /\ ~(Len(cache) < Slots)
  <2>1. new = [cache EXCEPT ![1] = e]
    BY <1>4 DEF Updated
  <2>2. \A i \in 1 .. Len(cache) : cache[i].ip # ip
    BY <1>4 DEF Known, Entry
  <2> HIDE DEF e, new
  <2>3. /\ new \in Seq(CacheEntry) /\ Len(new) = Len(cache) /\ new[1] = e
        /\ \A i \in 2 .. Len(cache) : new[i] = cache[i]
    BY <1>1, <1>4, <2>1, NeighbourAssumption
  <2> QED
    BY <1>1, <2>2, <2>3 DEF SoundCache, new
<1> QED
  BY <1>2, <1>3, <1>4

LEMMA SoundCacheIsCacheSound ==
    ASSUME TypeOK
    PROVE  CacheSound <=> SoundCache(nd)
BY DEF TypeOK, CacheSound, SoundCache

-----------------------------------------------------------------------------
(* The way to a destination.                                               *)

\* A hop is on the link or the group itself: nothing solicits a host beyond
\* the router, and nothing solicits the group.
LEMMA NextHopOnLink ==
    ASSUME NEW dst \in Dsts, NextHop(dst) # "none"
    PROVE  /\ NextHop(dst) \in OnLink \cup {"multicast"}
           /\ dst # "multicast" => NextHop(dst) \in OnLink
BY DEF NextHop, IsGlobal, OnLink, Dsts, Hosts

LEMMA SolicitIsQuestion ==
    ASSUME NEW target \in OnLink
    PROVE  Solicit(target) \in Question
BY DEF Solicit, Question, Source, IsGlobal

LEMMA EchoIsRequest ==
    ASSUME NEW dst \in Dsts, NEW id \in Idents
    PROVE  Echo(dst, id) \in EchoRequest
BY DEF Echo, EchoRequest, Source, IsGlobal

LEMMA QuestionsAsked ==
    ASSUME NEW dst \in Hosts
    PROVE  Questions(dst) \in SUBSET Question
<1>1. dst \in Dsts /\ dst # "multicast" /\ "router" \in OnLink
  BY DEF Dsts, Hosts, OnLink
<1> QED
  BY <1>1, NextHopOnLink, SolicitIsQuestion DEF Questions

LEMMA SomeCall ==
    ASSUME NEW c \in PingCall
    PROVE  c # NoCall
<1>1. DOMAIN c # DOMAIN NoCall
  <2>1. "dst" \in DOMAIN c
    BY DEF PingCall
  <2>2. "dst" \notin DOMAIN NoCall
    BY DEF NoCall
  <2> QED
    BY <2>1, <2>2
<1> QED
  BY <1>1

\* What the start of a request writes.
LEMMA StartTypes ==
    ASSUME TypeOK, NEW c \in PingCall, NEW first \in BOOLEAN,
           StartResult(c.dst) = "started", Start(c, first)
    PROVE  /\ net' \in SUBSET (Question \cup EchoRequest)
           /\ ping' \in {Idle} \cup PingRequest
           /\ call' \in {NoCall} \cup PingCall
           /\ ~failing => /\ ping' \in PingRequest /\ call' \in PingCall
                          /\ ping'.p = c.p /\ ping'.dst = c.dst /\ ping'.id = c.id
                          /\ call'.p = c.p /\ call'.dst = c.dst /\ call'.id = c.id
                          /\ call'.done = c.done
<1> DEFINE asks == AsksFirst(c.dst)
           f == IF asks THEN Solicit(NextHop(c.dst)) ELSE Echo(c.dst, c.id)
<1>1. c.dst \in Dsts /\ c.id \in Idents /\ c.p \in Procs /\ NextHop(c.dst) # "none"
  BY DEF PingCall, StartResult
<1>2. asks \in BOOLEAN /\ (asks => c.dst # "multicast")
  BY DEF AsksFirst
<1>3. f \in Question \cup EchoRequest
  BY <1>1, <1>2, NextHopOnLink, SolicitIsQuestion, EchoIsRequest
<1>4. Request(c, asks) \in PingRequest /\ Request(c, asks).p = c.p
      /\ Request(c, asks).dst = c.dst /\ Request(c, asks).id = c.id
  BY <1>1, NextHopOnLink DEF Request, PingRequest
<1>5. [c EXCEPT !.started = ~asks] \in PingCall
      /\ [c EXCEPT !.started = ~asks].p = c.p
      /\ [c EXCEPT !.started = ~asks].dst = c.dst
      /\ [c EXCEPT !.started = ~asks].id = c.id
      /\ [c EXCEPT !.started = ~asks].done = c.done
  BY <1>2 DEF PingCall
<1>6. [c EXCEPT !.done = TRUE, !.ret = "EIO"] \in PingCall
  BY DEF PingCall
<1>7. PICK ok \in TxOutcomes :
        /\ Transmit(f, ok)
        /\ IF ok THEN /\ ping' = Request(c, asks)
                      /\ call' = [c EXCEPT !.started = ~asks]
           ELSE IF first THEN ping' = Request(c, asks) /\ call' = NoCall
           ELSE ping' = Idle /\ call' = [c EXCEPT !.done = TRUE, !.ret = "EIO"]
  BY DEF Start
<1>8. ~failing => ok
  BY <1>7 DEF TxOutcomes
<1> HIDE DEF asks, f
<1>9. net' \in SUBSET (Question \cup EchoRequest)
  BY <1>3, <1>7 DEF Transmit, TypeOK
<1> QED
  BY <1>4, <1>5, <1>6, <1>7, <1>8, <1>9

-----------------------------------------------------------------------------
(* The invariant is kept by every step.                                    *)

LEMMA InitNeighbour == Init => NeighbourInv
<1> SUFFICES ASSUME Init PROVE NeighbourInv
  OBVIOUS
<1>1. TypeOK
  <2>1. <<>> \in Seq(CacheEntry) /\ Len(<<>>) <= Slots
    BY NeighbourAssumption
  <2>2. app \in {"idle", "done"} \cup Hosts /\ pings \in Nat /\ talkers \in SUBSET Hosts
    BY NeighbourAssumption DEF Init
  <2> QED
    BY <2>1, <2>2 DEF Init, TypeOK
<1>2. CacheSound
  BY DEF Init, CacheSound
<1>3. PingInv
  BY DEF Init, PingInv, PingAnsweredByItsHost, DoneLeavesNone
<1> QED
  BY <1>1, <1>2, <1>3 DEF NeighbourInv

\* The cache after a frame from a host.
LEMMA HeardSound ==
    ASSUME NeighbourInv, NEW ip \in Hosts, nd' = Updated(nd, ip, MacOf(ip))
    PROVE  nd' \in Seq(CacheEntry) /\ Len(nd') <= Slots /\ CacheSound'
<1>1. SoundCache(nd)
  BY SoundCacheIsCacheSound DEF NeighbourInv
<1>2. SoundCache(nd')
  BY <1>1, UpdatedSound
<1> QED
  BY <1>2 DEF SoundCache, CacheSound

LEMMA SendKeeps == NeighbourInv /\ Send => NeighbourInv'
<1> SUFFICES ASSUME NeighbourInv, Send PROVE NeighbourInv'
  OBVIOUS
<1>1. TypeOK'
  BY QuestionsAsked DEF Send, NeighbourInv, TypeOK, config
<1>2. CacheSound'
  BY DEF Send, NeighbourInv, CacheSound
<1>3. PingInv'
  BY DEF Send, NeighbourInv, PingInv, PingAnsweredByItsHost, DoneLeavesNone, config
<1> QED
  BY <1>1, <1>2, <1>3 DEF NeighbourInv

LEMMA CallKeeps ==
    ASSUME NeighbourInv, NEW p \in Procs, NEW dst \in Dsts, NEW id \in Idents,
           sys_mona_ping6(p, dst, id)
    PROVE  NeighbourInv'
<1> DEFINE c == [p |-> p, dst |-> dst, id |-> id, started |-> FALSE,
                 done |-> FALSE, ret |-> "none", by |-> <<>>]
<1>1. /\ c \in PingCall /\ ~c.done /\ c.dst = dst /\ c.p = p /\ c.id = id
  BY DEF PingCall
<1>2. /\ call = NoCall /\ pings' = pings + 1
      /\ UNCHANGED <<config, nd, global, router, app, withdrawn>>
      /\ \/ StartResult(c.dst) = "started" /\ Start(c, TRUE)
         \/ call' = c /\ UNCHANGED <<ping, net>>
         \/ UNCHANGED <<call, ping, net>>
  BY DEF sys_mona_ping6
<1> HIDE DEF c
<1>3. TypeOK'
  <2>1. CASE StartResult(c.dst) = "started" /\ Start(c, TRUE)
    <3>1. /\ net' \in SUBSET (Question \cup EchoRequest)
          /\ ping' \in {Idle} \cup PingRequest
          /\ call' \in {NoCall} \cup PingCall
      BY <1>1, <2>1, StartTypes DEF NeighbourInv
    <3> QED
      BY <1>2, <3>1 DEF NeighbourInv, TypeOK, config
  <2>2. CASE call' = c /\ UNCHANGED <<ping, net>>
    BY <1>1, <1>2, <2>2 DEF NeighbourInv, TypeOK, config
  <2>3. CASE UNCHANGED <<call, ping, net>>
    BY <1>2, <2>3 DEF NeighbourInv, TypeOK, config
  <2> QED
    BY <1>2, <2>1, <2>2, <2>3
<1>4. CacheSound'
  BY <1>2 DEF NeighbourInv, CacheSound
<1>5. ~failing => ping = Idle
  BY <1>2 DEF NeighbourInv, PingInv, PingAnsweredByItsHost
<1>6. PingInv'
  <2>1. CASE StartResult(c.dst) = "started" /\ Start(c, TRUE)
    <3>1. TypeOK
      BY DEF NeighbourInv
    <3>2. ~failing => /\ ping'.p = c.p /\ ping'.dst = c.dst /\ ping'.id = c.id
                      /\ call'.p = c.p /\ call'.dst = c.dst /\ call'.id = c.id
                      /\ ~call'.done /\ call' # NoCall
      BY <1>1, <2>1, <3>1, StartTypes, SomeCall
    <3> QED
      BY <1>2, <3>2 DEF PingInv, PingAnsweredByItsHost, DoneLeavesNone, config
  <2>2. CASE call' = c /\ UNCHANGED <<ping, net>>
    BY <1>1, <1>2, <1>5, <2>2 DEF PingInv, PingAnsweredByItsHost, DoneLeavesNone, config
  <2>3. CASE UNCHANGED <<call, ping, net>>
    BY <1>2, <1>5, <2>3 DEF PingInv, PingAnsweredByItsHost, DoneLeavesNone, config
  <2> QED
    BY <1>2, <2>1, <2>2, <2>3
<1> QED
  BY <1>3, <1>4, <1>6 DEF NeighbourInv

LEMMA RetryKeeps == NeighbourInv /\ Retry => NeighbourInv'
<1> SUFFICES ASSUME NeighbourInv, Retry PROVE NeighbourInv'
  OBVIOUS
<1>1. /\ call \in PingCall /\ ~call.done
      /\ UNCHANGED <<config, nd, global, router, pings, app, withdrawn>>
      /\ \/ StartResult(call.dst) = "started" /\ Start(call, FALSE)
         \/ /\ call' = [call EXCEPT !.done = TRUE, !.ret = "ENETUNREACH"]
            /\ StartResult(call.dst) = "ENETUNREACH"
            /\ UNCHANGED <<ping, net>>
  BY DEF Retry, NeighbourInv, TypeOK
<1>2. CASE StartResult(call.dst) = "started" /\ Start(call, FALSE)
  <2>1. TypeOK'
    BY <1>1, <1>2, StartTypes DEF NeighbourInv, TypeOK, config
  <2>2. PingInv'
    <3>1. TypeOK
      BY DEF NeighbourInv
    <3>2. ~failing =>
             /\ ping'.p = call.p /\ ping'.dst = call.dst /\ ping'.id = call.id
             /\ call'.p = call.p /\ call'.dst = call.dst /\ call'.id = call.id
             /\ ~call'.done /\ call' # NoCall
      BY <1>1, <1>2, <3>1, StartTypes, SomeCall
    <3> QED
      BY <1>1, <3>2 DEF PingInv, PingAnsweredByItsHost, DoneLeavesNone, config
  <2> QED
    BY <1>1, <2>1, <2>2 DEF NeighbourInv, CacheSound
<1>3. CASE /\ call' = [call EXCEPT !.done = TRUE, !.ret = "ENETUNREACH"]
           /\ StartResult(call.dst) = "ENETUNREACH"
           /\ UNCHANGED <<ping, net>>
  <2>1. /\ call' \in PingCall /\ call'.ret = "ENETUNREACH"
        /\ call'.p = call.p /\ call'.dst = call.dst /\ call'.id = call.id
    BY <1>1, <1>3 DEF PingCall
  <2>2. ping = Idle
    BY <1>3 DEF StartResult
  <2>3. TypeOK'
    BY <1>1, <1>3, <2>1 DEF NeighbourInv, TypeOK, config
  <2>4. PingInv'
    BY <1>3, <2>1, <2>2
       DEF NeighbourInv, PingInv, PingAnsweredByItsHost, DoneLeavesNone
  <2> QED
    BY <1>1, <2>3, <2>4 DEF NeighbourInv, CacheSound
<1> QED
  BY <1>1, <1>2, <1>3

LEMMA ReturnKeeps == NeighbourInv /\ Return => NeighbourInv'
<1> SUFFICES ASSUME NeighbourInv, Return PROVE NeighbourInv'
  OBVIOUS
<1>1. TypeOK'
  BY DEF Return, Cancelled, NeighbourInv, TypeOK, config
<1>2. CacheSound'
  BY DEF Return, NeighbourInv, CacheSound
<1>3. ~failing => ping' = Idle
  BY DEF Return, Cancelled, NeighbourInv, PingInv, PingAnsweredByItsHost, DoneLeavesNone
<1>4. PingInv'
  BY <1>3 DEF Return, PingInv, PingAnsweredByItsHost, DoneLeavesNone, config
<1> QED
  BY <1>1, <1>2, <1>4 DEF NeighbourInv

LEMMA HearKeeps ==
    ASSUME NeighbourInv, NEW host \in Hosts, Hear(host)
    PROVE  NeighbourInv'
<1>1. nd' \in Seq(CacheEntry) /\ Len(nd') <= Slots /\ CacheSound'
  BY HeardSound DEF Hear
<1>2. TypeOK'
  BY <1>1 DEF Hear, NeighbourInv, TypeOK, config
<1>3. PingInv'
  BY DEF Hear, NeighbourInv, PingInv, PingAnsweredByItsHost, DoneLeavesNone, config
<1> QED
  BY <1>1, <1>2, <1>3 DEF NeighbourInv

LEMMA RouterAdvertKeeps ==
    ASSUME NeighbourInv, NEW lifetime \in 0 .. 1, NEW prefix \in BOOLEAN,
           RouterAdvert(lifetime, prefix)
    PROVE  NeighbourInv'
<1>1. nd' \in Seq(CacheEntry) /\ Len(nd') <= Slots /\ CacheSound'
  BY HeardSound DEF RouterAdvert, MacOf, Hosts
<1>2. TypeOK'
  BY <1>1 DEF RouterAdvert, NeighbourInv, TypeOK, config
<1>3. PingInv'
  BY DEF RouterAdvert, NeighbourInv, PingInv, PingAnsweredByItsHost, DoneLeavesNone, config
<1> QED
  BY <1>1, <1>2, <1>3 DEF NeighbourInv

LEMMA NeighbourAdvertKeeps ==
    ASSUME NeighbourInv, NEW f \in net, NeighbourAdvert(f)
    PROVE  NeighbourInv'
<1>1. f.dst \in Hosts /\ MacOf(f.dst) = f.dst
  BY DEF NeighbourAdvert, NeighbourInv, TypeOK, Question, EchoRequest, OnLink, MacOf
<1>2. nd' \in Seq(CacheEntry) /\ Len(nd') <= Slots /\ CacheSound'
  BY <1>1, HeardSound DEF NeighbourAdvert
<1>3. UNCHANGED <<config, global, router, pings, app, withdrawn>>
  BY DEF NeighbourAdvert
<1>4. CASE ping.phase = 1 /\ ping.nh = f.dst /\ call # NoCall /\ call.p = ping.p
  <2>1. ping \in PingRequest /\ call \in PingCall
    BY <1>4 DEF NeighbourInv, TypeOK, Idle
  <2>2. PICK ok \in TxOutcomes :
          /\ Transmit(Echo(ping.dst, ping.id), ok)
          /\ ping' = IF ok THEN [ping EXCEPT !.phase = 2] ELSE ping
          /\ call' = IF ok THEN [call EXCEPT !.started = TRUE] ELSE call
    BY <1>4 DEF NeighbourAdvert
  <2>3. /\ ping' \in PingRequest /\ ping'.p = ping.p
        /\ ping'.dst = ping.dst /\ ping'.id = ping.id
    BY <2>1, <2>2 DEF PingRequest
  <2>4. /\ call' \in PingCall /\ call'.p = call.p /\ call'.dst = call.dst
        /\ call'.id = call.id /\ call'.done = call.done
        /\ call'.ret = call.ret /\ call'.by = call.by
    BY <2>1, <2>2 DEF PingCall
  <2>5. Echo(ping.dst, ping.id) \in EchoRequest
    BY <2>1, EchoIsRequest DEF PingRequest
  <2>6. TypeOK'
    BY <1>2, <1>3, <2>2, <2>3, <2>4, <2>5 DEF NeighbourInv, TypeOK, Transmit, config
  <2>7. ping # Idle /\ call # NoCall
    BY <1>4 DEF Idle
  <2>8. call' # NoCall
    BY <2>4, SomeCall
  <2>9. PingInv'
    BY <1>3, <2>3, <2>4, <2>7, <2>8
       DEF NeighbourInv, PingInv, PingAnsweredByItsHost, DoneLeavesNone, config
  <2> QED
    BY <1>2, <2>6, <2>9 DEF NeighbourInv
<1>5. CASE ~(ping.phase = 1 /\ ping.nh = f.dst /\ call # NoCall /\ call.p = ping.p)
  <2>1. UNCHANGED <<ping, call, net>>
    BY <1>5 DEF NeighbourAdvert
  <2>2. TypeOK'
    BY <1>2, <1>3, <2>1 DEF NeighbourInv, TypeOK, config
  <2>3. PingInv'
    BY <1>3, <2>1
       DEF NeighbourInv, PingInv, PingAnsweredByItsHost, DoneLeavesNone, config
  <2> QED
    BY <1>2, <2>2, <2>3 DEF NeighbourInv
<1> QED
  BY <1>4, <1>5

\* An answer completes a call only when it is the answer to the request of
\* that very call.
LEMMA EchoReplyKeeps ==
    ASSUME NeighbourInv, NEW f \in net, EchoReply(f)
    PROVE  NeighbourInv'
<1>1. f.dst \in Hosts /\ f.id \in Idents
  BY DEF EchoReply, NeighbourInv, TypeOK, Question, EchoRequest
<1>2. nd' \in Seq(CacheEntry) /\ Len(nd') <= Slots /\ CacheSound'
  BY <1>1, HeardSound DEF EchoReply
<1>3. UNCHANGED <<config, global, router, pings, app, withdrawn, net>>
  BY DEF EchoReply
<1>4. CASE ping.phase = 2 /\ Matches(f) /\ call # NoCall /\ call.p = ping.p
  <2>1. call \in PingCall /\ ping # Idle
    BY <1>4 DEF NeighbourInv, TypeOK, Idle
  <2>2. /\ call' = [call EXCEPT !.done = TRUE, !.ret = "ok", !.by = <<f.dst, f.id>>]
        /\ ping' = Idle
    BY <1>4 DEF EchoReply
  <2>3. /\ call' \in PingCall /\ call'.by = <<f.dst, f.id>>
        /\ call'.dst = call.dst /\ call'.id = call.id
    BY <1>1, <2>1, <2>2 DEF PingCall
  <2>4. TypeOK'
    BY <1>2, <1>3, <2>2, <2>3 DEF NeighbourInv, TypeOK, config
  <2>5. ~failing => f.dst = call.dst /\ f.id = call.id
    BY <1>4, <2>1 DEF NeighbourInv, PingInv, PingAnsweredByItsHost, Matches
  <2>6. PingInv'
    BY <1>3, <2>2, <2>3, <2>5 DEF PingInv, PingAnsweredByItsHost, DoneLeavesNone, config
  <2> QED
    BY <1>2, <2>4, <2>6 DEF NeighbourInv
<1>5. CASE ~(ping.phase = 2 /\ Matches(f) /\ call # NoCall /\ call.p = ping.p)
  <2>1. UNCHANGED <<ping, call>>
    BY <1>5 DEF EchoReply
  <2>2. TypeOK'
    BY <1>2, <1>3, <2>1 DEF NeighbourInv, TypeOK, config
  <2>3. PingInv'
    BY <1>3, <2>1
       DEF NeighbourInv, PingInv, PingAnsweredByItsHost, DoneLeavesNone, config
  <2> QED
    BY <1>2, <2>2, <2>3 DEF NeighbourInv
<1> QED
  BY <1>4, <1>5

LEMMA LoseKeeps ==
    ASSUME NeighbourInv, NEW f \in net, Lose(f)
    PROVE  NeighbourInv'
<1>1. TypeOK'
  BY DEF Lose, NeighbourInv, TypeOK, config
<1>2. CacheSound' /\ PingInv'
  BY DEF Lose, NeighbourInv, CacheSound, PingInv, PingAnsweredByItsHost, DoneLeavesNone,
         config
<1> QED
  BY <1>1, <1>2 DEF NeighbourInv

LEMMA StepNeighbour == NeighbourInv /\ [Next]_vars => NeighbourInv'
<1> SUFFICES ASSUME NeighbourInv, [Next]_vars PROVE NeighbourInv'
  OBVIOUS
<1>1. CASE UNCHANGED vars
  BY <1>1 DEF vars, config, NeighbourInv, TypeOK, CacheSound, PingInv,
              PingAnsweredByItsHost, DoneLeavesNone
<1>2. CASE Next
  BY <1>2, SendKeeps, CallKeeps, RetryKeeps, ReturnKeeps, HearKeeps,
     RouterAdvertKeeps, NeighbourAdvertKeeps, EchoReplyKeeps, LoseKeeps DEF Next
<1> QED
  BY <1>1, <1>2

-----------------------------------------------------------------------------
(* The theorems.                                                           *)

LEMMA NeighbourInvariant == Spec => []NeighbourInv
BY InitNeighbour, StepNeighbour, PTL DEF Spec

\* For every size of the cache: nd_update never gives an address two entries,
\* and an entry names the MAC that serves its address.
THEOREM CacheStaysSound == Spec => []CacheSound
BY NeighbourInvariant, PTL DEF NeighbourInv

\* For every number of calls and set of identifiers: as long as no
\* transmission fails, ping6 reports success only for an answer of the host it
\* asked to its own request, and leaves no request behind.
THEOREM PingsAreAnswered == Spec => []PingAnsweredByItsHost
BY NeighbourInvariant, PTL DEF NeighbourInv, PingInv

-----------------------------------------------------------------------------
(* A sender and a cache that suffices for it.                              *)

\* While a program tries to send, no ping6 runs, the only questions in the
\* network are its own, and the cache knows only those who talk to us or who
\* may have been asked.
SenderSet == talkers \cup {"router", app}
SenderInv ==
    app \in Hosts =>
      /\ pings = MaxPings /\ call = NoCall
      /\ net \in SUBSET {Solicit("router"), Solicit(app)}
      /\ \A i \in 1 .. Len(nd) : nd[i].ip \in SenderSet

\* A known neighbour stays known: nd_update evicts nobody.
Remembers == \A ip \in Hosts : Known(nd, ip) => Known(nd', ip)

\* While a program sends through a cache that suffices, no step forgets a
\* neighbour, so that a hop once learned is there at the next try.
NothingForgotten == [][(app \in Hosts /\ CacheSuffices) => Remembers]_vars

LEMMA UpdatedIps ==
    ASSUME NEW cache, SoundCache(cache), NEW ip \in Hosts,
           NEW S, ip \in S, \A i \in 1 .. Len(cache) : cache[i].ip \in S
    PROVE  \A i \in 1 .. Len(Updated(cache, ip, MacOf(ip))) :
              Updated(cache, ip, MacOf(ip))[i].ip \in S
<1> DEFINE e == [ip |-> ip, mac |-> MacOf(ip)]
           new == Updated(cache, ip, MacOf(ip))
<1>1. cache \in Seq(CacheEntry) /\ e.ip = ip
  BY DEF SoundCache
<1>2. \/ new = [i \in 1 .. Len(cache) |-> IF cache[i].ip = ip THEN e ELSE cache[i]]
      \/ new = Append(cache, e)
      \/ new = [cache EXCEPT ![1] = e]
  BY DEF Updated
<1> HIDE DEF e, new
<1>3. CASE new = [i \in 1 .. Len(cache) |-> IF cache[i].ip = ip THEN e ELSE cache[i]]
  BY <1>1, <1>3 DEF new
<1>4. CASE new = Append(cache, e)
  BY <1>1, <1>4 DEF new
<1>5. CASE new = [cache EXCEPT ![1] = e]
  BY <1>1, <1>5 DEF new
<1> QED
  BY <1>2, <1>3, <1>4, <1>5

\* Among few enough addresses a new one finds a free slot.
LEMMA SufficientRoom ==
    ASSUME NEW cache, SoundCache(cache), NEW S, IsFiniteSet(S), Cardinality(S) <= Slots,
           NEW ip \in S, ~Known(cache, ip),
           \A i \in 1 .. Len(cache) : cache[i].ip \in S
    PROVE  Len(cache) < Slots
<1> SUFFICES ASSUME Len(cache) >= Slots PROVE FALSE
  BY NeighbourAssumption DEF SoundCache
<1>1. Len(cache) \in Nat /\ Len(cache) = Slots
  BY NeighbourAssumption DEF SoundCache
<1>2. IsFiniteSet(1 .. Len(cache)) /\ Cardinality(1 .. Len(cache)) = Len(cache)
  <2>1. PICK n \in Nat : n = Len(cache)
    BY <1>1
  <2>2. IsFiniteSet(1 .. n) /\ Cardinality(1 .. n) = IF 1 > n THEN 0 ELSE n - 1 + 1
    BY FS_Interval
  <2>3. Cardinality(1 .. n) = n
    BY <2>2
  <2> QED
    BY <2>1, <2>2, <2>3
<1>3. IsFiniteSet(S \ {ip}) /\ Cardinality(S \ {ip}) = Cardinality(S) - 1
      /\ Cardinality(S) \in Nat
  BY FS_RemoveElement, FS_CardinalityType
<1> DEFINE f == [i \in 1 .. Len(cache) |-> cache[i].ip]
<1>4. f \in [1 .. Len(cache) -> S \ {ip}]
  BY DEF Known, Entry
<1> HIDE DEF f
<1>5. \E i, j \in 1 .. Len(cache) : i # j /\ f[i] = f[j]
  <2>1. Cardinality(S \ {ip}) < Cardinality(1 .. Len(cache))
    BY <1>1, <1>2, <1>3, NeighbourAssumption
  <2> QED
    BY <1>2, <1>3, <1>4, <2>1, FS_PigeonHole
<1> QED
  BY <1>5 DEF f, SoundCache

\* Without an eviction every address that was known still is.
LEMMA UpdatedRemembers ==
    ASSUME NEW cache, SoundCache(cache), NEW ip \in Hosts,
           Known(cache, ip) \/ Len(cache) < Slots
    PROVE  \A x \in Hosts : Known(cache, x) => Known(Updated(cache, ip, MacOf(ip)), x)
<1> DEFINE e == [ip |-> ip, mac |-> MacOf(ip)]
           new == Updated(cache, ip, MacOf(ip))
<1>1. cache \in Seq(CacheEntry) /\ Len(cache) \in Nat /\ e.ip = ip
  BY DEF SoundCache
<1>2. \/ new = [i \in 1 .. Len(cache) |-> IF cache[i].ip = ip THEN e ELSE cache[i]]
      \/ new = Append(cache, e)
  BY DEF Updated
<1> HIDE DEF e, new
<1>3. Len(new) \in Nat /\ Len(new) >= Len(cache)
      /\ \A i \in 1 .. Len(cache) : new[i].ip = cache[i].ip
  BY <1>1, <1>2
<1> QED
  BY <1>1, <1>3 DEF Known, Entry, new

LEMMA SenderHears ==
    ASSUME NeighbourInv, SenderInv, app \in Hosts, NEW ip \in SenderSet,
           nd' = Updated(nd, ip, MacOf(ip)), UNCHANGED <<talkers, app>>
    PROVE  /\ \A i \in 1 .. Len(nd') : nd'[i].ip \in SenderSet
           /\ CacheSuffices => Remembers
<1>1. SoundCache(nd) /\ SenderSet \in SUBSET Hosts /\ ip \in Hosts
  BY SoundCacheIsCacheSound DEF NeighbourInv, SenderSet, TypeOK, Hosts
<1>2. \A i \in 1 .. Len(nd') : nd'[i].ip \in SenderSet
  BY <1>1, UpdatedIps DEF SenderInv
<1>3. ASSUME CacheSuffices PROVE Remembers
  <2>1. IsFiniteSet(SenderSet) /\ Cardinality(SenderSet) <= Slots
    <3>1. IsFiniteSet(Hosts)
      <4>1. IsFiniteSet({"router"} \cup {"onlink"})
        BY FS_Singleton, FS_AddElement
      <4>2. IsFiniteSet(({"router"} \cup {"onlink"}) \cup {"offlink"})
        BY <4>1, FS_AddElement
      <4> QED
        BY <4>2 DEF Hosts
    <3> QED
      BY <1>1, <1>3, <3>1, FS_Subset DEF CacheSuffices, SenderSet
  <2>2. Known(nd, ip) \/ Len(nd) < Slots
    BY <1>1, <2>1, SufficientRoom DEF SenderInv
  <2> QED
    BY <1>1, <2>2, UpdatedRemembers DEF Remembers
<1> QED
  BY <1>2, <1>3

LEMMA InitSender == Init => SenderInv
BY DEF Init, SenderInv, Hosts

LEMMA StepSender ==
    NeighbourInv /\ SenderInv /\ [Next]_vars
      => SenderInv' /\ (app \in Hosts /\ CacheSuffices => Remembers)
<1> SUFFICES ASSUME NeighbourInv, SenderInv, [Next]_vars
             PROVE  SenderInv' /\ (app \in Hosts /\ CacheSuffices => Remembers)
  OBVIOUS
<1>1. app' \in Hosts => app \in Hosts /\ app' = app
  BY DEF Next, vars, sys_mona_ping6, Retry, Return, Send, Hear, RouterAdvert,
         NeighbourAdvert, EchoReply, Lose, Hosts
<1> SUFFICES ASSUME app \in Hosts
             PROVE  /\ app' \in Hosts => SenderInv'
                    /\ CacheSuffices => Remembers
  BY <1>1 DEF SenderInv
<1>2. /\ pings = MaxPings /\ call = NoCall
      /\ net \in SUBSET {Solicit("router"), Solicit(app)}
  BY DEF SenderInv
<1>3. CASE UNCHANGED vars
  BY <1>3 DEF vars, config, SenderInv, SenderSet, Remembers, Solicit, Source
<1>4. CASE \E p \in Procs, dst \in Dsts, id \in Idents : sys_mona_ping6(p, dst, id)
  BY <1>2, <1>4, NeighbourAssumption DEF sys_mona_ping6
<1>5. CASE Retry \/ Return
  BY <1>2, <1>5 DEF Retry, Return
<1>6. CASE Send
  <2>1. Questions(app) \in SUBSET {Solicit("router"), Solicit(app)}
    BY DEF Questions, NextHop
  <2> QED
    BY <1>1, <1>2, <1>6, <2>1 DEF Send, SenderInv, SenderSet, Remembers, config
<1>7. ASSUME NEW host \in Hosts, Hear(host)
      PROVE  (app' \in Hosts => SenderInv') /\ (CacheSuffices => Remembers)
  <2>1. host \in SenderSet
    BY <1>7 DEF Hear, SenderSet
  <2> QED
    BY <1>2, <1>7, <2>1, SenderHears DEF Hear, SenderInv, SenderSet, config
<1>8. ASSUME NEW lifetime \in 0 .. 1, NEW prefix \in BOOLEAN,
             RouterAdvert(lifetime, prefix)
      PROVE  (app' \in Hosts => SenderInv') /\ (CacheSuffices => Remembers)
  <2>1. "router" \in SenderSet /\ MacOf("router") = "router"
    BY DEF SenderSet, MacOf
  <2> QED
    BY <1>2, <1>8, <2>1, SenderHears DEF RouterAdvert, SenderInv, SenderSet, config
<1>9. ASSUME NEW f \in net, NeighbourAdvert(f)
      PROVE  (app' \in Hosts => SenderInv') /\ (CacheSuffices => Remembers)
  <2>1. f.dst \in SenderSet
    BY <1>2 DEF SenderSet, Solicit
  <2>2. f.dst # "offlink"
    BY <1>9 DEF NeighbourAdvert, NeighbourInv, TypeOK, Question, EchoRequest, OnLink
  <2>3. MacOf(f.dst) = f.dst
    BY <2>2 DEF MacOf
  <2> QED
    BY <1>2, <1>9, <2>1, <2>3, SenderHears
       DEF NeighbourAdvert, SenderInv, SenderSet, config
<1>10. ASSUME NEW f \in net, EchoReply(f)
       PROVE  (app' \in Hosts => SenderInv') /\ (CacheSuffices => Remembers)
  BY <1>2, <1>10 DEF EchoReply, Solicit
<1>11. ASSUME NEW f \in net, Lose(f)
       PROVE  (app' \in Hosts => SenderInv') /\ (CacheSuffices => Remembers)
  BY <1>2, <1>11 DEF Lose, SenderInv, SenderSet, Remembers, config
<1> QED
  BY <1>3, <1>4, <1>5, <1>6, <1>7, <1>8, <1>9, <1>10, <1>11 DEF Next

\* For every size of the cache: a sender whose hosts fit the cache never has
\* one of them evicted (nd_update), which is the part of its getting through
\* that does not rest on fairness.
THEOREM SenderIsNotForgotten == Spec => NothingForgotten
<1>1. NeighbourInv /\ SenderInv /\ [Next]_vars
        => [(app \in Hosts /\ CacheSuffices) => Remembers]_vars
  BY StepSender
<1> QED
  BY <1>1, NeighbourInvariant, InitSender, StepSender, PTL DEF Spec, NothingForgotten

-----------------------------------------------------------------------------
(* Tcp6: the stream.                                                       *)

Got == Len(read) + Len(rx)

\* While the peer sends its FIN alone: read and queued bytes are numbered on
\* without a gap, and rcv_nxt is the number of the byte after them, or of what
\* comes after the FIN.
InStream ==
    /\ Got <= StreamLen
    /\ \A i \in 1 .. Len(read) : read[i] = i
    /\ \A j \in 1 .. Len(rx) : rx[j] = Len(read) + j
    /\ state = "syn_sent" => Got = 0
    /\ state = "established" => rcv_nxt = SeqNo(Got + 1)
    /\ state = "close_wait" => Got = StreamLen /\ rcv_nxt = SeqNo(Got + 2)
    /\ eof => Len(read) = StreamLen

TcpTypeOK ==
    /\ piggyback \in BOOLEAN /\ irs \in 0 .. SeqMod - 1
    /\ state \in {"free", "syn_sent", "established", "close_wait"}
    /\ read \in Seq(Nat) /\ rx \in Seq(Nat) /\ Len(rx) <= RxCap

StreamInv == TcpTypeOK /\ (~piggyback => InStream)

-----------------------------------------------------------------------------
(* Sequence numbers.                                                       *)

LEMMA Sizes ==
    ASSUME Tcp6Assumption
    PROVE  /\ StreamLen \in Nat /\ RxCap \in Nat /\ SeqMod \in Nat
           /\ SeqMod > StreamLen + 2 /\ SeqMod > 2
BY DEF Tcp6Assumption

\* Numbers wrap at most once.
LEMMA WrapsOnce ==
    ASSUME NEW M \in Nat \ {0}, NEW z \in Nat, z < M + M
    PROVE  z % M = IF z < M THEN z ELSE z - M
<1> DEFINE q == z \div M
           r == z % M
<1>1. q \in Nat /\ r \in 0 .. M - 1
  BY Z3
<1>2. z = M * q + r
  BY Z3
<1> HIDE DEF q, r
<1>3. CASE q = 0
  BY <1>1, <1>2, <1>3 DEF r
<1>4. CASE q = 1
  BY <1>1, <1>2, <1>4 DEF r
<1>5. CASE q > 1
  <2>1. q - 2 \in Nat /\ M * q = M + M + M * (q - 2)
    BY <1>1, <1>5
  <2>2. M * (q - 2) \in Nat
    BY <2>1
  <2> QED
    BY <1>1, <1>2, <2>1, <2>2
<1> QED
  BY <1>1, <1>3, <1>4, <1>5

LEMMA SeqNumbers ==
    ASSUME Tcp6Assumption, irs \in 0 .. SeqMod - 1, NEW x \in 0 .. StreamLen + 2
    PROVE  /\ SeqNo(x) = IF irs + x < SeqMod THEN irs + x ELSE irs + x - SeqMod
           /\ SeqNo(x) \in 0 .. SeqMod - 1
<1>1. irs + x \in Nat /\ irs + x < SeqMod + SeqMod /\ SeqMod \in Nat \ {0}
  BY Sizes
<1>2. PICK z \in Nat : z = irs + x
  BY <1>1
<1>3. z % SeqMod = IF z < SeqMod THEN z ELSE z - SeqMod
  BY <1>1, <1>2, WrapsOnce
<1> QED
  BY <1>1, <1>2, <1>3, Sizes DEF SeqNo

\* Within a stream no two numbers are the same.
LEMMA SeqNosDiffer ==
    ASSUME Tcp6Assumption, irs \in 0 .. SeqMod - 1,
           NEW x \in 0 .. StreamLen + 2, NEW y \in 0 .. StreamLen + 2, SeqNo(x) = SeqNo(y)
    PROVE  x = y
BY Sizes, SeqNumbers

LEMMA SeqNosAdd ==
    ASSUME Tcp6Assumption, irs \in 0 .. SeqMod - 1,
           NEW x \in 0 .. StreamLen + 2, NEW k \in Nat, x + k <= StreamLen + 2
    PROVE  (SeqNo(x) + k) % SeqMod = SeqNo(x + k)
<1>1. SeqNo(x) + k \in Nat /\ SeqNo(x) + k < SeqMod + SeqMod /\ SeqMod \in Nat \ {0}
  BY Sizes, SeqNumbers
<1>2. PICK z \in Nat : z = SeqNo(x) + k
  BY <1>1
<1>3. z % SeqMod = IF z < SeqMod THEN z ELSE z - SeqMod
  BY <1>1, <1>2, WrapsOnce
<1>4. PICK y \in 0 .. StreamLen + 2 : y = x + k
  BY Sizes
<1>5. /\ SeqNo(x) = IF irs + x < SeqMod THEN irs + x ELSE irs + x - SeqMod
      /\ SeqNo(y) = IF irs + y < SeqMod THEN irs + y ELSE irs + y - SeqMod
  BY <1>4, SeqNumbers
<1>6. z % SeqMod = SeqNo(y)
  BY <1>2, <1>3, <1>4, <1>5, Sizes
<1> QED
  BY <1>2, <1>4, <1>6

\* The same for the byte a segment starts with and the byte that is next.
LEMMA NumbersDiffer ==
    ASSUME Tcp6Assumption, irs \in 0 .. SeqMod - 1, Got \in 0 .. StreamLen,
           NEW a \in 0 .. StreamLen, NEW d \in 1 .. 2, SeqNo(a + 1) = SeqNo(Got + d)
    PROVE  a + 1 = Got + d
<1>1. PICK x \in 0 .. StreamLen + 2 : x = a + 1
  BY Sizes
<1>2. PICK y \in 0 .. StreamLen + 2 : y = Got + d
  BY Sizes
<1>3. SeqNo(x) = SeqNo(y)
  BY <1>1, <1>2
<1> QED
  BY <1>1, <1>2, <1>3, SeqNosDiffer

LEMMA NumberAfter ==
    ASSUME Tcp6Assumption, irs \in 0 .. SeqMod - 1, Got \in 0 .. StreamLen,
           NEW k \in Nat, Got + 1 + k <= StreamLen + 2
    PROVE  (SeqNo(Got + 1) + k) % SeqMod = SeqNo(Got + 1 + k)
<1>1. PICK x \in 0 .. StreamLen + 2 : x = Got + 1
  BY Sizes
<1>2. (SeqNo(x) + k) % SeqMod = SeqNo(x + k)
  BY <1>1, SeqNosAdd
<1> QED
  BY <1>1, <1>2

\* The elements of a concatenation.
LEMMA Joined ==
    ASSUME NEW s \in Seq(Nat), NEW t \in Seq(Nat)
    PROVE  /\ s \o t \in Seq(Nat) /\ Len(s \o t) = Len(s) + Len(t)
           /\ \A i \in 1 .. Len(s) : (s \o t)[i] = s[i]
           /\ \A i \in 1 .. Len(t) : (s \o t)[Len(s) + i] = t[i]
<1>1. Len(s) \in Nat /\ Len(t) \in Nat
  OBVIOUS
<1>2. /\ s \o t \in Seq(Nat) /\ Len(s \o t) = Len(s) + Len(t)
      /\ \A i \in 1 .. Len(s) + Len(t) :
            (s \o t)[i] = IF i <= Len(s) THEN s[i] ELSE t[i - Len(s)]
  BY ConcatProperties
<1>3. ASSUME NEW i \in 1 .. Len(t) PROVE (s \o t)[Len(s) + i] = t[i]
  <2>1. PICK h \in 1 .. Len(s) + Len(t) : h = Len(s) + i
    BY <1>1
  <2>2. (s \o t)[h] = t[h - Len(s)] /\ h - Len(s) = i
    BY <1>1, <1>2, <2>1
  <2> QED
    BY <2>1, <2>2
<1> QED
  BY <1>1, <1>2, <1>3

-----------------------------------------------------------------------------
(* Steps.                                                                  *)

LEMMA InitInStream ==
    ASSUME Tcp6Assumption, TcpInit
    PROVE  StreamInv
<1>1. <<>> \in Seq(Nat) /\ Len(<<>>) = 0
  OBVIOUS
<1>2. irs \in 0 .. SeqMod - 1
  BY Sizes DEF TcpInit
<1> QED
  BY <1>1, <1>2, Sizes DEF TcpInit, StreamInv, TcpTypeOK, InStream, Got

\* A segment is taken where the stream goes on, and nowhere else.
LEMMA SegmentStep ==
    ASSUME Tcp6Assumption, StreamInv, NEW a \in 0 .. StreamLen, NEW b \in 0 .. StreamLen,
           NEW fin \in BOOLEAN, NEW sends \in BOOLEAN, Segment(a, b, fin, sends)
    PROVE  StreamInv'
<1>1. /\ a <= b /\ b <= StreamLen /\ (fin => b = StreamLen /\ (a = b \/ piggyback))
      /\ state \in {"established", "close_wait"}
      /\ UNCHANGED <<piggyback, irs, read, eof>>
  BY DEF Segment, Sent, tcpConfig, appVars
<1>2. TcpTypeOK
  BY DEF StreamInv
<1>3. Len(read) \in Nat /\ Len(rx) \in Nat
  BY <1>2 DEF TcpTypeOK
<1>4. CASE UNCHANGED connVars
  BY <1>1, <1>4 DEF connVars, StreamInv, TcpTypeOK, InStream, Got, SeqNo
<1>5. CASE /\ fin /\ InOrder(a)
           /\ rcv_nxt' = (rcv_nxt + 1) % SeqMod
           /\ state' = "close_wait"
           /\ rx' = rx
  <2>1. TcpTypeOK'
    BY <1>1, <1>2, <1>5 DEF TcpTypeOK
  <2>2. ASSUME ~piggyback PROVE InStream'
    <3>1. a = StreamLen /\ SeqNo(a + 1) = rcv_nxt /\ InStream
      BY <1>1, <1>5, <2>2 DEF InOrder, StreamInv
    <3>2. Got \in 0 .. StreamLen
      BY <1>3, <3>1, Sizes DEF InStream, Got
    <3>3. rcv_nxt = SeqNo(Got + 1) /\ Got = StreamLen
      <4>1. CASE state = "established"
        <5>1. SeqNo(a + 1) = SeqNo(Got + 1)
          BY <3>1, <4>1 DEF InStream
        <5>2. a + 1 = Got + 1
          BY <1>2, <3>2, <5>1, NumbersDiffer DEF TcpTypeOK
        <5> QED
          BY <3>1, <3>2, <5>1, <5>2, Sizes
      <4>2. CASE state = "close_wait"
        <5>1. SeqNo(a + 1) = SeqNo(Got + 2) /\ Got = StreamLen
          BY <3>1, <4>2 DEF InStream
        <5>2. a + 1 = Got + 2
          BY <1>2, <3>2, <5>1, NumbersDiffer DEF TcpTypeOK
        <5> QED
          BY <3>1, <5>1, <5>2, Sizes
      <4> QED
        BY <1>1, <4>1, <4>2
    <3>4. rcv_nxt' = SeqNo(Got + 1 + 1)
      BY <1>2, <1>5, <3>2, <3>3, Sizes, NumberAfter DEF TcpTypeOK
    <3>5. rcv_nxt' = SeqNo(Got + 2)
      BY <3>2, <3>4, Sizes
    <3> QED
      BY <1>1, <1>5, <3>1, <3>3, <3>5 DEF InStream, Got, SeqNo
  <2> QED
    BY <1>1, <2>1, <2>2 DEF StreamInv
<1>6. CASE /\ ~fin /\ InOrder(a)
           /\ rcv_nxt' = (rcv_nxt + Taken(b - a)) % SeqMod
           /\ rx' = rx \o [i \in 1 .. AtMost(b - a, RxCap - Len(rx)) |-> a + i]
           /\ state' = state
  <2> DEFINE k == AtMost(b - a, RxCap - Len(rx))
             new == [i \in 1 .. k |-> a + i]
  <2>1. k \in Nat /\ k <= b - a /\ Len(rx) + k <= RxCap /\ Taken(b - a) = k
    BY <1>1, <1>2, <1>3, Sizes DEF AtMost, Taken, TcpTypeOK
  <2> HIDE DEF k
  <2>2. new \in Seq(Nat) /\ Len(new) = k /\ \A i \in 1 .. k : new[i] = a + i
    BY <2>1
  <2> HIDE DEF new
  <2>3. rx' = rx \o new /\ rcv_nxt' = (rcv_nxt + k) % SeqMod
    BY <1>6, <2>1 DEF k, new
  <2>4. /\ rx' \in Seq(Nat) /\ Len(rx') = Len(rx) + k
        /\ \A j \in 1 .. Len(rx) : rx'[j] = rx[j]
        /\ \A j \in 1 .. k : rx'[Len(rx) + j] = new[j]
    <3>1. rx \in Seq(Nat)
      BY <1>2 DEF TcpTypeOK
    <3>2. /\ rx \o new \in Seq(Nat) /\ Len(rx \o new) = Len(rx) + k
          /\ \A j \in 1 .. Len(rx) : (rx \o new)[j] = rx[j]
          /\ \A j \in 1 .. k : (rx \o new)[Len(rx) + j] = new[j]
      BY <2>2, <3>1, Joined
    <3> QED
      BY <2>3, <3>2
  <2>5. TcpTypeOK'
    BY <1>1, <1>2, <1>6, <2>1, <2>4 DEF TcpTypeOK
  <2>6. ASSUME ~piggyback PROVE InStream'
    <3>1. SeqNo(a + 1) = rcv_nxt /\ InStream
      BY <1>6, <2>6 DEF InOrder, StreamInv
    <3>2. Got \in 0 .. StreamLen
      BY <1>3, <3>1, Sizes DEF InStream, Got
    <3>3. state = "established" /\ rcv_nxt = SeqNo(Got + 1) /\ Got = a
      <4>1. CASE state = "established"
        <5>1. SeqNo(a + 1) = SeqNo(Got + 1) /\ rcv_nxt = SeqNo(Got + 1)
          BY <3>1, <4>1 DEF InStream
        <5>2. a + 1 = Got + 1
          BY <1>2, <3>2, <5>1, NumbersDiffer DEF TcpTypeOK
        <5> QED
          BY <4>1, <3>2, <5>1, <5>2, Sizes
      <4>2. CASE state = "close_wait"
        <5>1. SeqNo(a + 1) = SeqNo(Got + 2) /\ Got = StreamLen
          BY <3>1, <4>2 DEF InStream
        <5>2. a + 1 = Got + 2
          BY <1>2, <3>2, <5>1, NumbersDiffer DEF TcpTypeOK
        <5> QED
          BY <5>1, <5>2, Sizes
      <4> QED
        BY <1>1, <4>1, <4>2
    <3>4. Got + 1 + k <= StreamLen + 1
      BY <1>1, <2>1, <3>2, <3>3, Sizes
    <3>5. rcv_nxt' = SeqNo(Got + 1 + k)
      <4>1. irs \in 0 .. SeqMod - 1 /\ k \in Nat
        BY <1>2, <2>1 DEF TcpTypeOK
      <4>2. Got + 1 + k <= StreamLen + 2
        BY <2>1, <3>2, <3>4, Sizes
      <4>3. (SeqNo(Got + 1) + k) % SeqMod = SeqNo(Got + 1 + k)
        BY <3>2, <4>1, <4>2, NumberAfter
      <4> QED
        BY <2>3, <3>3, <4>3
    <3>6. Got' = Got + k /\ Got + 1 + k = Got + k + 1
      BY <1>1, <1>3, <2>1, <2>4 DEF Got
    <3>7. Got' <= StreamLen
      BY <3>2, <3>4, <3>6, <2>1, Sizes
    <3>8. rcv_nxt' = SeqNo(Got + 1)'
      BY <1>1, <3>5, <3>6 DEF SeqNo
    <3>9. ASSUME NEW j \in 1 .. Len(rx') PROVE rx'[j] = Len(read) + j
      <4>1. CASE j <= Len(rx)
        BY <1>3, <2>4, <3>1, <4>1 DEF InStream
      <4>2. CASE j > Len(rx)
        <5>1. PICK h \in 1 .. k : j = Len(rx) + h
          <6>1. j - Len(rx) \in 1 .. k /\ j = Len(rx) + (j - Len(rx))
            BY <1>3, <2>1, <2>4, <4>2
          <6> QED
            BY <6>1
        <5>2. rx'[j] = a + h
          BY <2>2, <2>4, <5>1
        <5> QED
          BY <1>3, <3>3, <5>1, <5>2 DEF Got
      <4> QED
        BY <1>3, <2>1, <2>4, <4>1, <4>2
    <3>10. eof => Len(read) = StreamLen
      BY <3>1 DEF InStream
    <3> QED
      BY <1>1, <1>6, <3>1, <3>3, <3>7, <3>8, <3>9, <3>10 DEF InStream
  <2> QED
    BY <1>1, <2>5, <2>6 DEF StreamInv
<1> QED
  BY <1>4, <1>5, <1>6 DEF Segment

\* What is read leaves the queue.
LEMMA RecvStep ==
    ASSUME Tcp6Assumption, StreamInv, NEW n \in Nat, sys_mona_tcp6_recv(n)
    PROVE  StreamInv'
<1>1. UNCHANGED <<piggyback, irs, state, rcv_nxt>>
  BY DEF sys_mona_tcp6_recv, tcpConfig
<1>2. TcpTypeOK /\ Len(read) \in Nat /\ Len(rx) \in Nat
  BY DEF StreamInv, TcpTypeOK
<1>3. CASE AtEnd /\ eof' = TRUE /\ UNCHANGED <<read, rx>>
  <2>1. TcpTypeOK'
    BY <1>1, <1>2, <1>3 DEF TcpTypeOK
  <2>2. ASSUME ~piggyback PROVE InStream'
    <3>1. InStream /\ state = "close_wait" /\ Len(rx) = 0
      BY <1>3, <2>2 DEF AtEnd, StreamInv
    <3>2. Len(read) = StreamLen
      BY <1>2, <3>1 DEF InStream, Got
    <3> QED
      BY <1>1, <1>3, <3>1, <3>2 DEF InStream, Got, SeqNo
  <2> QED
    BY <1>1, <2>1, <2>2 DEF StreamInv
<1>4. CASE /\ rx # <<>>
           /\ read' = read \o SubSeq(rx, 1, AtMost(n, Len(rx)))
           /\ rx' = SubSeq(rx, AtMost(n, Len(rx)) + 1, Len(rx))
           /\ eof' = eof
  <2> DEFINE m == AtMost(n, Len(rx))
             front == SubSeq(rx, 1, m)
  <2>1. m \in Nat /\ m <= Len(rx)
    BY <1>2 DEF AtMost
  <2> HIDE DEF m
  <2>2. front \in Seq(Nat) /\ Len(front) = m /\ \A i \in 1 .. m : front[i] = rx[i]
    BY <1>2, <2>1 DEF TcpTypeOK
  <2>3. /\ rx' \in Seq(Nat) /\ Len(rx') = Len(rx) - m
        /\ \A j \in 1 .. Len(rx) - m : rx'[j] = rx[m + j]
    <3>1. rx' = SubSeq(rx, m + 1, Len(rx))
      BY <1>4 DEF m
    <3> QED
      BY <1>2, <2>1, <3>1 DEF TcpTypeOK
  <2>4. read' = read \o front
    BY <1>4 DEF m
  <2> HIDE DEF front
  <2>5. /\ read' \in Seq(Nat) /\ Len(read') = Len(read) + m
        /\ \A i \in 1 .. Len(read) : read'[i] = read[i]
        /\ \A i \in 1 .. m : read'[Len(read) + i] = front[i]
    BY <1>2, <2>1, <2>2, <2>4, Joined DEF TcpTypeOK
  <2>6. TcpTypeOK'
    BY <1>1, <1>2, <2>1, <2>3, <2>5, Sizes DEF TcpTypeOK
  <2>7. Got' = Got
    BY <1>2, <2>1, <2>3, <2>5 DEF Got
  <2>8. ASSUME ~piggyback PROVE InStream'
    <3>1. InStream
      BY <2>8 DEF StreamInv
    <3>2. ASSUME NEW i \in 1 .. Len(read') PROVE read'[i] = i
      <4>1. CASE i <= Len(read)
        <5>1. i \in 1 .. Len(read)
          BY <1>2, <2>5, <4>1
        <5> QED
          BY <2>5, <3>1, <5>1 DEF InStream
      <4>2. CASE i > Len(read)
        <5>1. PICK h \in 1 .. m : i = Len(read) + h
          <6>1. i - Len(read) \in 1 .. m /\ i = Len(read) + (i - Len(read))
            BY <1>2, <2>1, <2>5, <4>2
          <6> QED
            BY <6>1
        <5>2. h \in 1 .. Len(rx) /\ read'[i] = rx[h]
          BY <1>2, <2>1, <2>2, <2>5, <5>1
        <5> QED
          BY <1>2, <3>1, <5>1, <5>2 DEF InStream
      <4> QED
        BY <1>2, <2>1, <2>5, <4>1, <4>2
    <3>3. ASSUME NEW j \in 1 .. Len(rx') PROVE rx'[j] = Len(read') + j
      <4>1. rx'[j] = rx[m + j] /\ m + j \in 1 .. Len(rx)
        BY <1>2, <2>1, <2>3
      <4> QED
        BY <1>2, <2>1, <2>5, <3>1, <4>1 DEF InStream
    <3>4. eof' => Len(read') = StreamLen
      BY <1>2, <1>4, <2>1, <2>3, <2>5, <2>7, <3>1, Sizes DEF InStream, Got
    <3> QED
      BY <1>1, <2>7, <3>1, <3>2, <3>3, <3>4 DEF InStream, SeqNo
  <2> QED
    BY <1>1, <2>6, <2>8 DEF StreamInv
<1> QED
  BY <1>3, <1>4 DEF sys_mona_tcp6_recv

\* Steps that leave the stream alone; closing forgets the connection.
LEMMA OtherStep ==
    ASSUME Tcp6Assumption, StreamInv, UNCHANGED <<piggyback, irs, rcv_nxt, rx, read, eof>>,
           state' = state \/ state' = "free"
    PROVE  StreamInv'
BY DEF StreamInv, TcpTypeOK, InStream, Got, SeqNo

LEMMA SynAckStep ==
    ASSUME Tcp6Assumption, StreamInv, NEW sends, SynAck(sends)
    PROVE  StreamInv'
<1>1. /\ state = "syn_sent" /\ state' = "established" /\ rcv_nxt' = SeqNo(1)
      /\ UNCHANGED <<piggyback, irs, rx, read, eof>>
  BY DEF SynAck, tcpConfig, appVars
<1>2. TcpTypeOK'
  BY <1>1 DEF StreamInv, TcpTypeOK
<1>3. ASSUME ~piggyback PROVE InStream'
  <2>1. InStream /\ Got = 0
    BY <1>1, <1>3 DEF StreamInv, InStream
  <2>2. Got' = Got /\ Got + 1 = 1
    BY <1>1, <2>1 DEF Got
  <2>3. rcv_nxt' = SeqNo(Got + 1)'
    BY <1>1, <2>2 DEF SeqNo
  <2> QED
    BY <1>1, <2>1, <2>2, <2>3 DEF InStream
<1> QED
  BY <1>1, <1>2, <1>3 DEF StreamInv

LEMMA StepInStream ==
    ASSUME Tcp6Assumption, StreamInv, [TcpNext]_tcpVars
    PROVE  StreamInv'
<1>1. ASSUME NEW sends \in BOOLEAN, SynAck(sends) PROVE StreamInv'
  BY <1>1, SynAckStep
<1>2. ASSUME NEW a \in 0 .. StreamLen, NEW b \in 0 .. StreamLen, NEW fin \in BOOLEAN,
             NEW sends \in BOOLEAN, Segment(a, b, fin, sends)
      PROVE  StreamInv'
  BY <1>2, SegmentStep
<1>3. CASE PeerHears
  BY <1>3, OtherStep DEF PeerHears, tcpConfig, connVars, appVars
<1>4. CASE Connected \/ ConnectTimeout \/ close
  BY <1>4, OtherStep DEF Connected, ConnectTimeout, close, tcpConfig
<1>5. ASSUME NEW n \in 1 .. 2, sys_mona_tcp6_recv(n) PROVE StreamInv'
  <2>1. n \in Nat
    OBVIOUS
  <2> QED
    BY <1>5, <2>1, RecvStep
<1>6. ASSUME NEW n \in 0 .. 2, NEW k \in 0 .. 2, sys_mona_tcp6_send(n, k)
      PROVE  StreamInv'
  BY <1>6, OtherStep DEF sys_mona_tcp6_send, tcpConfig, connVars, appVars
<1>7. CASE UNCHANGED tcpVars
  BY <1>7, OtherStep DEF tcpVars, tcpConfig, connVars, appVars
<1> QED
  BY <1>1, <1>2, <1>3, <1>4, <1>5, <1>6, <1>7 DEF TcpNext

\* The inductive invariant of the receiving side of a connection: what rcv_nxt
\* counts, less what waits in rx, is what the program has read.
THEOREM TcpInvariant ==
    ASSUME Tcp6Assumption
    PROVE  TcpSpec => []StreamInv
<1>1. TcpInit => StreamInv
  BY InitInStream
<1>2. StreamInv /\ [TcpNext]_tcpVars => StreamInv'
  BY StepInStream
<1> QED
  BY <1>1, <1>2, PTL DEF TcpSpec

\* What tcp6_input queues and recv hands out is the peer's stream from its
\* start, also where sequence numbers wrap; rcv_nxt never acknowledges what is
\* not here; and the program is told of the end when it has all.
THEOREM StreamStaysIntact ==
    ASSUME Tcp6Assumption
    PROVE  TcpSpec => []StreamIntact
<1>1. StreamInv => StreamIntact
  <2> SUFFICES ASSUME StreamInv, ~piggyback PROVE StreamIntact
    BY DEF StreamIntact
  <2>1. InStream /\ read \in Seq(Nat) /\ rx \in Seq(Nat)
    BY DEF StreamInv, TcpTypeOK
  <2> DEFINE got == read \o rx
  <2>2. /\ got \in Seq(Nat) /\ Len(got) = Got /\ Got \in Nat
        /\ \A i \in 1 .. Len(read) : got[i] = read[i]
        /\ \A i \in 1 .. Len(rx) : got[Len(read) + i] = rx[i]
    BY <2>1, Joined DEF Got
  <2>3. Len(read) \in Nat /\ Len(rx) \in Nat
    BY <2>1
  <2> HIDE DEF got
  <2>4. ASSUME NEW i \in 1 .. Len(got) PROVE got[i] = i
    <3>1. CASE i <= Len(read)
      BY <2>1, <2>2, <2>3, <3>1 DEF InStream
    <3>2. CASE i > Len(read)
      <4>1. PICK h \in 1 .. Len(rx) : i = Len(read) + h
        <5>1. i - Len(read) \in 1 .. Len(rx) /\ i = Len(read) + (i - Len(read))
          BY <2>2, <2>3, <3>2 DEF Got
        <5> QED
          BY <5>1
      <4>2. got[i] = rx[h]
        BY <2>2, <4>1
      <4> QED
        BY <2>1, <2>3, <4>1, <4>2 DEF InStream
    <3> QED
      BY <2>2, <2>3, <3>1, <3>2
  <2>5. got = [i \in 1 .. Len(got) |-> i]
    <3>1. got = [i \in 1 .. Len(got) |-> got[i]]
      BY <2>2
    <3> QED
      BY <2>4, <3>1
  <2>6. state \in {"established", "close_wait"} =>
           rcv_nxt = SeqNo(Len(got) + IF state = "close_wait" THEN 2 ELSE 1)
    BY <2>1, <2>2 DEF InStream
  <2>7. eof => Len(read) = StreamLen
    BY <2>1 DEF InStream
  <2> QED
    BY <2>5, <2>6, <2>7 DEF StreamIntact, got
<1> QED
  BY <1>1, TcpInvariant, PTL

-----------------------------------------------------------------------------
(* Idle: the timer.                                                        *)

\* Waiting, and on to the scan: nothing has set the timer since.
Programmed == pc \in {"irqs_off", "enabled", "wfi", "awake", "ack"}

\* What the timer is when the kernel has programmed it: off, unless it is
\* needed, and else set for the first of what it is needed for.
TimerSet ==
    /\ Programmed => mode # "periodic"
    /\ Programmed /\ ~TickNeeded => mode = "disabled"
    /\ Armed /\ NeverLate

IdleInv == IdleTypeOK /\ TimerSet

LEMMA InitIdle ==
    ASSUME IdleAssumption, IdleInit
    PROVE  IdleInv
<1>1. TickPeriod \in 0 .. Larger(TickPeriod, Larger(MaxSleep, PollTicks))
  BY DEF IdleAssumption, Larger
<1>2. RingCap \in Nat /\ FifoCap \in Nat /\ MaxSleep \in Nat /\ PollTicks \in Nat
  BY DEF IdleAssumption
<1>3. IdleTypeOK
  <2>1. left \in 0 .. MaxSleep /\ ring \in 0 .. RingCap /\ fifo \in 0 .. FifoCap
        /\ usb \in 0 .. 1 /\ next_poll \in 0 .. PollTicks
    BY <1>2 DEF IdleInit
  <2>2. polling \in BOOLEAN /\ rx_irq \in BOOLEAN
    BY Zenon DEF IdleInit
  <2> QED
    BY <1>1, <2>1, <2>2 DEF IdleInit, IdleTypeOK
<1> QED
  BY <1>3 DEF IdleInit, IdleInv, TimerSet, Programmed, Waiting, Armed, NeverLate

\* What a poll of the devices leaves is in range.
LEMMA PolledSizes ==
    ASSUME IdleAssumption, IdleTypeOK
    PROVE  /\ PolledRing \in 0 .. RingCap
           /\ console_in_poll => /\ fifo' \in 0 .. FifoCap /\ rx_irq' \in BOOLEAN
                                 /\ usb' \in 0 .. 1 /\ next_poll' \in 0 .. PollTicks
<1>1. /\ RingCap \in Nat /\ PollTicks \in Nat /\ 0 \in 0 .. FifoCap
      /\ ring \in 0 .. RingCap /\ fifo \in Nat /\ usb \in 0 .. 1
      /\ next_poll \in 0 .. PollTicks /\ PollTicks \in 0 .. PollTicks
  BY DEF IdleAssumption, IdleTypeOK
<1> DEFINE keys == IF UsbDue THEN usb ELSE 0
<1>2. keys \in 0 .. 1
  BY <1>1
<1>3. PolledRing = Smaller(ring + fifo + keys, RingCap)
  BY DEF PolledRing
<1> HIDE DEF keys
<1>4. PolledRing \in 0 .. RingCap
  BY <1>1, <1>2, <1>3 DEF Smaller
<1>5. ASSUME console_in_poll
      PROVE  /\ fifo' \in 0 .. FifoCap /\ rx_irq' \in BOOLEAN
             /\ usb' \in 0 .. 1 /\ next_poll' \in 0 .. PollTicks
  <2>1. rx_irq' \in BOOLEAN
    BY <1>5, Zenon DEF console_in_poll
  <2>2. fifo' \in 0 .. FifoCap
    BY <1>1, <1>5 DEF console_in_poll
  <2>3. usb' \in 0 .. 1 /\ next_poll' \in 0 .. PollTicks
    BY <1>1, <1>5 DEF console_in_poll
  <2> QED
    BY <2>1, <2>2, <2>3
<1> QED
  BY <1>4, <1>5

LEMMA StepIdle ==
    ASSUME IdleAssumption, IdleInv, [IdleNext]_idleVars
    PROVE  IdleInv'
<1> USE DEF IdleAssumption, IdleInv, IdleTypeOK, TimerSet, Programmed, Waiting, TickNeeded,
            Armed, NeverLate, procVars, inputVars, timerVars
<1>0. UNCHANGED <<sleeper, left, polling, next_poll>> => WakeIn' = WakeIn
  BY DEF WakeIn, Smaller
<1>1. CASE UNCHANGED idleVars
  BY <1>0, <1>1 DEF idleVars
<1>2. CASE Yield
  BY <1>2 DEF Yield
<1>3. CASE sys_read
  BY <1>3, PolledSizes DEF sys_read, Larger
<1>4. ASSUME NEW t \in 1 .. MaxSleep, sys_nanosleep(t)
      PROVE  IdleInv'
  BY <1>4 DEF sys_nanosleep
<1>5. CASE Pass
  <2>1. ring' \in 0 .. RingCap
    BY <1>5, PolledSizes DEF Pass, ReaderDue
  <2> QED
    BY <1>5, <2>1, PolledSizes DEF Pass
<1>6. CASE Program
  <2>1. CASE ~TickNeeded /\ time_tick_disable
    BY <1>6, <2>1 DEF Program, time_tick_disable, Larger
  <2>2. CASE TickNeeded /\ time_tick_schedule_oneshot_ns(WakeIn)
    <3>1. PICK lost \in {0, 1} : tval' = Larger(WakeIn - lost, 1)
      BY <2>2 DEF time_tick_schedule_oneshot_ns
    <3>2. /\ WakeIn \in 0 .. Larger(MaxSleep, PollTicks)
          /\ sleeper = "asleep" => WakeIn <= left
          /\ polling => WakeIn <= next_poll
      BY <2>2 DEF WakeIn, Smaller, Larger
    <3>3. tval' \in 0 .. Larger(TickPeriod, Larger(MaxSleep, PollTicks))
      BY <3>1, <3>2 DEF Larger
    <3>4. /\ sleeper = "asleep" => tval' <= Larger(left, 1)
          /\ polling => tval' <= Larger(next_poll, 1)
          /\ WakeIn <= tval' + 1
      BY <3>1, <3>2 DEF Larger
    <3>5. WakeIn' = WakeIn
      BY <1>6 DEF Program, WakeIn, Smaller
    <3> QED
      BY <1>6, <2>2, <3>3, <3>4, <3>5 DEF Program, time_tick_schedule_oneshot_ns
  <2> QED
    BY <1>6, <2>1, <2>2 DEF Program
<1>7. CASE irq_enable
  BY <1>0, <1>7 DEF irq_enable
<1>8. CASE cpu_wfi
  BY <1>0, <1>8 DEF cpu_wfi
<1>9. CASE irq_disable
  BY <1>0, <1>9 DEF irq_disable
<1>10. CASE TakeIrq
  <2>1. /\ ring' \in 0 .. RingCap /\ fifo' \in 0 .. FifoCap /\ usb' \in 0 .. 1
    BY <1>10 DEF TakeIrq, Smaller
  <2>2. mode' = (IF TimerPending /\ mode = "oneshot" THEN "disabled" ELSE mode) /\ tval' = tval
    BY <1>10 DEF TakeIrq, ModeAfterIrq, TvalAfterIrq
  <2>3. /\ TimerPending /\ mode = "oneshot" /\ Waiting /\ TickNeeded => WakeIn <= 1
        /\ WakeIn' = WakeIn
    BY <1>0, <1>10 DEF TakeIrq, TimerPending, WakeIn, Smaller
  <2> QED
    BY <1>10, <2>1, <2>2, <2>3 DEF TakeIrq
<1>11. CASE AckUart
  BY <1>0, <1>11 DEF AckUart
<1>12. CASE Tick
  <2>1. /\ left' \in 0 .. MaxSleep /\ next_poll' \in 0 .. PollTicks
        /\ tval' \in 0 .. Larger(TickPeriod, Larger(MaxSleep, PollTicks))
        /\ tval' >= tval - 1
    BY <1>12 DEF Tick, Down, Larger
  <2>2. NeverLate'
    BY <1>12 DEF Tick, Down, Larger
  <2>3. TickNeeded => WakeIn' \in Nat /\ WakeIn' <= Larger(WakeIn - 1, 0)
    BY <1>12 DEF Tick, WakeIn, Smaller, Larger, Down
  <2>4. Armed'
    <3>1. TickNeeded => WakeIn \in Nat
      BY DEF WakeIn, Smaller
    <3> QED
      BY <1>12, <2>1, <2>3, <3>1 DEF Tick, Larger
  <2> QED
    BY <1>12, <2>1, <2>2, <2>4 DEF Tick
<1>13. CASE UartRx
  BY <1>0, <1>13 DEF UartRx
<1>14. CASE KeyPress
  BY <1>0, <1>14 DEF KeyPress
<1> QED
  BY <1>1, <1>2, <1>3, <1>4, <1>5, <1>6, <1>7, <1>8, <1>9, <1>10, <1>11, <1>12, <1>13, <1>14
     DEF IdleNext, Process, Kernel

\* For every length of sleeps, polls, ticks and buffers: what the kernel has
\* programmed the timer for, over every interleaving of interrupts with the
\* idle window (sched_pick_next_runnable, irq_handle, time_tick_handle_irq).
THEOREM IdleInvariant ==
    ASSUME IdleAssumption
    PROVE  IdleSpec => []IdleInv
<1>1. IdleInit => IdleInv
  BY InitIdle
<1>2. IdleInv /\ [IdleNext]_idleVars => IdleInv'
  BY StepIdle
<1> QED
  BY <1>1, <1>2, PTL DEF IdleSpec

\* While the kernel waits and a sleeper or a USB poll needs the timer, it is
\* armed for the first of them, neither late nor early, or was and has fired;
\* with neither it never interrupts the idle CPU, whatever was armed before
\* (sched_pick_next_runnable, time_tick_handle_irq, docs/idle.md).
THEOREM TimerIsRight ==
    ASSUME IdleAssumption
    PROVE  IdleSpec => []TimerRight
<1>1. IdleInv => TimerRight
  BY DEF IdleInv, TimerSet, Programmed, Waiting, TickNeeded, TimerRight, Tickless,
         TimerPending
<1> QED
  BY <1>1, IdleInvariant, PTL

-----------------------------------------------------------------------------
(* Term: the log.                                                          *)

Printable == Letters \cup {" ", "\n"}

\* Where the k-th newest character of the log is.
Newest(h, k) == IF k <= h THEN h - k ELSE h - k + LogCap

LogInv ==
    /\ log \in [0 .. LogCap - 1 -> Printable]
    /\ head \in 0 .. LogCap - 1
    /\ said \in Seq(Printable)
    /\ len = Clamp(Len(said), LogCap)
    /\ \A k \in 1 .. len : log[Newest(head, k)] = said[Len(said) - k + 1]

LEMMA CapIsNat == LogCap \in Nat \ {0}
  BY TermAssumption DEF TermAssumption

\* The log has one more character.
LEMMA LogGrows ==
    ASSUME LogInv, NEW c \in Printable, klog_putc(c), said' = Append(said, c)
    PROVE  LogInv'
<1>0. LogCap \in Nat \ {0}  BY CapIsNat
<1>1. PICK h : h = head  OBVIOUS
<1>2. PICK n : n = Len(said)  OBVIOUS
<1>3. PICK C : C = LogCap  OBVIOUS
<1>4. h \in 0 .. C - 1 /\ n \in Nat /\ C \in Nat \ {0}
  BY <1>0, <1>1, <1>2, <1>3 DEF LogInv
<1>5. (h + 1) % C = IF h + 1 < C THEN h + 1 ELSE 0
  <2>1. PICK z \in Nat : z = h + 1  BY <1>4
  <2>2. z < C + C  BY <2>1, <1>4
  <2>3. z % C = IF z < C THEN z ELSE z - C  BY <2>2, <1>4, WrapsOnce
  <2> QED  BY <2>1, <2>3, <1>4
<1>6. PICK g : g = head'  OBVIOUS
<1>7. g = IF h + 1 < C THEN h + 1 ELSE 0
  BY <1>1, <1>3, <1>5, <1>6 DEF klog_putc
<1>8. said' \in Seq(Printable) /\ Len(said') = n + 1
  BY <1>2 DEF LogInv
<1>9. len = (IF n > C THEN C ELSE n) /\ len' = (IF n + 1 > C THEN C ELSE n + 1)
  BY <1>2, <1>3, <1>4 DEF LogInv, klog_putc, Clamp
<1>10. len' = Clamp(Len(said'), LogCap)
  BY <1>8, <1>9, <1>3 DEF Clamp
<1>11. log' = [log EXCEPT ![h] = c] /\ log' \in [0 .. LogCap - 1 -> Printable]
  BY <1>1 DEF LogInv, klog_putc
<1>12. ASSUME NEW k \in 1 .. len'
       PROVE  log'[Newest(head', k)] = said'[Len(said') - k + 1]
  <2>1. k \in 1 .. C /\ k <= n + 1  BY <1>9, <1>4
  <2>2. CASE k = 1
    <3>1. Newest(head', k) = h
      BY <2>2, <1>3, <1>4, <1>6, <1>7 DEF Newest
    <3>2. log'[h] = c
      BY <1>11, <1>3, <1>4 DEF LogInv
    <3>3. said'[n + 1] = c
      BY <1>2 DEF LogInv
    <3> QED  BY <3>1, <3>2, <3>3, <2>2, <1>8, <1>4
  <2>3. CASE k > 1
    <3>1. k - 1 \in 1 .. len  BY <2>1, <2>3, <1>9, <1>4
    <3>2. Newest(head', k) = Newest(h, k - 1)
      BY <2>1, <2>3, <1>3, <1>4, <1>6, <1>7 DEF Newest
    <3>3. Newest(h, k - 1) \in 0 .. C - 1 /\ Newest(h, k - 1) # h
      BY <2>1, <2>3, <1>3, <1>4 DEF Newest
    <3>4. log[Newest(h, k - 1)] = said[n - (k - 1) + 1]
      BY <3>1, <1>1, <1>2 DEF LogInv
    <3>5. log'[Newest(h, k - 1)] = log[Newest(h, k - 1)]
      BY <3>3, <1>11, <1>3 DEF LogInv
    <3>6. n - (k - 1) + 1 \in 1 .. n /\ n + 1 - k + 1 = n - (k - 1) + 1
      BY <2>1, <2>3, <1>4
    <3>7. said'[n - (k - 1) + 1] = said[n - (k - 1) + 1]
      BY <3>6, <1>2 DEF LogInv
    <3>8. Len(said') - k + 1 = n - (k - 1) + 1  BY <1>8, <1>4, <2>1
    <3> QED  BY <3>2, <3>4, <3>5, <3>7, <3>8
  <2>4. k = 1 \/ k > 1  BY <2>1, <1>4
  <2> QED  BY <2>2, <2>3, <2>4
<1>13. head' \in 0 .. LogCap - 1  BY <1>6, <1>7, <1>3, <1>4
<1> QED  BY <1>8, <1>10, <1>11, <1>12, <1>13 DEF LogInv

\* What dmesg reads is the end of what was printed.
LEMMA LogReads ==
    ASSUME LogInv
    PROVE  KlogRight
<1>0. LogCap \in Nat \ {0}  BY CapIsNat
<1>1. PICK h : h = head  OBVIOUS
<1>2. PICK n : n = Len(said)  OBVIOUS
<1>3. PICK C : C = LogCap  OBVIOUS
<1>4. PICK l : l = len  OBVIOUS
<1>5. h \in 0 .. C - 1 /\ n \in Nat /\ C \in Nat \ {0}
  BY <1>0, <1>1, <1>2, <1>3 DEF LogInv
<1>6. l = IF n > C THEN C ELSE n
  BY <1>2, <1>3, <1>4 DEF LogInv, Clamp
<1>7. PICK s : s = (h + C - l) % C  OBVIOUS
<1>8. s = IF h >= l THEN h - l ELSE h - l + C
  <2>1. PICK z \in Nat : z = h + C - l  BY <1>5, <1>6
  <2>2. z < C + C  BY <2>1, <1>5, <1>6
  <2>3. z % C = IF z < C THEN z ELSE z - C  BY <2>2, <1>5, WrapsOnce
  <2> QED  BY <2>1, <2>3, <1>5, <1>6, <1>7
<1>9. ASSUME NEW i \in 1 .. l
      PROVE  klog_at(i - 1) = said[n - l + i]
  <2>1. PICK z \in Nat : z = s + (i - 1)  BY <1>5, <1>6, <1>8
  <2>2. z < C + C /\ C \in Nat \ {0}  BY <2>1, <1>5, <1>6, <1>8
  <2>8. z % C = IF z < C THEN z ELSE z - C  BY <2>2, WrapsOnce
  <2>3. (s + (i - 1)) % C = Newest(h, l - i + 1)
    BY <2>1, <2>8, <1>3, <1>5, <1>6, <1>8 DEF Newest
  <2>4. klog_at(i - 1) = log[(s + (i - 1)) % C]
    BY <1>1, <1>3, <1>4, <1>7 DEF klog_at
  <2>5. l - i + 1 \in 1 .. l  BY <1>5, <1>6
  <2>6. log[Newest(h, l - i + 1)] = said[n - (l - i + 1) + 1]
    BY <2>5, <1>1, <1>2, <1>4 DEF LogInv
  <2>7. n - (l - i + 1) + 1 = n - l + i  BY <1>5, <1>6
  <2> QED  BY <2>3, <2>4, <2>6, <2>7
<1>10. Dmesg = [i \in 1 .. l |-> said[n - l + i]]
  <2>1. Dmesg = [i \in 1 .. l |-> klog_at(i - 1)]
    BY <1>4 DEF Dmesg
  <2> QED  BY <2>1, <1>9
<1>11. SubSeq(said, n - l + 1, n) = [i \in 1 .. l |-> said[n - l + i]]
  <2>1. PICK m : m = n - l + 1  OBVIOUS
  <2>2. m \in 1 .. n + 1 /\ n - m + 1 = l  BY <2>1, <1>5, <1>6
  <2>3. \A i \in m .. n : said[i] \in Printable  BY <2>2, <1>2, <1>5 DEF LogInv
  <2>4. /\ SubSeq(said, m, n) \in Seq(Printable)
        /\ Len(SubSeq(said, m, n)) = l
        /\ \A i \in 1 .. l : SubSeq(said, m, n)[i] = said[m + i - 1]
    BY <2>2, <2>3, <1>5, SubSeqProperties
  <2>5. \A i \in 1 .. l : m + i - 1 = n - l + i  BY <2>1, <1>5, <1>6
  <2>6. SubSeq(said, m, n) = [i \in 1 .. l |-> SubSeq(said, m, n)[i]]  BY <2>4
  <2> QED  BY <2>1, <2>4, <2>5, <2>6
<1>12. Clamp(Len(said), LogCap) = l
  BY <1>2, <1>3, <1>6 DEF Clamp
<1> QED  BY <1>2, <1>10, <1>11, <1>12 DEF KlogRight

-----------------------------------------------------------------------------
(* Term: the screen.                                                       *)

\* The visible part of the terminal t is the grid g, with the cursor at.
Showing(t, g, at) ==
    /\ t = [phys |-> t.phys, off |-> t.off, moves |-> t.moves, cur |-> t.cur,
            tab |-> t.tab, ansi |-> t.ansi]
    /\ t.phys = [y \in 1 .. VRows |-> t.phys[y]]
    /\ t.off \in 0 .. VRows - Rows
    /\ t.moves \in BOOLEAN /\ (~t.moves => t.off = 0)
    /\ g = [y \in 1 .. Rows |-> t.phys[t.off + y]]
    /\ t.cur = at
    /\ at = [x |-> at.x, y |-> at.y, col |-> at.col]
    /\ at.x \in 0 .. Cols - 1 /\ at.y \in 0 .. Rows - 1

\* What drawing leaves alone.
Keeps(r, t) == r.moves = t.moves /\ r.tab = t.tab /\ r.ansi = t.ansi

LEMMA Geometry ==
    /\ Cols \in Nat \ {0} /\ Rows \in Nat \ {0} /\ VRows \in Nat \ {0} /\ Tab \in Nat \ {0}
    /\ VRows >= Rows
  BY TermAssumption DEF TermAssumption

\* No visible row is past the end of the framebuffer.
LEMMA ViewIsInside ==
    ASSUME NEW t, t.off \in 0 .. VRows - Rows, NEW y \in 0 .. Rows - 1
    PROVE  /\ termfb_map_view_y_to_phys(t, y) = t.off + y + 1
           /\ t.off + (y + 1) \in 1 .. VRows /\ t.off + y + 1 = t.off + (y + 1)
<1>1. PICK V : V = VRows  OBVIOUS
<1>2. PICK o : o = t.off  OBVIOUS
<1>3. V \in Nat \ {0} /\ o \in Nat /\ o + y < V /\ y \in Nat
  BY <1>1, <1>2, Geometry
<1>4. PICK z \in Nat : z = y + o  BY <1>3
<1>5. z < V + V  BY <1>3, <1>4
<1>6. z % V = z
  <2>1. z < V  BY <1>3, <1>4
  <2> QED  BY <1>3, <1>5, <2>1, WrapsOnce
<1> QED  BY <1>1, <1>2, <1>3, <1>4, <1>6 DEF termfb_map_view_y_to_phys

LEMMA DrawShown ==
    ASSUME NEW t, NEW g, NEW at, NEW c, Showing(t, g, at)
    PROVE  LET r == termfb_draw_char_cell(t, c)
           IN  Showing(r, Written(g, at, c), at) /\ Keeps(r, t)
<1> DEFINE r == termfb_draw_char_cell(t, c)
           h == Written(g, at, c)
<1>1. PICK p : p = t.phys  OBVIOUS
<1>2. PICK o : o = t.off  OBVIOUS
<1>3. PICK y : y = at.y + 1  OBVIOUS
<1>4. PICK x : x = at.x + 1  OBVIOUS
<1>5. PICK v : v = Cell(c, at)  OBVIOUS
<1>6. /\ o \in 0 .. VRows - Rows /\ y \in 1 .. Rows /\ o + y \in 1 .. VRows
      /\ p = [z \in 1 .. VRows |-> p[z]]
      /\ g = [z \in 1 .. Rows |-> p[o + z]]
  BY <1>1, <1>2, <1>3, Geometry DEF Showing
<1>7. r = [t EXCEPT !.phys[o + y][x] = v]
  <2>1. termfb_map_view_y_to_phys(t, t.cur.y) = o + y
    BY <1>2, <1>3, ViewIsInside DEF Showing
  <2> QED  BY <2>1, <1>4, <1>5 DEF termfb_draw_char_cell, Showing
<1>8. r.phys = [p EXCEPT ![o + y][x] = v]
  BY <1>1, <1>7 DEF Showing
<1>9. /\ r = [phys |-> r.phys, off |-> o, moves |-> t.moves, cur |-> at, tab |-> t.tab, ansi |-> t.ansi]
  BY <1>2, <1>7 DEF Showing
<1>10. h = [g EXCEPT ![y][x] = v]
  BY <1>3, <1>4, <1>5 DEF Written
<1> HIDE DEF r, h
<1>11. r.phys = [z \in 1 .. VRows |-> IF z = o + y THEN [p[z] EXCEPT ![x] = v] ELSE p[z]]
  BY <1>6, <1>8
<1>12. h = [z \in 1 .. Rows |-> IF z = y THEN [p[o + z] EXCEPT ![x] = v] ELSE p[o + z]]
  BY <1>6, <1>10
<1>13. \A z \in 1 .. Rows : o + z \in 1 .. VRows /\ (o + z = o + y <=> z = y)
  BY <1>6, Geometry
<1>14. h = [z \in 1 .. Rows |-> r.phys[o + z]]
  BY <1>11, <1>12, <1>13
<1>15. r.phys = [z \in 1 .. VRows |-> r.phys[z]]
  BY <1>11
<1>16. Showing(r, h, at)
  BY <1>9, <1>14, <1>15, <1>2 DEF Showing
<1> QED  BY <1>9, <1>16 DEF Keeps, r, h

\* The grid one row up, with an empty row below.
Up(g, at) == [y \in 1 .. Rows |-> IF y < Rows THEN g[y + 1] ELSE BlankRow(at)]

\* The visible part one row further down.
LEMMA MovedShown ==
    ASSUME NEW t, NEW g, NEW at, Showing(t, g, at), t.moves = TRUE,
           NEW new \in 1 .. VRows - Rows,
           \A y \in 1 .. Rows - 1 : t.phys[new + y] = g[y + 1]
    PROVE  Showing(MovedTo(t, new), Up(g, at), at) /\ Keeps(MovedTo(t, new), t)
<1> DEFINE r == MovedTo(t, new)
<1>1. PICK p : p = t.phys  OBVIOUS
<1>2. PICK b : b = BlankRow(at)  OBVIOUS
<1>3. p = [z \in 1 .. VRows |-> p[z]] /\ new + Rows \in 1 .. VRows
  BY <1>1, Geometry DEF Showing
<1>4. /\ r = [phys |-> r.phys, off |-> new, moves |-> t.moves, cur |-> at,
              tab |-> t.tab, ansi |-> t.ansi]
      /\ r.phys = [p EXCEPT ![new + Rows] = b]
  <2>1. r = [t EXCEPT !.off = new, !.phys[new + Rows] = b]
    BY <1>2 DEF Showing, MovedTo
  <2> HIDE DEF r
  <2> QED  BY <1>1, <2>1 DEF Showing
<1> HIDE DEF r
<1>5. r.phys = [z \in 1 .. VRows |-> IF z = new + Rows THEN b ELSE p[z]]
  BY <1>3, <1>4
<1>6. \A y \in 1 .. Rows : /\ new + y \in 1 .. VRows
                           /\ new + y = new + Rows <=> y = Rows
                           /\ y < Rows => y \in 1 .. Rows - 1
                           /\ y < Rows <=> y # Rows
  BY Geometry
<1>7. \A y \in 1 .. Rows : r.phys[new + y] = IF y < Rows THEN g[y + 1] ELSE b
  BY <1>1, <1>5, <1>6
<1>8. Up(g, at) = [y \in 1 .. Rows |-> r.phys[new + y]]
  BY <1>2, <1>7 DEF Up
<1>9. r.phys = [z \in 1 .. VRows |-> r.phys[z]]
  BY <1>5
<1>10. new \in 0 .. VRows - Rows  BY Geometry
<1>11. r.off = new /\ r.moves = t.moves /\ r.cur = at /\ r.tab = t.tab /\ r.ansi = t.ansi
  BY <1>4
<1>12. r = [phys |-> r.phys, off |-> r.off, moves |-> r.moves, cur |-> r.cur, tab |-> r.tab, ansi |-> r.ansi]
  BY <1>4, <1>11
<1>13. r.moves \in BOOLEAN /\ (~r.moves => r.off = 0)
  BY <1>11 DEF Showing
<1>14. Showing(r, Up(g, at), at)
  BY <1>8, <1>9, <1>10, <1>11, <1>12, <1>13 DEF Showing
<1> QED  BY <1>11, <1>14 DEF Keeps, r

\* Every row copied up, in a framebuffer that shows its first rows.
LEMMA CopiedShown ==
    ASSUME NEW t, NEW g, NEW at, Showing(t, g, at), t.off = 0
    PROVE  Showing(RowsCopied(t), Up(g, at), at) /\ Keeps(RowsCopied(t), t)
<1> DEFINE r == RowsCopied(t)
<1>1. PICK p : p = t.phys  OBVIOUS
<1>2. PICK b : b = BlankRow(at)  OBVIOUS
<1>3. g = [z \in 1 .. Rows |-> p[0 + z]]
  BY <1>1 DEF Showing
<1> DEFINE q == [y \in 1 .. VRows |-> IF y < Rows THEN p[y + 1] ELSE IF y = Rows THEN b ELSE p[y]]
<1>4. /\ r = [phys |-> r.phys, off |-> 0, moves |-> t.moves, cur |-> at, tab |-> t.tab, ansi |-> t.ansi]
      /\ r.phys = q
  <2>1. r = [t EXCEPT !.phys = q]
    BY <1>1, <1>2 DEF Showing, RowsCopied
  <2> HIDE DEF r, q
  <2> QED  BY <2>1 DEF Showing
<1> HIDE DEF r
<1>5. \A y \in 1 .. Rows : /\ 0 + y = y /\ y \in 1 .. VRows
                           /\ y < Rows => y + 1 \in 1 .. Rows /\ 0 + (y + 1) = y + 1
                           /\ y < Rows <=> y # Rows
  BY Geometry
<1>6. \A y \in 1 .. Rows : r.phys[0 + y] = IF y < Rows THEN g[y + 1] ELSE b
  BY <1>3, <1>4, <1>5
<1>7. Up(g, at) = [y \in 1 .. Rows |-> r.phys[0 + y]]
  BY <1>2, <1>6 DEF Up
<1>8. r.phys = [y \in 1 .. VRows |-> r.phys[y]]
  BY <1>4
<1>9. 0 \in 0 .. VRows - Rows  BY Geometry
<1>10. r.off = 0 /\ r.moves = t.moves /\ r.cur = at /\ r.tab = t.tab /\ r.ansi = t.ansi
  BY <1>4
<1>11. r = [phys |-> r.phys, off |-> r.off, moves |-> r.moves, cur |-> r.cur, tab |-> r.tab, ansi |-> r.ansi]
  BY <1>4, <1>10
<1>12. r.moves \in BOOLEAN /\ (~r.moves => r.off = 0)
  BY <1>10 DEF Showing
<1>13. Showing(r, Up(g, at), at)
  BY <1>7, <1>8, <1>9, <1>10, <1>11, <1>12 DEF Showing
<1> QED  BY <1>10, <1>13 DEF Keeps, r

\* The visible part copied to the top of the buffer, and shown there.
LEMMA ReturnShown ==
    ASSUME NEW t, NEW g, NEW at, Showing(t, g, at)
    PROVE  LET r == [termfb_copy_viewport_to_phys0(t) EXCEPT !.off = 0]
           IN  Showing(r, g, at) /\ Keeps(r, t)
<1> DEFINE r == [termfb_copy_viewport_to_phys0(t) EXCEPT !.off = 0]
<1>1. PICK p : p = t.phys  OBVIOUS
<1>2. PICK o : o = t.off  OBVIOUS
<1> DEFINE q == [y \in 1 .. VRows |-> IF y <= Rows THEN p[o + y] ELSE p[y]]
<1>3. /\ r = [phys |-> r.phys, off |-> 0, moves |-> t.moves, cur |-> at, tab |-> t.tab, ansi |-> t.ansi]
      /\ r.phys = q
  <2>1. termfb_copy_viewport_to_phys0(t) = [t EXCEPT !.phys = q]
    BY <1>1, <1>2 DEF termfb_copy_viewport_to_phys0
  <2> HIDE DEF q
  <2>2. r = [[t EXCEPT !.phys = q] EXCEPT !.off = 0]
    BY <2>1
  <2> HIDE DEF r
  <2> QED  BY <2>2 DEF Showing
<1> HIDE DEF r
<1>4. g = [y \in 1 .. Rows |-> p[o + y]]
  BY <1>1, <1>2 DEF Showing
<1>5. \A y \in 1 .. Rows : 0 + y = y /\ y \in 1 .. VRows /\ y <= Rows
  BY Geometry
<1>6. g = [y \in 1 .. Rows |-> r.phys[0 + y]]
  BY <1>3, <1>4, <1>5
<1>7. r.phys = [y \in 1 .. VRows |-> r.phys[y]]
  BY <1>3
<1>8. 0 \in 0 .. VRows - Rows  BY Geometry
<1>9. r.off = 0 /\ r.moves = t.moves /\ r.cur = at /\ r.tab = t.tab /\ r.ansi = t.ansi
  BY <1>3
<1>10. r = [phys |-> r.phys, off |-> r.off, moves |-> r.moves, cur |-> r.cur, tab |-> r.tab, ansi |-> r.ansi]
  BY <1>3, <1>9
<1>11. r.moves \in BOOLEAN /\ (~r.moves => r.off = 0)
  BY <1>9 DEF Showing
<1>12. Showing(r, g, at)
  BY <1>6, <1>7, <1>8, <1>9, <1>10, <1>11 DEF Showing
<1> QED  BY <1>9, <1>12 DEF Keeps, r

\* Scrolling: what is visible goes up, by whatever way the buffer and the
\* firmware allow.
LEMMA ScrollShown ==
    ASSUME NEW t, NEW g, NEW at, Showing(t, g, at)
    PROVE  Showing(termfb_scroll_one(t), Up(g, at), at) /\ Keeps(termfb_scroll_one(t), t)
<1>1. PICK o : o = t.off  OBVIOUS
<1>2. o \in 0 .. VRows - Rows /\ (t.moves = TRUE \/ (t.moves = FALSE /\ o = 0))
  BY <1>1 DEF Showing
<1>3. CASE o = 0 /\ (VRows = Rows \/ t.moves = FALSE)
  <2>1. termfb_scroll_one(t) = RowsCopied(t)
    <3>1. CASE VRows = Rows  BY <3>1 DEF termfb_scroll_one
    <3>2. CASE VRows # Rows
      <4>1. t.off + 1 <= VRows - Rows  BY <1>1, <1>2, <1>3, <3>2, Geometry
      <4>2. ~Moves(t, t.off + 1)  BY <1>3, <3>2 DEF Moves
      <4> QED  BY <3>2, <4>1, <4>2 DEF termfb_scroll_one, Scroll
    <3> QED  BY <3>1, <3>2
  <2> QED  BY <1>1, <1>3, <2>1, CopiedShown
<1>4. CASE t.moves = TRUE /\ VRows # Rows /\ o + 1 <= VRows - Rows
  <2>1. termfb_scroll_one(t) = MovedTo(t, o + 1)
    BY <1>1, <1>4 DEF termfb_scroll_one, Moves, Scroll
  <2>2. o + 1 \in 1 .. VRows - Rows  BY <1>2, <1>4, Geometry
  <2>3. \A y \in 1 .. Rows - 1 : y + 1 \in 1 .. Rows /\ o + 1 + y = o + (y + 1)
    BY <1>2, Geometry
  <2>4. \A y \in 1 .. Rows - 1 : t.phys[o + 1 + y] = g[y + 1]
    BY <1>1, <2>3 DEF Showing
  <2> QED  BY <1>4, <2>1, <2>2, <2>4, MovedShown
<1>5. CASE t.moves = TRUE /\ VRows # Rows /\ ~(o + 1 <= VRows - Rows)
  <2> DEFINE top == [termfb_copy_viewport_to_phys0(t) EXCEPT !.off = 0]
  <2>1. Showing(top, g, at) /\ Keeps(top, t)
    BY ReturnShown
  <2>2. top.moves = TRUE /\ top.off = 0
    <3>1. top.moves = TRUE  BY <1>5, <2>1 DEF Keeps
    <3>2. DOMAIN t = {"phys", "off", "moves", "cur", "tab", "ansi"}
      BY DEF Showing
    <3>3. top.off = 0  BY <3>2 DEF termfb_copy_viewport_to_phys0
    <3> QED  BY <3>1, <3>3
  <2>3. 1 \in 1 .. VRows - Rows /\ 0 <= VRows - Rows  BY <1>2, <1>5, Geometry
  <2>4. \A y \in 1 .. Rows - 1 : y + 1 \in 1 .. Rows /\ 0 + (y + 1) = 1 + y
    BY Geometry
  <2> HIDE DEF top
  <2>5. \A y \in 1 .. Rows - 1 : top.phys[1 + y] = g[y + 1]
    <3>1. g = [y \in 1 .. Rows |-> top.phys[0 + y]]
      <4>1. g = [y \in 1 .. Rows |-> top.phys[top.off + y]]  BY <2>1 DEF Showing
      <4> QED  BY <2>2, <4>1
    <3> QED  BY <2>4, <3>1
  <2>6. Showing(MovedTo(top, 1), Up(g, at), at) /\ Keeps(MovedTo(top, 1), top)
    BY <2>1, <2>2, <2>3, <2>5, MovedShown
  <2>7. termfb_scroll_one(t) = MovedTo(top, 1)
    <3> DEFINE up == termfb_copy_viewport_to_phys0(t)
    <3>1. up.moves = TRUE
      <4>1. DOMAIN t = {"phys", "off", "moves", "cur", "tab", "ansi"}
        BY DEF Showing
      <4> QED  BY <1>5, <4>1 DEF termfb_copy_viewport_to_phys0
    <3>2. Moves(up, 0)  BY <3>1, <2>3 DEF Moves
    <3>3. Moves(top, 1)  BY <2>2, <2>3 DEF Moves
    <3>4. [up EXCEPT !.off = 0] = top  BY DEF top
    <3> HIDE DEF up, top
    <3>5. AtTop(t) = top
      BY <3>2, <3>4 DEF AtTop, up
    <3>6. termfb_scroll_one(t) = Scroll(AtTop(t), 1)
      BY <1>1, <1>5 DEF termfb_scroll_one
    <3> QED  BY <3>3, <3>5, <3>6 DEF Scroll
  <2> QED  BY <2>1, <2>6, <2>7 DEF Keeps
<1>6. o = 0 \/ VRows # Rows  BY <1>2, Geometry
<1> QED  BY <1>2, <1>3, <1>4, <1>5, <1>6

\* The cursor somewhere else on the screen.
LEMMA CursorShown ==
    ASSUME NEW t, NEW g, NEW at, Showing(t, g, at),
           NEW to, to = [x |-> to.x, y |-> to.y, col |-> to.col],
           to.x \in 0 .. Cols - 1, to.y \in 0 .. Rows - 1
    PROVE  Showing([t EXCEPT !.cur = to], g, to) /\ Keeps([t EXCEPT !.cur = to], t)
<1> DEFINE r == [t EXCEPT !.cur = to]
<1>1. r = [phys |-> t.phys, off |-> t.off, moves |-> t.moves, cur |-> to, tab |-> t.tab, ansi |-> t.ansi]
  <2>1. t = [phys |-> t.phys, off |-> t.off, moves |-> t.moves, cur |-> t.cur,
             tab |-> t.tab, ansi |-> t.ansi]
    BY DEF Showing
  <2>2. PICK a : a = to  OBVIOUS
  <2>3. [t EXCEPT !.cur = a] = [phys |-> t.phys, off |-> t.off, moves |-> t.moves, cur |-> a,
                                tab |-> t.tab, ansi |-> t.ansi]
    BY <2>1
  <2> QED  BY <2>2, <2>3
<1> HIDE DEF r
<1>2. /\ r.phys = t.phys /\ r.off = t.off /\ r.moves = t.moves /\ r.cur = to
      /\ r.tab = t.tab /\ r.ansi = t.ansi
  BY <1>1
<1>3. r.moves \in BOOLEAN /\ (~r.moves => r.off = 0)
  BY <1>2 DEF Showing
<1>4. r = [phys |-> r.phys, off |-> r.off, moves |-> r.moves, cur |-> r.cur, tab |-> r.tab, ansi |-> r.ansi]
  BY <1>1, <1>2
<1>5. /\ r.phys = [y \in 1 .. VRows |-> r.phys[y]] /\ r.off \in 0 .. VRows - Rows
      /\ g = [y \in 1 .. Rows |-> r.phys[r.off + y]]
  BY <1>2 DEF Showing
<1>6. Showing(r, g, to)
  BY <1>2, <1>3, <1>4, <1>5 DEF Showing
<1> QED  BY <1>2, <1>6 DEF Keeps, r

\* A line end.
LEMMA NewLineShown ==
    ASSUME NEW t, NEW g, NEW at, Showing(t, g, at)
    PROVE  Showing(NewLine(t), Scrolled(g, at), NextLine(at)) /\ Keeps(NewLine(t), t)
<1> DEFINE to == NextLine(at)
<1>1. at = [x |-> at.x, y |-> at.y, col |-> at.col] /\ at.x \in 0 .. Cols - 1 /\ at.y \in 0 .. Rows - 1
      /\ t.cur = at
  BY DEF Showing
<1>2. to = [x |-> 0, y |-> IF at.y + 1 < Rows THEN at.y + 1 ELSE Rows - 1, col |-> at.col]
  <2>1. PICK v : v = IF at.y + 1 < Rows THEN at.y + 1 ELSE Rows - 1  OBVIOUS
  <2>2. to = [at EXCEPT !.x = 0, !.y = v]
    BY <1>1, <2>1 DEF NextLine
  <2> HIDE DEF to
  <2>3. to = [x |-> 0, y |-> v, col |-> at.col]
    BY <1>1, <2>2
  <2> QED  BY <2>1, <2>3
<1>3. to = [x |-> to.x, y |-> to.y, col |-> to.col] /\ to.x \in 0 .. Cols - 1 /\ to.y \in 0 .. Rows - 1
  <2> HIDE DEF to
  <2>1. to.x = 0 /\ to.y = (IF at.y + 1 < Rows THEN at.y + 1 ELSE Rows - 1) /\ to.col = at.col
    BY <1>2
  <2> QED  BY <1>1, <1>2, <2>1, Geometry
<1>4. [t EXCEPT !.cur.x = 0, !.cur.y = Clamp(@ + 1, Rows - 1)] = [t EXCEPT !.cur = to]
  <2>1. Clamp(at.y + 1, Rows - 1) = IF at.y + 1 < Rows THEN at.y + 1 ELSE Rows - 1
    BY <1>1, Geometry DEF Clamp
  <2>2. PICK y : y = Clamp(at.y + 1, Rows - 1)  OBVIOUS
  <2>3. [at EXCEPT !.x = 0, !.y = y] = to
    <3>1. PICK a : a = [at EXCEPT !.x = 0, !.y = y]  OBVIOUS
    <3>2. a = [x |-> 0, y |-> y, col |-> at.col]  BY <1>1, <3>1
    <3> HIDE DEF to
    <3> QED  BY <1>2, <2>1, <2>2, <3>1, <3>2
  <2>4. PICK a : a = to OBVIOUS
  <2> QED  BY <1>1, <2>2, <2>3 DEF Showing
<1> DEFINE down == [t EXCEPT !.cur.x = 0, !.cur.y = Clamp(@ + 1, Rows - 1)]
<1> HIDE DEF to
<1>6. CASE at.y + 1 < Rows
  <2>1. NewLine(t) = [t EXCEPT !.cur = to]
    <3>1. ~(at.y + 1 >= Rows)  BY <1>1, <1>6, Geometry
    <3> QED  BY <1>1, <1>4, <3>1 DEF NewLine
  <2>2. Showing([t EXCEPT !.cur = to], g, to) /\ Keeps([t EXCEPT !.cur = to], t)
    BY <1>3, CursorShown
  <2> QED  BY <1>6, <2>1, <2>2 DEF Scrolled, to
<1>7. CASE ~(at.y + 1 < Rows)
  <2> DEFINE s == termfb_scroll_one(t)
  <2>1. Showing(s, Up(g, at), at) /\ Keeps(s, t)
    BY ScrollShown
  <2>2. Showing([s EXCEPT !.cur = to], Up(g, at), to) /\ Keeps([s EXCEPT !.cur = to], s)
    BY <1>3, <2>1, CursorShown
  <2>3. NewLine(t) = [s EXCEPT !.cur = to]
    <3>1. at.y + 1 >= Rows  BY <1>1, <1>7, Geometry
    <3>2. down.cur = to
      <4>1. [t EXCEPT !.cur = to].cur = to  BY DEF Showing
      <4> QED  BY <1>4, <4>1
    <3> HIDE DEF s, down
    <3>3. NewLine(t) = [s EXCEPT !.cur = down.cur]
      BY <1>1, <3>1 DEF NewLine, s, down
    <3> QED  BY <3>2, <3>3
  <2>4. Scrolled(g, at) = Up(g, at)
    BY <1>7 DEF Scrolled, Up
  <2> HIDE DEF s
  <2> QED  BY <2>1, <2>2, <2>3, <2>4 DEF Keeps, to
<1> QED  BY <1>6, <1>7

\* A character drawn, and the cursor past it.
LEMMA DrawnShown ==
    ASSUME NEW t, NEW g, NEW at, NEW c, Showing(t, g, at)
    PROVE  /\ IF at.x + 1 < Cols
              THEN Showing(Drawn(t, c), Written(g, at, c), [at EXCEPT !.x = @ + 1])
              ELSE Showing(Drawn(t, c), Scrolled(Written(g, at, c), at), NextLine(at))
           /\ Keeps(Drawn(t, c), t)
<1> DEFINE d == termfb_draw_char_cell(t, c)
<1>1. at = [x |-> at.x, y |-> at.y, col |-> at.col]
  BY DEF Showing
<1>2. at.x \in 0 .. Cols - 1 /\ at.y \in 0 .. Rows - 1 /\ t.cur = at
  BY DEF Showing
<1>3. Showing(d, Written(g, at, c), at) /\ Keeps(d, t)
  BY DrawShown
<1> HIDE DEF d
<1>4. CASE at.x + 1 < Cols
  <2>1. PICK v : v = at.x + 1  OBVIOUS
  <2>2. v \in 0 .. Cols - 1  BY <1>2, <1>4, <2>1, Geometry
  <2>3. PICK to : to = [at EXCEPT !.x = v]  OBVIOUS
  <2>4. to = [x |-> v, y |-> at.y, col |-> at.col]  BY <1>1, <2>3
  <2>5. to.x = v /\ to.y = at.y /\ to.col = at.col  BY <2>4
  <2>6. to = [x |-> to.x, y |-> to.y, col |-> to.col]  BY <2>4, <2>5
  <2>7. Showing([d EXCEPT !.cur = to], Written(g, at, c), to) /\ Keeps([d EXCEPT !.cur = to], d)
    BY <1>2, <1>3, <2>2, <2>5, <2>6, CursorShown
  <2>8. Drawn(t, c) = [d EXCEPT !.cur.x = @ + 1]
    <3>1. ~(at.x + 1 >= Cols)  BY <1>2, <1>4, Geometry
    <3> QED  BY <1>2, <3>1 DEF Drawn, d
  <2>9. d.cur = at /\ d = [phys |-> d.phys, off |-> d.off, moves |-> d.moves, cur |-> d.cur,
                           tab |-> d.tab, ansi |-> d.ansi]
    BY <1>3 DEF Showing
  <2>10. [d EXCEPT !.cur.x = @ + 1] = [d EXCEPT !.cur = to]
    BY <1>1, <2>1, <2>3, <2>9
  <2>11. [at EXCEPT !.x = @ + 1] = to
    BY <1>1, <2>1, <2>3
  <2> QED  BY <1>3, <1>4, <2>7, <2>8, <2>10, <2>11 DEF Keeps
<1>5. CASE ~(at.x + 1 < Cols)
  <2>1. Showing(NewLine(d), Scrolled(Written(g, at, c), at), NextLine(at)) /\ Keeps(NewLine(d), d)
    BY <1>3, NewLineShown
  <2>2. Drawn(t, c) = NewLine(d)
    <3>1. at.x + 1 >= Cols  BY <1>2, <1>5, Geometry
    <3> QED  BY <1>2, <3>1 DEF Drawn, d
  <2> QED  BY <1>3, <1>5, <2>1, <2>2 DEF Keeps
<1> QED  BY <1>4, <1>5

\* The column or the row of the cursor changed.
LEMMA CursorMoves ==
    ASSUME NEW t, NEW g, NEW at, Showing(t, g, at),
           NEW x \in 0 .. Cols - 1, NEW y \in 0 .. Rows - 1
    PROVE  /\ Showing([t EXCEPT !.cur = [at EXCEPT !.x = x, !.y = y]], g, [at EXCEPT !.x = x, !.y = y])
           /\ Keeps([t EXCEPT !.cur = [at EXCEPT !.x = x, !.y = y]], t)
<1>1. at = [x |-> at.x, y |-> at.y, col |-> at.col]
  BY DEF Showing
<1>2. PICK to : to = [at EXCEPT !.x = x, !.y = y]  OBVIOUS
<1>3. to = [x |-> x, y |-> y, col |-> at.col]  BY <1>1, <1>2
<1>4. to.x = x /\ to.y = y /\ to.col = at.col  BY <1>3
<1>5. to = [x |-> to.x, y |-> to.y, col |-> to.col]  BY <1>3, <1>4
<1>6. Showing([t EXCEPT !.cur = to], g, to) /\ Keeps([t EXCEPT !.cur = to], t)
  BY <1>4, <1>5, CursorShown
<1> QED  BY <1>2, <1>6

LEMMA BackShown ==
    ASSUME NEW t, NEW g, NEW at, Showing(t, g, at)
    PROVE  Showing(Back(t), Written(g, Prev(at), " "), Prev(at)) /\ Keeps(Back(t), t)
<1>1. at = [x |-> at.x, y |-> at.y, col |-> at.col]
  BY DEF Showing
<1>2. at.x \in 0 .. Cols - 1 /\ at.y \in 0 .. Rows - 1 /\ t.cur = at
  BY DEF Showing
<1>3. PICK x, y : x = (IF at.x > 0 THEN at.x - 1 ELSE IF at.y > 0 THEN Cols - 1 ELSE at.x)
                  /\ y = (IF at.x > 0 THEN at.y ELSE IF at.y > 0 THEN at.y - 1 ELSE at.y)
  OBVIOUS
<1>4. x \in 0 .. Cols - 1 /\ y \in 0 .. Rows - 1
  BY <1>2, <1>3, Geometry
<1>5. PICK a : a = [at EXCEPT !.x = x, !.y = y]  OBVIOUS
<1>6. a = [x |-> x, y |-> y, col |-> at.col]  BY <1>1, <1>5
<1>7. a = Prev(at)
  <2>1. CASE at.x > 0
    <3>1. PICK b : b = [at EXCEPT !.x = @ - 1]  OBVIOUS
    <3>2. b = [x |-> at.x - 1, y |-> at.y, col |-> at.col]  BY <1>1, <3>1
    <3>3. Prev(at) = b  BY <2>1, <3>1 DEF Prev
    <3> QED  BY <1>3, <1>6, <2>1, <3>2, <3>3
  <2>2. CASE ~(at.x > 0) /\ at.y > 0
    <3>1. PICK b : b = [at EXCEPT !.x = Cols - 1, !.y = @ - 1]  OBVIOUS
    <3>2. b = [x |-> Cols - 1, y |-> at.y - 1, col |-> at.col]  BY <1>1, <3>1
    <3>3. Prev(at) = b  BY <2>2, <3>1 DEF Prev
    <3> QED  BY <1>3, <1>6, <2>2, <3>2, <3>3
  <2>3. CASE ~(at.x > 0) /\ ~(at.y > 0)
    <3>1. Prev(at) = at  BY <2>3 DEF Prev
    <3> QED  BY <1>1, <1>3, <1>6, <2>3, <3>1
  <2> QED  BY <2>1, <2>2, <2>3
<1>8. Back(t) = termfb_draw_char_cell([t EXCEPT !.cur = Prev(at)], " ")
  BY <1>2 DEF Back, Prev
<1>9. Showing([t EXCEPT !.cur = a], g, a) /\ Keeps([t EXCEPT !.cur = a], t)
  BY <1>4, <1>5, CursorMoves
<1>10. PICK s : s = [t EXCEPT !.cur = a]  OBVIOUS
<1>11. Showing(s, g, a) /\ Keeps(s, t) /\ Back(t) = termfb_draw_char_cell(s, " ")
  BY <1>7, <1>8, <1>9, <1>10
<1>12. Showing(termfb_draw_char_cell(s, " "), Written(g, a, " "), a)
       /\ Keeps(termfb_draw_char_cell(s, " "), s)
  BY <1>11, DrawShown
<1> QED  BY <1>7, <1>11, <1>12 DEF Keeps

\* The screen erased, and the cursor at its corner.
LEMMA ClearShown ==
    ASSUME NEW t, NEW g, NEW at, Showing(t, g, at)
    PROVE  /\ Showing(termfb_clear(t), [y \in 1 .. Rows |-> BlankRow(at)], [at EXCEPT !.x = 0, !.y = 0])
           /\ Keeps(termfb_clear(t), t)
<1>1. PICK to : to = [at EXCEPT !.x = 0, !.y = 0]  OBVIOUS
<1>2. PICK b : b = BlankRow(at)  OBVIOUS
<1>3. 0 \in 0 .. Cols - 1 /\ 0 \in 0 .. Rows - 1  BY Geometry
<1>4. PICK s : s = [t EXCEPT !.cur = to]  OBVIOUS
<1>5. Showing(s, g, to) /\ Keeps(s, t)
  BY <1>1, <1>3, <1>4, CursorMoves
<1>6. PICK r : r = [s EXCEPT !.phys = [y \in 1 .. VRows |-> b]]  OBVIOUS
<1>7. t.cur = at /\ t = [phys |-> t.phys, off |-> t.off, moves |-> t.moves, cur |-> t.cur,
                         tab |-> t.tab, ansi |-> t.ansi]
  BY DEF Showing
<1>8. termfb_clear(t) = r
  <2>1. termfb_clear(t) = [t EXCEPT !.phys = [y \in 1 .. VRows |-> b], !.cur.x = 0, !.cur.y = 0]
    BY <1>2, <1>7 DEF termfb_clear
  <2>2. PICK q : q = [y \in 1 .. VRows |-> b]  OBVIOUS
  <2>3. [t EXCEPT !.phys = q, !.cur.x = 0, !.cur.y = 0] = [[t EXCEPT !.cur = to] EXCEPT !.phys = q]
    BY <1>1, <1>7
  <2> QED  BY <1>4, <1>6, <2>1, <2>2, <2>3
<1>9. /\ r = [phys |-> r.phys, off |-> r.off, moves |-> r.moves, cur |-> r.cur, tab |-> r.tab, ansi |-> r.ansi]
      /\ r.phys = [y \in 1 .. VRows |-> b] /\ r.off = s.off /\ r.cur = to
  <2>1. s.cur = to /\ s = [phys |-> s.phys, off |-> s.off, moves |-> s.moves, cur |-> s.cur,
                           tab |-> s.tab, ansi |-> s.ansi]
    BY <1>5 DEF Showing
  <2>2. PICK q : q = [y \in 1 .. VRows |-> b]  OBVIOUS
  <2> QED  BY <1>6, <2>1, <2>2
<1>10. r.moves = s.moves /\ r.tab = s.tab /\ r.ansi = s.ansi
  <2>1. s = [phys |-> s.phys, off |-> s.off, moves |-> s.moves, cur |-> s.cur,
             tab |-> s.tab, ansi |-> s.ansi]
    BY <1>5 DEF Showing
  <2> QED  BY <1>6, <2>1
<1>11. r.moves \in BOOLEAN /\ (~r.moves => r.off = 0)
  BY <1>5, <1>9, <1>10 DEF Showing
<1>12. \A y \in 1 .. Rows : r.off + y \in 1 .. VRows
  BY <1>5, <1>9, Geometry DEF Showing
<1>13. [y \in 1 .. Rows |-> b] = [y \in 1 .. Rows |-> r.phys[r.off + y]]
  BY <1>9, <1>12
<1>14. Showing(r, [y \in 1 .. Rows |-> b], to)
  BY <1>5, <1>9, <1>11, <1>13 DEF Showing
<1>15. Keeps(r, t)
  BY <1>5, <1>10 DEF Keeps
<1> QED  BY <1>1, <1>2, <1>8, <1>14, <1>15

\* The terminal after a step, as an operation gives it.
LEMMA ShowsMeans ==
    ASSUME NEW r, NEW g, NEW at, Showing(r, g, at), Shows(r), r.moves = moves,
           ideal' = g, ideal_cur' = at
    PROVE  Showing(Terminal, ideal, ideal_cur)' /\ tab' = r.tab /\ ansi' = r.ansi
<1>1. r = [phys |-> r.phys, off |-> r.off, moves |-> r.moves, cur |-> r.cur,
           tab |-> r.tab, ansi |-> r.ansi]
  BY DEF Showing
<1>2. Terminal' = r
  BY <1>1 DEF Shows, Terminal
<1>3. Showing(Terminal', ideal', ideal_cur')
  BY <1>2
<1> QED  BY <1>3 DEF Shows, Showing, Terminal

\* A character other than a tab: the terminal does what the reader expects.
LEMMA PutcShown ==
    ASSUME NEW c, c # "\t", Showing(Terminal, ideal, ideal_cur),
           Shows(termfb_putc(Terminal, c)), Expect(c)
    PROVE  Showing(Terminal, ideal, ideal_cur)' /\ tab' = tab /\ ansi' = ansi
<1> DEFINE t == Terminal
<1>1. PICK r : r = termfb_putc(t, c)  OBVIOUS
<1>2. PICK g, at : g = ideal /\ at = ideal_cur  OBVIOUS
<1>3. Showing(t, g, at) /\ Shows(r)  BY <1>1, <1>2
<1>4. t.moves = moves /\ t.tab = tab /\ t.ansi = ansi  BY DEF Terminal
<1>5. t.cur = at /\ at = [x |-> at.x, y |-> at.y, col |-> at.col]
      /\ at.x \in 0 .. Cols - 1 /\ at.y \in 0 .. Rows - 1
  BY <1>3 DEF Showing
<1> HIDE DEF t
<1>6. Showing(r, ideal', ideal_cur') /\ Keeps(r, t)
  <2>1. CASE c = "\r"
    <3>1. PICK to : to = [at EXCEPT !.x = 0, !.y = at.y]  OBVIOUS
    <3>2. 0 \in 0 .. Cols - 1  BY Geometry
    <3>3. Showing([t EXCEPT !.cur = to], g, to) /\ Keeps([t EXCEPT !.cur = to], t)
      BY <1>3, <1>5, <3>1, <3>2, CursorMoves
    <3>4. [at EXCEPT !.x = 0] = to
      <4>1. PICK a : a = [at EXCEPT !.x = 0]  OBVIOUS
      <4>2. a = [x |-> 0, y |-> at.y, col |-> at.col]  BY <1>5, <4>1
      <4>3. to = [x |-> 0, y |-> at.y, col |-> at.col]  BY <1>5, <3>1
      <4> QED  BY <4>1, <4>2, <4>3
    <3>5. r = [t EXCEPT !.cur.x = 0]  BY <1>1, <2>1 DEF termfb_putc
    <3>6. r = [t EXCEPT !.cur = to]
      <4>1. r = [t EXCEPT !.cur = [at EXCEPT !.x = 0]]  BY <1>3, <1>5, <3>5 DEF Showing
      <4> QED  BY <3>4, <4>1
    <3>7. ideal' = g /\ ideal_cur' = to  BY <1>2, <2>1, <3>4 DEF Expect
    <3> QED  BY <3>3, <3>6, <3>7
  <2>2. CASE c = "\n"
    <3>1. r = NewLine(t)  BY <1>1, <2>2 DEF termfb_putc
    <3>2. ideal' = Scrolled(g, at) /\ ideal_cur' = NextLine(at)  BY <1>2, <2>2 DEF Expect
    <3> QED  BY <1>3, <3>1, <3>2, NewLineShown
  <2>3. CASE c = "BS"
    <3>1. r = Back(t)  BY <1>1, <2>3 DEF termfb_putc
    <3>2. ideal' = Written(g, Prev(at), " ") /\ ideal_cur' = Prev(at)  BY <1>2, <2>3 DEF Expect
    <3> QED  BY <1>3, <3>1, <3>2, BackShown
  <2>4. CASE c \notin {"\r", "\n", "\t", "BS"}
    <3>1. r = Drawn(t, c)  BY <1>1, <2>4 DEF termfb_putc
    <3>2. IF at.x + 1 < Cols
          THEN ideal' = Written(g, at, c) /\ ideal_cur' = [at EXCEPT !.x = @ + 1]
          ELSE ideal' = Scrolled(Written(g, at, c), at) /\ ideal_cur' = NextLine(at)
      BY <1>2, <2>4 DEF Expect
    <3> QED  BY <1>3, <3>1, <3>2, DrawnShown
  <2> QED  BY <2>1, <2>2, <2>3, <2>4
<1>7. r.moves = moves /\ r.tab = tab /\ r.ansi = ansi
  BY <1>4, <1>6 DEF Keeps
<1>8. Showing(Terminal, ideal, ideal_cur)' /\ tab' = r.tab /\ ansi' = r.ansi
  BY <1>3, <1>6, <1>7, ShowsMeans
<1> QED  BY <1>7, <1>8

\* The parser, or the tab, in another state: nothing is drawn.
LEMMA StateShown ==
    ASSUME NEW a, NEW n, Showing(Terminal, ideal, ideal_cur),
           Shows([Terminal EXCEPT !.ansi = a, !.tab = n]), UNCHANGED <<ideal, ideal_cur>>
    PROVE  Showing(Terminal, ideal, ideal_cur)' /\ tab' = n /\ ansi' = a
<1>1. /\ phys' = phys /\ off' = off /\ moves' = moves /\ cur' = cur /\ tab' = n /\ ansi' = a
      /\ ideal' = ideal /\ ideal_cur' = ideal_cur
  BY DEF Shows, Terminal
<1>2. Terminal' = [phys |-> phys, off |-> off, moves |-> moves, cur |-> cur, tab |-> n, ansi |-> a]
  BY <1>1 DEF Terminal
<1>3. PICK r : r = Terminal'  OBVIOUS
<1>4. /\ r.phys = phys /\ r.off = off /\ r.moves = moves /\ r.cur = cur /\ r.tab = n /\ r.ansi = a
      /\ r = [phys |-> r.phys, off |-> r.off, moves |-> r.moves, cur |-> r.cur, tab |-> r.tab, ansi |-> r.ansi]
  BY <1>2, <1>3
<1>5. PICK t : t = Terminal  OBVIOUS
<1>6. t.phys = phys /\ t.off = off /\ t.moves = moves /\ t.cur = cur
  BY <1>5 DEF Terminal
<1>7. r.moves \in BOOLEAN /\ (~r.moves => r.off = 0)
  BY <1>4, <1>5, <1>6 DEF Showing
<1>8. Showing(r, ideal, ideal_cur)
  BY <1>4, <1>5, <1>6, <1>7 DEF Showing
<1>9. Showing(Terminal', ideal', ideal_cur')
  BY <1>1, <1>3, <1>8
<1> QED  BY <1>1, <1>9 DEF Showing, Terminal

-----------------------------------------------------------------------------
(* Term: the parser of escape sequences.                                   *)

\* A number as the digits written so far read.
SoFar(n, d) == IF d = 0 THEN Unset
               ELSE IF d = Len(Spelled(n)) THEN n
               ELSE IF d + 1 = Len(Spelled(n)) THEN n \div 10
               ELSE n \div 100

\* The first n numbers of a sequence, an empty one read as 0.
Values(ps, n) == [i \in 1 .. n |-> IF ps[i] = Unset THEN 0 ELSE ps[i]]

LEMMA DigitsRead ==
    ASSUME NEW k \in 0 .. 9
    PROVE  IsDigit(Digits[k + 1]) /\ DigitValue(Digits[k + 1]) = k
<1>1. Len(Digits) = 10 /\ DOMAIN Digits = 1 .. 10
  BY DEF Digits
<1>2. \A i, j \in 1 .. 10 : Digits[i] = Digits[j] => i = j
  BY DEF Digits
<1>3. k + 1 \in 1 .. 10 /\ k + 1 - 1 = k  OBVIOUS
<1>4. \A i \in DOMAIN Digits : Digits[i] = Digits[k + 1] <=> i = k + 1
  BY <1>1, <1>2, <1>3
<1>5. (CHOOSE i \in DOMAIN Digits : Digits[i] = Digits[k + 1]) = k + 1
  <2>1. k + 1 \in DOMAIN Digits  BY <1>1, <1>3
  <2> QED  BY <1>4, <2>1
<1>6. IsDigit(Digits[k + 1])
  BY <1>1, <1>3 DEF IsDigit
<1>7. DigitValue(Digits[k + 1]) = k + 1 - 1
  <2>1. PICK v : v = CHOOSE i \in DOMAIN Digits : Digits[i] = Digits[k + 1]  OBVIOUS
  <2>2. DigitValue(Digits[k + 1]) = v - 1  BY <2>1, Zenon DEF DigitValue
  <2>3. v = k + 1  BY <1>5, <2>1, Zenon
  <2> QED  BY <2>2, <2>3
<1> QED  BY <1>3, <1>6, <1>7

\* A digit more of a number.
LEMMA DigitAdded ==
    ASSUME NEW n \in 0 .. 999, NEW d \in Nat, d < Len(Spelled(n))
    PROVE  LET c == Spelled(n)[d + 1]
           IN  /\ IsDigit(c)
               /\ (IF SoFar(n, d) = Unset THEN 0 ELSE SoFar(n, d) * 10) + DigitValue(c) = SoFar(n, d + 1)
<1>0. n # Unset  BY DEF Unset
<1>1. CASE n < 10
  <2>1. Spelled(n) = <<Digits[n + 1]>>  BY <1>0, <1>1 DEF Spelled
  <2>2. Len(Spelled(n)) = 1 /\ d = 0 /\ Spelled(n)[1] = Digits[n + 1]  BY <2>1
  <2>3. IsDigit(Digits[n + 1]) /\ DigitValue(Digits[n + 1]) = n  BY <1>1, DigitsRead
  <2> QED  BY <2>2, <2>3 DEF SoFar
<1>2. CASE 10 <= n /\ n < 100
  <2>1. PICK a \in 0 .. 9, b \in 0 .. 9 : a = n \div 10 /\ b = n % 10 /\ n = 10 * a + b
    BY <1>2
  <2>2. Spelled(n) = <<Digits[a + 1], Digits[b + 1]>>  BY <1>0, <1>2, <2>1 DEF Spelled
  <2>3. Len(Spelled(n)) = 2 /\ Spelled(n)[1] = Digits[a + 1] /\ Spelled(n)[2] = Digits[b + 1]
        /\ d \in 0 .. 1
    BY <2>2
  <2>4. /\ IsDigit(Digits[a + 1]) /\ DigitValue(Digits[a + 1]) = a
        /\ IsDigit(Digits[b + 1]) /\ DigitValue(Digits[b + 1]) = b
    BY DigitsRead
  <2>5. SoFar(n, 0) = Unset /\ SoFar(n, 1) = a /\ SoFar(n, 2) = n
    BY <2>1, <2>3 DEF SoFar
  <2>6. CASE d = 0  BY <2>3, <2>4, <2>5, <2>6
  <2>7. CASE d = 1
    <3>1. a # Unset  BY DEF Unset
    <3> QED  BY <2>1, <2>3, <2>4, <2>5, <2>7, <3>1
  <2> QED  BY <2>3, <2>6, <2>7
<1>3. CASE 100 <= n
  <2>1. PICK a \in 0 .. 9, b \in 0 .. 9, e \in 0 .. 9, f \in 0 .. 99 :
             a = n \div 100 /\ f = n \div 10 /\ b = (n \div 10) % 10 /\ e = n % 10
             /\ f = 10 * a + b /\ n = 10 * f + e
    BY <1>3
  <2>2. Spelled(n) = <<Digits[a + 1], Digits[b + 1], Digits[e + 1]>>
    BY <1>0, <1>3, <2>1 DEF Spelled
  <2>3. /\ Len(Spelled(n)) = 3 /\ d \in 0 .. 2 /\ Spelled(n)[1] = Digits[a + 1]
        /\ Spelled(n)[2] = Digits[b + 1] /\ Spelled(n)[3] = Digits[e + 1]
    BY <2>2
  <2>4. /\ IsDigit(Digits[a + 1]) /\ DigitValue(Digits[a + 1]) = a
        /\ IsDigit(Digits[b + 1]) /\ DigitValue(Digits[b + 1]) = b
        /\ IsDigit(Digits[e + 1]) /\ DigitValue(Digits[e + 1]) = e
    BY DigitsRead
  <2>5. SoFar(n, 0) = Unset /\ SoFar(n, 1) = a /\ SoFar(n, 2) = f /\ SoFar(n, 3) = n
    BY <2>1, <2>3 DEF SoFar
  <2>6. a # Unset /\ f # Unset  BY DEF Unset
  <2>7. CASE d = 0  BY <2>3, <2>4, <2>5, <2>7
  <2>8. CASE d = 1  BY <2>1, <2>3, <2>4, <2>5, <2>6, <2>8
  <2>9. CASE d = 2
    <3>1. d + 1 = 3 /\ Spelled(n)[d + 1] = Digits[e + 1]  BY <2>3, <2>9
    <3>2. SoFar(n, d) = f /\ SoFar(n, d + 1) = n  BY <2>5, <2>9, <3>1
    <3>3. f * 10 + e = n  BY <2>1
    <3> QED  BY <2>4, <2>6, <3>1, <3>2, <3>3
  <2> QED  BY <2>3, <2>7, <2>8, <2>9
<1> QED  BY <1>1, <1>2, <1>3

\* What the sequences that are written are like.
Numbers == {Unset} \cup 0 .. 999

LEMMA EscapesKnown ==
    ASSUME NEW e \in Escapes
    PROVE  /\ e.params \in Seq(Numbers) /\ Len(e.params) \in 0 .. 4
           /\ ~IsDigit(e.final) /\ e.final # ";"
           /\ e.final = "m" /\ Len(e.params) > 1 => e.params[Len(e.params)] # Unset
           /\ Numbers \subseteq Int
<1>1. /\ e.params \in Seq(Numbers) /\ Len(e.params) <= 4
      /\ ~IsDigit(e.final) /\ e.final # ";"
      /\ e.final = "m" /\ Len(e.params) > 1 => e.params[Len(e.params)] # Unset
  BY TermAssumption, Zenon DEF TermAssumption, Numbers
<1>2. PICK q : q = e.params  OBVIOUS
<1>3. q \in Seq(Numbers) /\ Len(q) <= 4  BY <1>1, <1>2
<1>4. Len(q) \in 0 .. 4
  <2>1. PICK k : k = Len(q)  OBVIOUS
  <2>2. k \in Nat /\ k <= 4  BY <1>3, <2>1, LenProperties
  <2>3. k \in 0 .. 4  BY <2>2
  <2> QED  BY <2>1, <2>3
<1>5. Numbers \subseteq Int
  BY DEF Numbers, Unset
<1> QED  BY <1>1, <1>2, <1>4, <1>5, Zenon

LEMMA ValuesSeq ==
    ASSUME NEW e \in Escapes, NEW n \in 0 .. Len(e.params)
    PROVE  /\ Values(e.params, n) \in Seq(Int) /\ Len(Values(e.params, n)) = n
           /\ \A i \in 1 .. n : Values(e.params, n)[i] = IF e.params[i] = Unset THEN 0 ELSE e.params[i]
           /\ n = 0 => Values(e.params, n) = <<>>
<1>1. e.params \in Seq(Numbers) /\ Len(e.params) \in 0 .. 4 /\ Numbers \subseteq Int
  BY EscapesKnown
<1>2. \A i \in 1 .. n : e.params[i] \in Int
  <2>1. PICK q : q = e.params  OBVIOUS
  <2>2. q \in Seq(Numbers) /\ n <= Len(q) /\ n \in Nat  BY <1>1, <2>1
  <2>3. \A i \in 1 .. n : i \in 1 .. Len(q)  BY <2>2
  <2>4. \A i \in 1 .. Len(q) : q[i] \in Numbers  BY <2>2
  <2> QED  BY <1>1, <2>1, <2>3, <2>4
<1>3. PICK f : f = Values(e.params, n)  OBVIOUS
<1>4. f = [i \in 1 .. n |-> IF e.params[i] = Unset THEN 0 ELSE e.params[i]]
  BY <1>3 DEF Values
<1>5. f \in [1 .. n -> Int]
  BY <1>2, <1>4
<1>6. f \in Seq(Int) /\ Len(f) = n
  BY <1>5
<1>7. n = 0 => f = <<>>
  BY <1>6
<1> QED  BY <1>1, <1>3, <1>4, <1>6, <1>7

\* What the parser has when the last character comes.
LEMMA NumbersRead ==
    ASSUME NEW e \in Escapes, NEW a, NEW n, n = Len(e.params),
           a = [state |-> "csi", params |-> Values(e.params, IF n = 0 THEN 0 ELSE n - 1),
                current |-> IF n = 0 THEN Unset ELSE e.params[n]]
    PROVE  LET fin == termfb_ansi_finish_param_if_needed(a).params
               ps  == e.params
           IN  /\ fin[1] = IF n = 0 THEN 0 ELSE Values(ps, n)[1]
               /\ IF n >= 2 /\ ps[2] # Unset THEN Len(fin) >= 2 /\ fin[2] = ps[2]
                  ELSE Len(fin) >= 2 => fin[2] = 0
               /\ e.final = "m" => fin = IF n = 0 THEN <<0>> ELSE Values(ps, n)
<1>1. PICK ps : ps = e.params  OBVIOUS
<1>2. PICK fin : fin = termfb_ansi_finish_param_if_needed(a).params  OBVIOUS
<1>3. n \in 0 .. 4 /\ ps \in Seq(Numbers) /\ n = Len(ps) /\ Numbers \subseteq Int
  BY <1>1, EscapesKnown
<1>4. a.params = Values(ps, IF n = 0 THEN 0 ELSE n - 1) /\ a.current = IF n = 0 THEN Unset ELSE ps[n]
  BY <1>1
<1>5. \A v : Len(a.params) < 4 =>
        termfb_ansi_push_param(a, v).params = Append(a.params, IF v = Unset THEN 0 ELSE v)
  BY DEF termfb_ansi_push_param
<1>6. /\ fin[1] = IF n = 0 THEN 0 ELSE Values(ps, n)[1]
      /\ IF n >= 2 /\ ps[2] # Unset THEN Len(fin) >= 2 /\ fin[2] = ps[2]
         ELSE Len(fin) >= 2 => fin[2] = 0
      /\ e.final = "m" => fin = IF n = 0 THEN <<0>> ELSE Values(ps, n)
  <2>1. CASE n = 0
    <3>1. a.params = <<>> /\ a.current = Unset
      BY <1>1, <1>3, <1>4, <2>1, ValuesSeq
    <3>2. fin = <<0>>
      BY <1>2, <1>5, <3>1 DEF termfb_ansi_finish_param_if_needed
    <3> QED  BY <2>1, <3>2
  <2>2. CASE n # 0 /\ ps[n] # Unset
    <3>1. n - 1 \in 0 .. Len(e.params) /\ n \in 0 .. Len(e.params) /\ n >= 1
      BY <1>1, <1>3, <2>2
    <3>2. PICK f : f = Values(ps, n - 1)  OBVIOUS
    <3>3. PICK h : h = Values(ps, n)  OBVIOUS
    <3>4. /\ f \in Seq(Int) /\ Len(f) = n - 1
          /\ \A i \in 1 .. n - 1 : f[i] = IF ps[i] = Unset THEN 0 ELSE ps[i]
      BY <1>1, <3>1, <3>2, ValuesSeq
    <3>5. /\ h \in Seq(Int) /\ Len(h) = n
          /\ \A i \in 1 .. n : h[i] = IF ps[i] = Unset THEN 0 ELSE ps[i]
      BY <1>1, <3>1, <3>3, ValuesSeq
    <3>6. a.params = f /\ a.current = ps[n] /\ Len(f) < 4
      BY <1>3, <1>4, <2>2, <3>2, <3>4
    <3>7. fin = Append(f, ps[n])
      BY <1>2, <1>5, <2>2, <3>6 DEF termfb_ansi_finish_param_if_needed
    <3>8. ps[n] \in Int
      <4>1. n \in 1 .. Len(ps)  BY <1>3, <3>1
      <4> QED  BY <1>3, <4>1, ElementOfSeq
    <3>9. fin \in Seq(Int) /\ Len(fin) = n /\ \A i \in 1 .. n : fin[i] = IF i < n THEN f[i] ELSE ps[n]
      BY <3>1, <3>4, <3>7, <3>8
    <3>10. \A i \in 1 .. n : fin[i] = h[i]
      BY <2>2, <3>1, <3>4, <3>5, <3>9
    <3>11. fin = h
      BY <3>5, <3>9, <3>10, SeqEqual
    <3> QED  BY <2>2, <3>1, <3>3, <3>5, <3>9, <3>11
  <2>3. CASE n = 1 /\ ps[n] = Unset
    <3>1. a.params = <<>> /\ a.current = Unset
      BY <1>1, <1>3, <1>4, <2>3, ValuesSeq
    <3>2. fin = <<0>>
      BY <1>2, <1>5, <3>1 DEF termfb_ansi_finish_param_if_needed
    <3>3. PICK h : h = Values(ps, n)  OBVIOUS
    <3>4. h \in Seq(Int) /\ Len(h) = 1 /\ h[1] = 0
      <4>1. 1 \in 0 .. Len(e.params) /\ n = 1 /\ ps[1] = Unset  BY <1>1, <1>3, <2>3
      <4>2. /\ Values(ps, 1) \in Seq(Int) /\ Len(Values(ps, 1)) = 1
            /\ \A i \in 1 .. 1 : Values(ps, 1)[i] = IF ps[i] = Unset THEN 0 ELSE ps[i]
        BY <1>1, <4>1, ValuesSeq
      <4> QED  BY <3>3, <4>1, <4>2
    <3>5. h = <<0>>
      BY <3>4
    <3> QED  BY <2>3, <3>2, <3>3, <3>4, <3>5
  <2>4. CASE n >= 2 /\ ps[n] = Unset
    <3>1. n - 1 \in 0 .. Len(e.params) /\ n \in 0 .. Len(e.params) /\ n - 1 >= 1
      BY <1>1, <1>3, <2>4
    <3>2. PICK f : f = Values(ps, n - 1)  OBVIOUS
    <3>3. PICK h : h = Values(ps, n)  OBVIOUS
    <3>4. /\ f \in Seq(Int) /\ Len(f) = n - 1
          /\ \A i \in 1 .. n - 1 : f[i] = IF ps[i] = Unset THEN 0 ELSE ps[i]
      BY <1>1, <3>1, <3>2, ValuesSeq
    <3>5. \A i \in 1 .. n : h[i] = IF ps[i] = Unset THEN 0 ELSE ps[i]
      BY <1>1, <3>1, <3>3, ValuesSeq
    <3>6. a.params = f /\ a.current = Unset /\ f # <<>>
      BY <1>3, <1>4, <2>4, <3>1, <3>2, <3>4
    <3>7. fin = f
      BY <1>2, <3>6 DEF termfb_ansi_finish_param_if_needed
    <3>8. e.final # "m"
      <4>1. Len(e.params) > 1 /\ e.params[Len(e.params)] = Unset  BY <1>1, <1>3, <2>4
      <4> QED  BY <4>1, EscapesKnown, Zenon
    <3>9. fin[1] = h[1]
      BY <3>1, <3>4, <3>5, <3>7
    <3>10. n > 2 => fin[2] = IF ps[2] = Unset THEN 0 ELSE ps[2]
      BY <1>3, <3>4, <3>7
    <3>11. n = 2 => ps[2] = Unset /\ Len(fin) = 1
      BY <2>4, <3>4, <3>7
    <3>12. Len(fin) = n - 1
      BY <3>4, <3>7
    <3> QED  BY <1>3, <2>4, <3>3, <3>8, <3>9, <3>10, <3>11, <3>12
  <2> QED  BY <1>3, <2>1, <2>2, <2>3, <2>4
<1> QED  BY <1>1, <1>2, <1>6

\* The sequence being written, in its numbers.
InNumbers ==
    /\ esc.seq \in Escapes /\ esc = [seq |-> esc.seq, par |-> esc.par, dig |-> esc.dig]
    /\ esc.par \in Nat \ {0} /\ esc.dig \in Nat
    /\ esc.par = 1 \/ esc.par <= Len(Params)
    /\ IF esc.par <= Len(Params) THEN esc.dig <= Len(Spelled(Params[esc.par])) ELSE esc.dig = 0
    /\ ansi = [state |-> "csi", params |-> Values(Params, esc.par - 1),
               current |-> IF esc.par <= Len(Params) THEN SoFar(Params[esc.par], esc.dig) ELSE Unset]

\* The parser has read what the writer has written.
ParserInv ==
    /\ tab \in Nat
    /\ \/ ansi = Normal
       \/ tab = 0 /\ InNumbers
       \/ /\ tab = 0 /\ ansi = [Normal EXCEPT !.state = "esc"]
          /\ esc.seq \in Escapes /\ esc = Starts(esc.seq)

ScreenInv == Showing(Terminal, ideal, ideal_cur) /\ ParserInv

\* The ways ParserInv can hold, by what the parser is in.
LEMMA ParserStates ==
    ASSUME ParserInv
    PROVE  /\ ansi.state = "csi" => tab = 0 /\ InNumbers
           /\ ansi.state = "esc" => /\ tab = 0 /\ ansi = [Normal EXCEPT !.state = "esc"]
                                    /\ esc.seq \in Escapes /\ esc = Starts(esc.seq)
           /\ tab # 0 => ansi = Normal
<1>1. Normal.state = "normal" /\ [Normal EXCEPT !.state = "esc"].state = "esc"
  BY DEF Normal
<1>2. InNumbers => ansi.state = "csi"
  BY DEF InNumbers
<1> QED  BY <1>1, <1>2 DEF ParserInv

\* Changes of the terminal that draw nothing.
LEMMA TerminalEdits ==
    ASSUME NEW a, NEW n
    PROVE  /\ [Terminal EXCEPT !.ansi = a, !.tab = n]
                = [phys |-> phys, off |-> off, moves |-> moves, cur |-> cur, tab |-> n, ansi |-> a]
           /\ [Terminal EXCEPT !.ansi = a]
                = [phys |-> phys, off |-> off, moves |-> moves, cur |-> cur, tab |-> tab, ansi |-> a]
           /\ [Terminal EXCEPT !.tab = n]
                = [phys |-> phys, off |-> off, moves |-> moves, cur |-> cur, tab |-> n, ansi |-> ansi]
<1>1. PICK t : t = Terminal  OBVIOUS
<1>2. t = [phys |-> phys, off |-> off, moves |-> moves, cur |-> cur, tab |-> tab, ansi |-> ansi]
  BY <1>1 DEF Terminal
<1>3. PICK u : u = [t EXCEPT !.ansi = a]  OBVIOUS
<1>4. u = [phys |-> phys, off |-> off, moves |-> moves, cur |-> cur, tab |-> tab, ansi |-> a]
  BY <1>2, <1>3
<1>5. PICK v : v = [t EXCEPT !.tab = n]  OBVIOUS
<1>6. v = [phys |-> phys, off |-> off, moves |-> moves, cur |-> cur, tab |-> n, ansi |-> ansi]
  BY <1>2, <1>5
<1>7. PICK w : w = [t EXCEPT !.ansi = a, !.tab = n]  OBVIOUS
<1>8. w = [phys |-> phys, off |-> off, moves |-> moves, cur |-> cur, tab |-> n, ansi |-> a]
  BY <1>2, <1>7
<1> QED  BY <1>1, <1>3, <1>4, <1>5, <1>6, <1>7, <1>8

\* A character that is not part of a sequence.
LEMMA PlainKeeps ==
    ASSUME ScreenInv, Settled, NEW c, c # "ESC", Shows(termfb_putc_ansi(Terminal, c)), Expect(c)
    PROVE  ScreenInv'
<1>1. Terminal.ansi = ansi /\ Terminal.cur = cur /\ ansi = Normal /\ tab = 0 /\ Normal.state = "normal"
  BY DEF Terminal, Settled, Normal
<1>2. termfb_putc_ansi(Terminal, c) = termfb_putc(Terminal, c)
  BY <1>1 DEF termfb_putc_ansi, Plain
<1>3. CASE c # "\t"
  <2>1. Showing(Terminal, ideal, ideal_cur)' /\ tab' = tab /\ ansi' = ansi
    BY <1>2, <1>3, PutcShown DEF ScreenInv
  <2> QED  BY <1>1, <2>1 DEF ScreenInv, ParserInv, Normal
<1>4. CASE c = "\t"
  <2>1. PICK n : n = (cur.x \div Tab + 1) * Tab  OBVIOUS
  <2>2. n \in Nat
    <3>1. cur.x \in Nat  BY <1>1, Geometry DEF ScreenInv, Showing
    <3>2. cur.x \div Tab \in Nat  BY <3>1, Geometry
    <3> QED  BY <2>1, <3>2, Geometry
  <2>3. termfb_putc(Terminal, c) = [Terminal EXCEPT !.ansi = Normal, !.tab = n]
    <3>1. termfb_putc(Terminal, c) = [Terminal EXCEPT !.tab = n]
      BY <1>1, <1>4, <2>1 DEF termfb_putc
    <3>2. [Terminal EXCEPT !.tab = n] = [Terminal EXCEPT !.ansi = ansi, !.tab = n]
      BY TerminalEdits
    <3> QED  BY <1>1, <3>1, <3>2
  <2>4. UNCHANGED <<ideal, ideal_cur>>
    BY <1>4 DEF Expect
  <2>5. Showing(Terminal, ideal, ideal_cur)' /\ tab' = n /\ ansi' = Normal
    BY <1>2, <2>3, <2>4, StateShown DEF ScreenInv
  <2> QED  BY <2>2, <2>5 DEF ScreenInv, ParserInv, Normal
<1> QED  BY <1>3, <1>4

LEMMA TabKeeps ==
    ASSUME ScreenInv, TabSpace
    PROVE  ScreenInv'
<1>1. ansi = Normal /\ tab \in Nat
  BY ParserStates DEF TabSpace, ScreenInv, ParserInv
<1>2. CASE cur.x < tab
  <2>1. Shows(termfb_putc(Terminal, " ")) /\ Expect(" ")
    BY <1>2 DEF TabSpace
  <2>2. Showing(Terminal, ideal, ideal_cur)' /\ tab' = tab /\ ansi' = ansi
    BY <2>1, PutcShown DEF ScreenInv
  <2> QED  BY <1>1, <2>2 DEF ScreenInv, ParserInv, Normal
<1>3. CASE ~(cur.x < tab)
  <2>1. tab' = 0 /\ UNCHANGED <<phys, off, moves, cur, ansi, ideal, ideal_cur>>
    BY <1>3 DEF TabSpace
  <2>2. Shows([Terminal EXCEPT !.ansi = ansi, !.tab = 0])
    BY <2>1 DEF Shows, Terminal
  <2>3. Showing(Terminal, ideal, ideal_cur)' /\ tab' = 0 /\ ansi' = ansi
    BY <2>1, <2>2, StateShown DEF ScreenInv
  <2> QED  BY <1>1, <2>3 DEF ScreenInv, ParserInv, Normal
<1> QED  BY <1>2, <1>3

\* A character of a sequence that only the parser takes note of.
LEMMA ParserSteps ==
    ASSUME ScreenInv, NEW c, NEW a, Passes(c), UNCHANGED <<ideal, ideal_cur>>,
           termfb_putc_ansi(Terminal, c) = [Terminal EXCEPT !.ansi = a]
    PROVE  Showing(Terminal, ideal, ideal_cur)' /\ tab' = tab /\ ansi' = a
<1>1. [Terminal EXCEPT !.ansi = a] = [Terminal EXCEPT !.ansi = a, !.tab = tab]
  BY DEF Terminal
<1>2. Shows([Terminal EXCEPT !.ansi = a, !.tab = tab])
  BY <1>1 DEF Passes
<1> QED  BY <1>2, StateShown DEF ScreenInv

LEMMA EscapeKeeps ==
    ASSUME ScreenInv, NEW e \in Escapes, Escape(e)
    PROVE  ScreenInv'
<1> DEFINE a == [Normal EXCEPT !.state = "esc"]
<1>1. Terminal.ansi = Normal /\ ansi = Normal /\ tab = 0 /\ Normal.state = "normal"
  BY DEF Terminal, Escape, Settled, Normal
<1>2. termfb_putc_ansi(Terminal, "ESC") = [Terminal EXCEPT !.ansi.state = "esc"]
  BY <1>1 DEF termfb_putc_ansi, Plain
<1>3. [Terminal EXCEPT !.ansi.state = "esc"] = [Terminal EXCEPT !.ansi = a, !.tab = 0]
  <2>1. [Terminal EXCEPT !.ansi.state = "esc"] = [Terminal EXCEPT !.ansi = a]
    BY <1>1
  <2> HIDE DEF a
  <2>2. [Terminal EXCEPT !.ansi = a] = [Terminal EXCEPT !.ansi = a, !.tab = tab]
    BY TerminalEdits
  <2> QED  BY <1>1, <2>1, <2>2
<1>4. Shows([Terminal EXCEPT !.ansi = a, !.tab = 0]) /\ UNCHANGED <<ideal, ideal_cur>>
  BY <1>2, <1>3 DEF Escape
<1> HIDE DEF a
<1>5. Showing(Terminal, ideal, ideal_cur)' /\ tab' = 0 /\ ansi' = a
  BY <1>4, StateShown DEF ScreenInv
<1>6. esc' = Starts(e) /\ esc'.seq = e
  BY DEF Escape, Starts
<1>7. (tab = 0 /\ ansi = a /\ esc.seq \in Escapes /\ esc = Starts(esc.seq))'
  <2>1. a' = a  BY DEF a, Normal
  <2> QED  BY <1>5, <1>6, <2>1
<1> QED  BY <1>5, <1>7 DEF ScreenInv, ParserInv, a

LEMMA BracketKeeps ==
    ASSUME ScreenInv, Bracket
    PROVE  ScreenInv'
<1>1. PICK e : e = esc.seq  OBVIOUS
<1>2. /\ tab = 0 /\ ansi = [Normal EXCEPT !.state = "esc"] /\ e \in Escapes /\ esc = Starts(e)
  BY <1>1, ParserStates DEF ScreenInv, Bracket
<1>3. PICK a : a = [Normal EXCEPT !.state = "csi"]  OBVIOUS
<1>4. Terminal.ansi = ansi /\ ansi.state = "esc"
  BY DEF Terminal, Bracket
<1>5. termfb_putc_ansi(Terminal, "[") = [Terminal EXCEPT !.ansi = a]
  BY <1>3, <1>4 DEF termfb_putc_ansi, AfterEsc
<1>6. Showing(Terminal, ideal, ideal_cur)' /\ tab' = 0 /\ ansi' = a
  BY <1>2, <1>5, ParserSteps DEF Bracket
<1>7. InNumbers'
  <2>1. esc' = [seq |-> e, par |-> 1, dig |-> 0] /\ esc'.seq = e /\ esc'.par = 1 /\ esc'.dig = 0
    BY <1>2 DEF Bracket, Starts
  <2>2. PICK ps : ps = e.params  OBVIOUS
  <2>3. Values(ps, 0) = <<>> /\ Len(ps) \in Nat
    <3>1. Len(ps) \in 0 .. 4  BY <1>2, <2>2, EscapesKnown
    <3>2. 0 \in 0 .. Len(ps)  BY <3>1
    <3> QED  BY <1>2, <2>2, <3>1, <3>2, ValuesSeq
  <2>4. \A n : SoFar(n, 0) = Unset  BY DEF SoFar
  <2>5. a = [state |-> "csi", params |-> <<>>, current |-> Unset]
    BY <1>3 DEF Normal
  <2>6. a = [state |-> "csi", params |-> Values(ps, 0),
             current |-> IF 1 <= Len(ps) THEN SoFar(ps[1], 0) ELSE Unset]
    BY <2>3, <2>4, <2>5
  <2>7. 1 <= Len(ps) => 0 <= Len(Spelled(ps[1]))
    BY DEF Spelled
  <2>8. Params' = ps  BY <2>1, <2>2 DEF Params
  <2>9. 1 - 1 = 0  OBVIOUS
  <2> QED  BY <1>2, <1>6, <2>1, <2>6, <2>7, <2>8, <2>9 DEF InNumbers
<1> QED  BY <1>6, <1>7 DEF ScreenInv, ParserInv

LEMMA DigitsKnown ==
    ASSUME NEW c, IsDigit(c)
    PROVE  c # ";" /\ c # "ESC"
<1>1. PICK i \in DOMAIN Digits : c = Digits[i]
  BY DEF IsDigit
<1>2. i \in 1 .. 10
  BY <1>1 DEF Digits
<1>3. i = 1 \/ i = 2 \/ i = 3 \/ i = 4 \/ i = 5 \/ i = 6 \/ i = 7 \/ i = 8 \/ i = 9 \/ i = 10
  BY <1>2
<1>4. /\ Digits[1] = "0" /\ Digits[2] = "1" /\ Digits[3] = "2" /\ Digits[4] = "3" /\ Digits[5] = "4"
      /\ Digits[6] = "5" /\ Digits[7] = "6" /\ Digits[8] = "7" /\ Digits[9] = "8" /\ Digits[10] = "9"
  BY DEF Digits
<1>5. c \in {"0", "1", "2", "3", "4", "5", "6", "7", "8", "9"}
  BY <1>1, <1>3, <1>4
<1> QED  BY <1>5

LEMMA DigitInCsi ==
    ASSUME NEW t, NEW c, IsDigit(c)
    PROVE  InCsi(t, c) = DigitRead(t, c)
  BY DigitsKnown DEF InCsi

\* A number that is written in full.
LEMMA SoFarAll ==
    ASSUME NEW n \in Numbers
    PROVE  /\ SoFar(n, Len(Spelled(n))) = n
           /\ n = Unset <=> Len(Spelled(n)) = 0
           /\ Len(Spelled(n)) \in Nat
<1>1. CASE n = Unset
  <2>1. Spelled(n) = <<>>  BY <1>1 DEF Spelled
  <2>2. Len(Spelled(n)) = 0  BY <2>1
  <2> QED  BY <1>1, <2>2 DEF SoFar
<1>2. CASE n # Unset
  <2>1. Len(Spelled(n)) \in {1, 2, 3}
    BY <1>2 DEF Spelled
  <2>2. PICK k : k = Len(Spelled(n))  OBVIOUS
  <2> QED  BY <1>2, <2>1, <2>2 DEF SoFar
<1> QED  BY <1>1, <1>2

\* One number more.
LEMMA ValuesNext ==
    ASSUME NEW e \in Escapes, NEW k \in Nat, k < Len(e.params), NEW v,
           v = IF e.params[k + 1] = Unset THEN 0 ELSE e.params[k + 1]
    PROVE  Append(Values(e.params, k), v) = Values(e.params, k + 1)
<1>1. PICK ps : ps = e.params  OBVIOUS
<1>2. PICK m : m = Len(ps)  OBVIOUS
<1>3. ps \in Seq(Numbers) /\ m \in 0 .. 4 /\ Numbers \subseteq Int
  BY <1>1, <1>2, EscapesKnown
<1>4. k \in 0 .. m /\ k + 1 \in 0 .. m /\ k + 1 \in 1 .. m
  BY <1>1, <1>2, <1>3
<1>5. PICK f : f = Values(ps, k)  OBVIOUS
<1>6. PICK h : h = Values(ps, k + 1)  OBVIOUS
<1>7. f \in Seq(Int) /\ Len(f) = k /\ \A i \in 1 .. k : f[i] = IF ps[i] = Unset THEN 0 ELSE ps[i]
  BY <1>1, <1>2, <1>4, <1>5, ValuesSeq
<1>8. /\ h \in Seq(Int) /\ Len(h) = k + 1
      /\ \A i \in 1 .. k + 1 : h[i] = IF ps[i] = Unset THEN 0 ELSE ps[i]
  BY <1>1, <1>2, <1>4, <1>6, ValuesSeq
<1>9. ps[k + 1] \in Int
  BY <1>2, <1>3, <1>4, ElementOfSeq
<1>10. v \in Int
  BY <1>1, <1>9
<1>11. PICK g : g = Append(f, v)  OBVIOUS
<1>12. g \in Seq(Int) /\ Len(g) = k + 1 /\ \A i \in 1 .. k + 1 : g[i] = IF i <= k THEN f[i] ELSE v
  BY <1>7, <1>10, <1>11
<1>13. \A i \in 1 .. k + 1 : g[i] = h[i]
  <2>1. ASSUME NEW i \in 1 .. k + 1 PROVE g[i] = h[i]
    <3>1. CASE i <= k
      <4>1. i \in 1 .. k  BY <3>1
      <4>2. f[i] = IF ps[i] = Unset THEN 0 ELSE ps[i]  BY <1>7, <4>1
      <4>3. h[i] = IF ps[i] = Unset THEN 0 ELSE ps[i]  BY <1>8
      <4>4. g[i] = f[i]  BY <1>12, <3>1
      <4> QED  BY <4>2, <4>3, <4>4
    <3>2. CASE ~(i <= k)
      <4>1. i = k + 1  BY <3>2
      <4> QED  BY <4>1, <1>1, <1>8, <1>12
    <3> QED  BY <3>1, <3>2
  <2> QED  BY <2>1
<1>14. g = h
  BY <1>8, <1>12, <1>13, SeqEqual
<1> QED  BY <1>1, <1>5, <1>6, <1>11, <1>14

\* What InNumbers says, in the terms of the sequence.
LEMMA NumbersKnown ==
    ASSUME ScreenInv, ansi.state = "csi"
    PROVE  /\ tab = 0 /\ InNumbers /\ Terminal.ansi = ansi
           /\ \A c : termfb_putc_ansi(Terminal, c) = InCsi(Terminal, c)
           /\ esc.seq \in Escapes /\ Params = esc.seq.params
           /\ Len(Params) \in 0 .. 4 /\ esc.par \in Nat \ {0} /\ esc.dig \in Nat
           /\ \A i \in 1 .. Len(Params) : Params[i] \in Numbers
<1>1. tab = 0 /\ InNumbers
  BY ParserStates DEF ScreenInv
<1>2. Terminal.ansi = ansi
  BY DEF Terminal
<1>3. \A c : termfb_putc_ansi(Terminal, c) = InCsi(Terminal, c)
  BY <1>2 DEF termfb_putc_ansi
<1>4. esc.seq \in Escapes /\ Params = esc.seq.params /\ esc.par \in Nat \ {0} /\ esc.dig \in Nat
  BY <1>1 DEF InNumbers, Params
<1>5. Len(Params) \in 0 .. 4 /\ Params \in Seq(Numbers)
  BY <1>4, EscapesKnown
<1>6. \A i \in 1 .. Len(Params) : Params[i] \in Numbers
  BY <1>5, ElementOfSeq
<1> QED  BY <1>1, <1>2, <1>3, <1>4, <1>5, <1>6

LEMMA NumberKeeps ==
    ASSUME ScreenInv, Number
    PROVE  ScreenInv'
<1>1. PICK e, par, dig : e = esc.seq /\ par = esc.par /\ dig = esc.dig  OBVIOUS
<1>2. PICK ps : ps = Params  OBVIOUS
<1>3. /\ tab = 0 /\ InNumbers /\ Terminal.ansi = ansi /\ e \in Escapes /\ ps = e.params
      /\ Len(ps) \in 0 .. 4 /\ par \in Nat \ {0} /\ dig \in Nat
      /\ \A i \in 1 .. Len(ps) : ps[i] \in Numbers
  BY <1>1, <1>2, NumbersKnown DEF Number
<1>4. /\ esc = [seq |-> e, par |-> par, dig |-> dig]
      /\ ansi = [state |-> "csi", params |-> Values(ps, par - 1),
                 current |-> IF par <= Len(ps) THEN SoFar(ps[par], dig) ELSE Unset]
  BY <1>1, <1>2, <1>3 DEF InNumbers
<1>5. par <= Len(ps) /\ dig # Len(Spelled(ps[par])) /\ dig <= Len(Spelled(ps[par]))
  BY <1>1, <1>2, <1>3 DEF Number, NumberDone, InNumbers
<1>6. PICK n : n = ps[par]  OBVIOUS
<1>7. n \in Numbers /\ par \in 1 .. Len(ps)
  BY <1>3, <1>5, <1>6
<1>8. Len(Spelled(n)) \in Nat /\ dig < Len(Spelled(n)) /\ n # Unset
  <2>1. PICK l : l = Len(Spelled(n))  OBVIOUS
  <2>2. l \in Nat /\ (n = Unset <=> l = 0)  BY <1>7, <2>1, SoFarAll
  <2>3. dig <= l /\ dig # l  BY <1>5, <1>6, <2>1
  <2> QED  BY <1>3, <2>1, <2>2, <2>3
<1>9. n \in 0 .. 999
  BY <1>7, <1>8 DEF Numbers
<1>10. PICK c : c = Spelled(n)[dig + 1]  OBVIOUS
<1>11. PICK v : v = (IF SoFar(n, dig) = Unset THEN 0 ELSE SoFar(n, dig) * 10) + DigitValue(c)  OBVIOUS
<1>12. IsDigit(c) /\ v = SoFar(n, dig + 1)
  BY <1>3, <1>8, <1>9, <1>10, <1>11, DigitAdded
<1>13. PICK a : a = [ansi EXCEPT !.current = v]  OBVIOUS
<1>14. ansi.current = SoFar(n, dig)
  BY <1>4, <1>5, <1>6
<1>15. InCsi(Terminal, c) = [Terminal EXCEPT !.ansi = a]
  <2>1. InCsi(Terminal, c) = DigitRead(Terminal, c)
    BY <1>12, DigitInCsi
  <2>2. DigitRead(Terminal, c) = [Terminal EXCEPT !.ansi.current = v]
    BY <1>3, <1>11, <1>14 DEF DigitRead
  <2> QED  BY <1>3, <1>13, <2>1, <2>2
<1>16. Passes(c) /\ UNCHANGED <<ideal, ideal_cur>> /\ esc' = [esc EXCEPT !.dig = @ + 1]
  BY <1>1, <1>2, <1>6, <1>10 DEF Number
<1>17. Showing(Terminal, ideal, ideal_cur)' /\ tab' = 0 /\ ansi' = a
  <2>1. termfb_putc_ansi(Terminal, c) = [Terminal EXCEPT !.ansi = a]
    BY <1>15, NumbersKnown DEF Number
  <2> QED  BY <1>3, <1>16, <2>1, ParserSteps
<1>18. InNumbers'
  <2>1. a = [state |-> "csi", params |-> Values(ps, par - 1), current |-> v]
    BY <1>4, <1>13
  <2>2. esc' = [seq |-> e, par |-> par, dig |-> dig + 1]
    BY <1>4, <1>16
  <2>3. esc'.seq = e /\ esc'.par = par /\ esc'.dig = dig + 1
    BY <2>2
  <2>4. Params' = ps  BY <1>3, <2>3 DEF Params
  <2>5. dig + 1 <= Len(Spelled(ps[par])) /\ dig + 1 \in Nat
    BY <1>3, <1>6, <1>8
  <2>6. a = [state |-> "csi", params |-> Values(ps, par - 1),
             current |-> IF par <= Len(ps) THEN SoFar(ps[par], dig + 1) ELSE Unset]
    BY <1>5, <1>6, <1>12, <2>1
  <2> QED  BY <1>3, <1>5, <1>17, <2>2, <2>3, <2>4, <2>5, <2>6 DEF InNumbers
<1> QED  BY <1>17, <1>18 DEF ScreenInv, ParserInv

LEMMA SeparatorKeeps ==
    ASSUME ScreenInv, Separator
    PROVE  ScreenInv'
<1>1. PICK e, par, dig : e = esc.seq /\ par = esc.par /\ dig = esc.dig  OBVIOUS
<1>2. PICK ps : ps = Params  OBVIOUS
<1>3. /\ tab = 0 /\ InNumbers /\ Terminal.ansi = ansi /\ e \in Escapes /\ ps = e.params
      /\ Len(ps) \in 0 .. 4 /\ par \in Nat \ {0} /\ dig \in Nat
      /\ \A i \in 1 .. Len(ps) : ps[i] \in Numbers
  BY <1>1, <1>2, NumbersKnown DEF Separator
<1>4. /\ esc = [seq |-> e, par |-> par, dig |-> dig]
      /\ ansi = [state |-> "csi", params |-> Values(ps, par - 1),
                 current |-> IF par <= Len(ps) THEN SoFar(ps[par], dig) ELSE Unset]
  BY <1>1, <1>2, <1>3 DEF InNumbers
<1>5. par < Len(ps) /\ par <= Len(ps) /\ dig = Len(Spelled(ps[par]))
  <2>1. PICK l : l = Len(ps)  OBVIOUS
  <2>2. par < l  BY <1>1, <1>2, <2>1 DEF Separator
  <2>3. par <= l  BY <1>3, <2>1, <2>2
  <2>4. par <= l => dig = Len(Spelled(ps[par]))
    BY <1>1, <1>2, <2>1 DEF Separator, NumberDone
  <2> QED  BY <2>1, <2>2, <2>3, <2>4
<1>6. PICK n : n = ps[par]  OBVIOUS
<1>7. n \in Numbers /\ par - 1 \in Nat /\ par - 1 + 1 = par /\ par - 1 < Len(ps) /\ par - 1 < 4
  BY <1>3, <1>5, <1>6
<1>8. ansi.current = n
  BY <1>4, <1>5, <1>6, <1>7, SoFarAll
<1>9. PICK w : w = IF n = Unset THEN 0 ELSE n  OBVIOUS
<1>10. PICK f : f = Values(ps, par - 1)  OBVIOUS
<1>11. Append(f, w) = Values(ps, par) /\ Len(f) < 4
  <2>1. Append(Values(e.params, par - 1), w) = Values(e.params, par - 1 + 1)
    BY <1>3, <1>6, <1>7, <1>9, ValuesNext
  <2>2. par - 1 \in 0 .. Len(e.params)  BY <1>3, <1>7
  <2>3. Len(Values(e.params, par - 1)) = par - 1  BY <1>3, <2>2, ValuesSeq
  <2> QED  BY <1>3, <1>7, <1>10, <2>1, <2>3
<1>12. PICK a : a = termfb_ansi_push_param(ansi, ansi.current)  OBVIOUS
<1>13. a = [state |-> "csi", params |-> Values(ps, par), current |-> Unset]
  <2>1. ansi = [state |-> "csi", params |-> f, current |-> n]
    BY <1>4, <1>8, <1>10
  <2>2. a = [ansi EXCEPT !.params = Append(f, w), !.current = Unset]
    BY <1>8, <1>9, <1>11, <1>12, <2>1 DEF termfb_ansi_push_param
  <2>3. PICK h : h = Append(f, w)  OBVIOUS
  <2> QED  BY <1>11, <2>1, <2>2, <2>3
<1>14. InCsi(Terminal, ";") = [Terminal EXCEPT !.ansi = a]
  <2>1. ~IsDigit(";")  BY DigitsKnown
  <2> QED  BY <1>3, <1>12, <2>1 DEF InCsi
<1>15. Passes(";") /\ UNCHANGED <<ideal, ideal_cur>> /\ esc' = [esc EXCEPT !.par = @ + 1, !.dig = 0]
  BY DEF Separator
<1>16. Showing(Terminal, ideal, ideal_cur)' /\ tab' = 0 /\ ansi' = a
  <2>1. termfb_putc_ansi(Terminal, ";") = [Terminal EXCEPT !.ansi = a]
    BY <1>14, NumbersKnown DEF Separator
  <2> QED  BY <1>3, <1>15, <2>1, ParserSteps
<1>17. InNumbers'
  <2>1. esc' = [seq |-> e, par |-> par + 1, dig |-> 0]
    BY <1>4, <1>15
  <2>2. esc'.seq = e /\ esc'.par = par + 1 /\ esc'.dig = 0
    BY <2>1
  <2>3. Params' = ps  BY <1>3, <2>2 DEF Params
  <2>4. par + 1 <= Len(ps) /\ par + 1 \in Nat \ {0} /\ par + 1 - 1 = par
    BY <1>3, <1>5
  <2>5. ps[par + 1] \in Numbers  BY <1>3, <2>4
  <2>6. 0 <= Len(Spelled(ps[par + 1]))  BY <2>5, SoFarAll
  <2>7. a = [state |-> "csi", params |-> Values(ps, par + 1 - 1),
             current |-> IF par + 1 <= Len(ps) THEN SoFar(ps[par + 1], 0) ELSE Unset]
    BY <1>13, <2>4 DEF SoFar
  <2> QED  BY <1>3, <1>16, <2>1, <2>2, <2>3, <2>4, <2>6, <2>7 DEF InNumbers
<1> QED  BY <1>16, <1>17 DEF ScreenInv, ParserInv

\* What the screen shows when a sequence is over.
LEMMA AfterSequence ==
    ASSUME NEW r, NEW g, NEW at, Showing(r, g, at), Shows(r), r.moves = moves,
           r.ansi = Normal, r.tab = 0, ideal' = g, ideal_cur' = at
    PROVE  ScreenInv'
<1>1. Showing(Terminal, ideal, ideal_cur)' /\ tab' = 0 /\ ansi' = Normal
  BY ShowsMeans
<1> QED  BY <1>1 DEF ScreenInv, ParserInv, Normal

\* The parser and its reader agree on what the numbers of a sequence say.
ZeroFor(ps) == [i \in DOMAIN ps |-> IF ps[i] = Unset THEN 0 ELSE ps[i]]
Given(ps) == IF ps = <<>> THEN <<0>> ELSE ZeroFor(ps)
NthOf(ps, i) == IF i <= Len(ps) /\ ps[i] > 0 THEN ps[i] ELSE 1
At(n) == IF n = 0 THEN 0 ELSE n - 1

LEMMA ClampedRight ==
    ASSUME NEW n \in Nat, NEW top \in Nat \ {0}, NEW k, k = IF n > 0 THEN n ELSE 1
    PROVE  Clamp(At(n), top - 1) = Clamp(k, top) - 1 /\ Clamp(k, top) - 1 \in 0 .. top - 1
  BY DEF Clamp, At

LEMMA NumbersAgree ==
    ASSUME NEW e \in Escapes, NEW a, NEW n, n = Len(e.params),
           a = [state |-> "csi", params |-> Values(e.params, IF n = 0 THEN 0 ELSE n - 1),
                current |-> IF n = 0 THEN Unset ELSE e.params[n]],
           NEW fin, fin = termfb_ansi_finish_param_if_needed(a).params,
           NEW col, col = IF Len(fin) >= 2 THEN fin[2] ELSE 1
    PROVE  /\ fin[1] = Given(e.params)[1] /\ fin[1] \in Nat
           /\ NthOf(e.params, 1) = IF fin[1] > 0 THEN fin[1] ELSE 1
           /\ col \in Nat /\ NthOf(e.params, 2) = IF col > 0 THEN col ELSE 1
           /\ e.final = "m" => fin = Given(e.params)
<1>1. PICK ps : ps = e.params  OBVIOUS
<1>2. n \in 0 .. 4 /\ ps \in Seq(Numbers) /\ n = Len(ps)
  BY <1>1, EscapesKnown
<1>3. \A i \in 1 .. n : ps[i] \in Numbers
  BY <1>2, ElementOfSeq
<1>4. \A i \in 1 .. n : IF ps[i] = Unset THEN ~(ps[i] > 0) ELSE ps[i] \in Nat
  <2>1. \A v \in Numbers : IF v = Unset THEN ~(v > 0) ELSE v \in Nat
    BY DEF Numbers, Unset
  <2> QED  BY <1>3, <2>1
<1>5. PICK h : h = Values(ps, n)  OBVIOUS
<1>6. /\ fin[1] = IF n = 0 THEN 0 ELSE h[1]
      /\ IF n >= 2 /\ ps[2] # Unset THEN Len(fin) >= 2 /\ fin[2] = ps[2]
         ELSE Len(fin) >= 2 => fin[2] = 0
      /\ e.final = "m" => fin = IF n = 0 THEN <<0>> ELSE h
  BY <1>1, <1>5, NumbersRead
<1>7. Given(ps) = IF n = 0 THEN <<0>> ELSE h
  <2>1. n = 0 <=> ps = <<>>
    BY <1>2, EmptySeq
  <2>2. DOMAIN ps = 1 .. n
    BY <1>2, LenProperties
  <2>3. ZeroFor(ps) = h
    BY <1>5, <2>2 DEF ZeroFor, Values
  <2> QED  BY <2>1, <2>3 DEF Given
<1>8. n > 0 => h[1] = IF ps[1] = Unset THEN 0 ELSE ps[1]
  <2>1. n > 0 => 1 \in 1 .. n  BY <1>2
  <2> QED  BY <1>5, <2>1 DEF Values
<1>9. fin[1] = Given(ps)[1] /\ (e.final = "m" => fin = Given(ps))
  <2>1. <<0>>[1] = 0  OBVIOUS
  <2> QED  BY <1>6, <1>7, <2>1
<1>10. fin[1] \in Nat /\ NthOf(ps, 1) = IF fin[1] > 0 THEN fin[1] ELSE 1
  <2>1. CASE n = 0
    <3>1. fin[1] = 0  BY <1>6, <2>1
    <3> QED  BY <1>2, <2>1, <3>1 DEF NthOf
  <2>2. CASE n > 0
    <3>1. 1 \in 1 .. n  BY <1>2, <2>2
    <3>2. fin[1] = IF ps[1] = Unset THEN 0 ELSE ps[1]  BY <1>6, <1>8, <2>2
    <3>3. IF ps[1] = Unset THEN ~(ps[1] > 0) ELSE ps[1] \in Nat  BY <1>4, <3>1
    <3>4. 1 <= Len(ps)  BY <1>2, <2>2
    <3> QED  BY <3>2, <3>3, <3>4 DEF NthOf
  <2> QED  BY <1>2, <2>1, <2>2
<1>11. col \in Nat /\ NthOf(ps, 2) = IF col > 0 THEN col ELSE 1
  <2>1. CASE n >= 2
    <3>1. 2 \in 1 .. n /\ 2 <= Len(ps)  BY <1>2, <2>1
    <3>2. IF ps[2] = Unset THEN ~(ps[2] > 0) ELSE ps[2] \in Nat  BY <1>4, <3>1
    <3>3. CASE ps[2] = Unset
      <4>1. col = 0 \/ col = 1  BY <1>6, <2>1, <3>3
      <4> QED  BY <3>2, <3>3, <4>1 DEF NthOf
    <3>4. CASE ps[2] # Unset
      <4>1. col = ps[2]  BY <1>6, <2>1, <3>4
      <4> QED  BY <3>1, <3>2, <3>4, <4>1 DEF NthOf
    <3> QED  BY <3>3, <3>4
  <2>2. CASE ~(n >= 2)
    <3>1. col = 0 \/ col = 1  BY <1>6, <2>2
    <3>2. ~(2 <= Len(ps))  BY <1>2, <2>2
    <3> QED  BY <3>1, <3>2 DEF NthOf
  <2> QED  BY <2>1, <2>2
<1> QED  BY <1>1, <1>9, <1>10, <1>11

LEMMA FinalKeeps ==
    ASSUME ScreenInv, Final
    PROVE  ScreenInv'
<1>1. PICK e, par, dig : e = esc.seq /\ par = esc.par /\ dig = esc.dig  OBVIOUS
<1>2. PICK q : q = Params  OBVIOUS
<1>3. /\ tab = 0 /\ InNumbers /\ Terminal.ansi = ansi /\ e \in Escapes /\ q = e.params
      /\ Len(q) \in 0 .. 4 /\ par \in Nat \ {0} /\ dig \in Nat
      /\ \A i \in 1 .. Len(q) : q[i] \in Numbers
  BY <1>1, <1>2, NumbersKnown DEF Final
<1>4. PICK n \in 0 .. 4 : n = Len(q)  BY <1>3
<1>5. /\ ansi = [state |-> "csi", params |-> Values(q, par - 1),
                 current |-> IF par <= n THEN SoFar(q[par], dig) ELSE Unset]
      /\ par = 1 \/ par <= n
  BY <1>1, <1>2, <1>3, <1>4 DEF InNumbers
<1>6. par >= n /\ (par <= n => dig = Len(Spelled(q[par])))
  BY <1>1, <1>2, <1>4 DEF Final, NumberDone
<1>7. ansi = [state |-> "csi", params |-> Values(q, IF n = 0 THEN 0 ELSE n - 1),
              current |-> IF n = 0 THEN Unset ELSE q[n]]
  <2>1. CASE n = 0
    <3>1. par = 1 /\ par - 1 = 0 /\ ~(par <= n)  BY <1>3, <1>5, <2>1
    <3> QED  BY <1>5, <2>1, <3>1
  <2>2. CASE n # 0
    <3>1. par = n /\ par <= n /\ n \in 1 .. Len(q)  BY <1>3, <1>4, <1>5, <1>6, <2>2
    <3>2. SoFar(q[n], dig) = q[n]  BY <1>3, <1>6, <3>1, SoFarAll
    <3> QED  BY <1>5, <2>2, <3>1, <3>2
  <2> QED  BY <2>1, <2>2
<1>8. PICK c : c = e.final  OBVIOUS
<1>9. PICK fin : fin = termfb_ansi_finish_param_if_needed(ansi).params  OBVIOUS
<1>10. PICK col : col = IF Len(fin) >= 2 THEN fin[2] ELSE 1  OBVIOUS
<1>11. /\ fin[1] = Given(q)[1] /\ fin[1] \in Nat
       /\ NthOf(q, 1) = IF fin[1] > 0 THEN fin[1] ELSE 1
       /\ col \in Nat /\ NthOf(q, 2) = IF col > 0 THEN col ELSE 1
       /\ c = "m" => fin = Given(q)
  BY <1>3, <1>4, <1>7, <1>8, <1>9, <1>10, NumbersAgree
<1>12. PICK done : done = [Terminal EXCEPT !.ansi = Normal]  OBVIOUS
<1>13. PICK at : at = ideal_cur  OBVIOUS
<1>14. /\ done = [phys |-> phys, off |-> off, moves |-> moves, cur |-> cur, tab |-> tab, ansi |-> Normal]
       /\ Showing(done, ideal, at) /\ done.cur = at
       /\ done.moves = moves /\ done.tab = 0 /\ done.ansi = Normal
  <2>1. done = [phys |-> phys, off |-> off, moves |-> moves, cur |-> cur, tab |-> tab, ansi |-> Normal]
    BY <1>12, TerminalEdits
  <2>2. Showing(done, ideal, at)
    BY <1>13, <2>1 DEF ScreenInv, Showing, Terminal
  <2> QED  BY <1>3, <2>1, <2>2 DEF Showing
<1>15. PICK r : r = termfb_ansi_handle_csi(Terminal, c)  OBVIOUS
<1>16. Shows(r)
  <2>1. ~IsDigit(c) /\ c # ";"
    BY <1>3, <1>8, EscapesKnown
  <2>2. termfb_putc_ansi(Terminal, c) = r
    BY <1>15, <2>1, NumbersKnown DEF Final, InCsi
  <2> QED  BY <1>1, <1>8, <2>2 DEF Final, Passes
<1>17. /\ c = "m" => r = [done EXCEPT !.cur.col = Coloured(@, fin)]
       /\ c = "J" => r = IF fin[1] = 2 THEN termfb_clear(done) ELSE done
       /\ c \in {"H", "f"} => r = [done EXCEPT !.cur = termfb_set_cursor_1based(@, fin[1], col)]
       /\ c \notin {"m", "J", "H", "f"} => r = done
  BY <1>3, <1>9, <1>10, <1>12, <1>15 DEF termfb_ansi_handle_csi
<1>18. /\ ideal' = IF c = "J" /\ Given(q)[1] = 2 THEN [y \in 1 .. Rows |-> BlankRow(at)] ELSE ideal
       /\ c = "m" => ideal_cur' = [at EXCEPT !.col = Coloured(@, Given(q))]
       /\ c = "J" => ideal_cur' = IF Given(q)[1] = 2 THEN [at EXCEPT !.x = 0, !.y = 0] ELSE at
       /\ c \in {"H", "f"} => ideal_cur' = [at EXCEPT !.y = Clamp(NthOf(q, 1), Rows) - 1,
                                                      !.x = Clamp(NthOf(q, 2), Cols) - 1]
       /\ c \notin {"m", "J", "H", "f"} => ideal_cur' = at
  BY <1>1, <1>3, <1>8, <1>13 DEF Final, Expected, Given, ZeroFor, NthOf
<1>19. CASE c = "m"
  <2>1. PICK new : new = Coloured(at.col, fin)  OBVIOUS
  <2>2. PICK to : to = [at EXCEPT !.col = new]  OBVIOUS
  <2>3. at = [x |-> at.x, y |-> at.y, col |-> at.col] /\ at.x \in 0 .. Cols - 1 /\ at.y \in 0 .. Rows - 1
    BY <1>14 DEF Showing
  <2>4. to = [x |-> at.x, y |-> at.y, col |-> new]
    BY <2>2, <2>3
  <2>5. r = [done EXCEPT !.cur = to]
    BY <1>14, <1>17, <1>19, <2>1, <2>2
  <2>6. Showing(r, ideal, to) /\ Keeps(r, done)
    BY <1>14, <2>3, <2>4, <2>5, CursorShown
  <2>7. ideal' = ideal /\ ideal_cur' = to
    BY <1>11, <1>18, <1>19, <2>1, <2>2
  <2> QED  BY <1>14, <1>16, <2>6, <2>7, AfterSequence DEF Keeps
<1>20. CASE c = "J" /\ fin[1] = 2
  <2>1. r = termfb_clear(done)
    BY <1>17, <1>20
  <2>2. /\ Showing(r, [y \in 1 .. Rows |-> BlankRow(at)], [at EXCEPT !.x = 0, !.y = 0])
        /\ Keeps(r, done)
    BY <1>14, <2>1, ClearShown
  <2>3. ideal' = [y \in 1 .. Rows |-> BlankRow(at)] /\ ideal_cur' = [at EXCEPT !.x = 0, !.y = 0]
    BY <1>11, <1>18, <1>20
  <2>4. PICK g, to : g = [y \in 1 .. Rows |-> BlankRow(at)] /\ to = [at EXCEPT !.x = 0, !.y = 0]
    OBVIOUS
  <2> QED  BY <1>14, <1>16, <2>2, <2>3, <2>4, AfterSequence DEF Keeps
<1>21. CASE c \in {"H", "f"}
  <2>1. PICK x, y : /\ y = Clamp(At(fin[1]), Rows - 1) /\ x = Clamp(At(col), Cols - 1)
    OBVIOUS
  <2>2. /\ y = Clamp(NthOf(q, 1), Rows) - 1 /\ y \in 0 .. Rows - 1
        /\ x = Clamp(NthOf(q, 2), Cols) - 1 /\ x \in 0 .. Cols - 1
    <3>1. PICK k : k = fin[1]  OBVIOUS
    <3>2. PICK i, j : i = NthOf(q, 1) /\ j = NthOf(q, 2)  OBVIOUS
    <3>3. k \in Nat /\ (i = IF k > 0 THEN k ELSE 1)  BY <1>11, <3>1, <3>2
    <3>4. col \in Nat /\ (j = IF col > 0 THEN col ELSE 1)  BY <1>11, <3>2
    <3>5. Clamp(At(k), Rows - 1) = Clamp(i, Rows) - 1 /\ Clamp(i, Rows) - 1 \in 0 .. Rows - 1
      BY <3>3, ClampedRight, Geometry
    <3>6. Clamp(At(col), Cols - 1) = Clamp(j, Cols) - 1 /\ Clamp(j, Cols) - 1 \in 0 .. Cols - 1
      BY <3>4, ClampedRight, Geometry
    <3> QED  BY <2>1, <3>1, <3>2, <3>5, <3>6
  <2>3. r = [done EXCEPT !.cur = [at EXCEPT !.y = y, !.x = x]]
    BY <1>14, <1>17, <1>21, <2>1 DEF termfb_set_cursor_1based, At
  <2>4. [at EXCEPT !.y = y, !.x = x] = [at EXCEPT !.x = x, !.y = y]
    BY <1>14 DEF Showing
  <2>5. PICK to : to = [at EXCEPT !.x = x, !.y = y]  OBVIOUS
  <2>6. Showing(r, ideal, to) /\ Keeps(r, done)
    <3>1. r = [done EXCEPT !.cur = [at EXCEPT !.x = x, !.y = y]]
      BY <2>3, <2>4
    <3>2. PICK g : g = ideal  OBVIOUS
    <3>3. Showing(done, g, at)  BY <1>14, <3>2
    <3>4. /\ Showing([done EXCEPT !.cur = [at EXCEPT !.x = x, !.y = y]], g, [at EXCEPT !.x = x, !.y = y])
          /\ Keeps([done EXCEPT !.cur = [at EXCEPT !.x = x, !.y = y]], done)
      BY <2>2, <3>3, CursorMoves
    <3> QED  BY <2>5, <3>1, <3>2, <3>4
  <2>7. ideal' = ideal /\ ideal_cur' = to
    BY <1>18, <1>21, <2>2, <2>4, <2>5
  <2> QED  BY <1>14, <1>16, <2>6, <2>7, AfterSequence DEF Keeps
<1>22. CASE c \notin {"m", "J", "H", "f"} \/ (c = "J" /\ fin[1] # 2)
  <2>1. r = done
    BY <1>17, <1>22
  <2>2. ideal' = ideal /\ ideal_cur' = at
    BY <1>11, <1>18, <1>22
  <2> QED  BY <1>14, <1>16, <2>1, <2>2, AfterSequence
<1> QED  BY <1>19, <1>20, <1>21, <1>22

-----------------------------------------------------------------------------
(* Term: the console.                                                      *)

TermInv == LogInv /\ ScreenInv

LEMMA InitTerm == TermInit => TermInv
<1> SUFFICES ASSUME TermInit PROVE TermInv  OBVIOUS
<1>1. LogInv
  <2>1. PICK C \in Nat \ {0} : C = LogCap  BY CapIsNat
  <2>2. log = [i \in 0 .. LogCap - 1 |-> " "] /\ head = 0 /\ len = 0 /\ said = <<>>
    BY DEF TermInit
  <2>3. log \in [0 .. LogCap - 1 -> Printable]
    BY <2>2 DEF Printable
  <2>4. said \in Seq(Printable) /\ Len(said) = 0
    <3>1. said = <<>>  BY <2>2
    <3> QED  BY <3>1, EmptySeq
  <2>5. head \in 0 .. LogCap - 1 /\ len = Clamp(Len(said), LogCap)
    <3>1. PICK h, l : h = head /\ l = len  OBVIOUS
    <3>2. h = 0 /\ l = 0  BY <2>2, <3>1
    <3>3. h \in 0 .. C - 1 /\ l = Clamp(0, C)  BY <2>1, <3>2 DEF Clamp
    <3> QED  BY <2>1, <2>4, <3>1, <3>3
  <2>6. \A k \in 1 .. len : FALSE
    <3>1. len = 0  BY <2>2
    <3> QED  BY <3>1
  <2> QED  BY <2>3, <2>4, <2>5, <2>6 DEF LogInv
<1>2. Showing(Terminal, ideal, ideal_cur)
  <2>1. PICK b : b = BlankRow(Cursor0)  OBVIOUS
  <2>2. /\ phys = [y \in 1 .. VRows |-> b] /\ off = 0 /\ moves \in BOOLEAN /\ cur = Cursor0
        /\ ideal = [y \in 1 .. Rows |-> b] /\ ideal_cur = Cursor0
    BY <2>1 DEF TermInit
  <2>3. PICK V \in Nat, R \in Nat \ {0} : V = VRows /\ R = Rows /\ V >= R
    BY Geometry
  <2>4. ideal = [y \in 1 .. Rows |-> phys[off + y]]
    <3>1. \A y \in 1 .. Rows : off + y \in 1 .. VRows
      BY <2>2, <2>3
    <3> QED  BY <2>2, <3>1
  <2>5. Cursor0 = [x |-> Cursor0.x, y |-> Cursor0.y, col |-> Cursor0.col]
        /\ Cursor0.x = 0 /\ Cursor0.y = 0
    BY DEF Cursor0
  <2>6. 0 \in 0 .. Cols - 1 /\ 0 \in 0 .. Rows - 1 /\ 0 \in 0 .. VRows - Rows
    BY <2>3, Geometry
  <2>7. phys = [y \in 1 .. VRows |-> phys[y]]
    BY <2>2
  <2>8. PICK t : t = Terminal  OBVIOUS
  <2>9. t = [phys |-> phys, off |-> off, moves |-> moves, cur |-> cur, tab |-> tab, ansi |-> ansi]
    BY <2>8 DEF Terminal
  <2>10. /\ t.phys = phys /\ t.off = 0 /\ t.moves = moves /\ t.cur = Cursor0
         /\ t.tab = tab /\ t.ansi = ansi
    BY <2>2, <2>9
  <2>11. t = [phys |-> t.phys, off |-> t.off, moves |-> t.moves, cur |-> t.cur,
              tab |-> t.tab, ansi |-> t.ansi]
    BY <2>9
  <2>12. ideal = [y \in 1 .. Rows |-> t.phys[t.off + y]] /\ t.phys = [y \in 1 .. VRows |-> t.phys[y]]
    BY <2>2, <2>4, <2>7, <2>10
  <2>13. t.off \in 0 .. VRows - Rows /\ t.moves \in BOOLEAN /\ (~t.moves => t.off = 0)
    BY <2>2, <2>6, <2>10
  <2> QED  BY <2>2, <2>5, <2>6, <2>8, <2>10, <2>11, <2>12, <2>13 DEF Showing
<1>3. ParserInv
  BY DEF TermInit, ParserInv
<1> QED  BY <1>1, <1>2, <1>3 DEF TermInv, ScreenInv

LEMMA LogKept ==
    ASSUME LogInv, UNCHANGED logVars
    PROVE  LogInv'
  BY DEF LogInv, logVars

LEMMA ScreenKept ==
    ASSUME ScreenInv, UNCHANGED screenVars
    PROVE  ScreenInv'
<1>1. /\ phys' = phys /\ off' = off /\ moves' = moves /\ cur' = cur /\ tab' = tab /\ ansi' = ansi
      /\ esc' = esc /\ ideal' = ideal /\ ideal_cur' = ideal_cur
  BY DEF screenVars
<1>2. Terminal' = Terminal /\ Params' = Params
  BY <1>1 DEF Terminal, Params
<1>3. InNumbers' <=> InNumbers
  BY <1>1, <1>2 DEF InNumbers
<1> QED  BY <1>1, <1>2, <1>3 DEF ScreenInv, ParserInv, Starts

LEMMA LogCleared ==
    ASSUME TermInv, klog_clear
    PROVE  TermInv'
<1>1. head' = 0 /\ len' = 0 /\ said' = <<>> /\ log' = log /\ UNCHANGED screenVars
  BY DEF klog_clear
<1>2. LogInv'
  <2>1. PICK C \in Nat \ {0} : C = LogCap  BY CapIsNat
  <2>2. log' \in [0 .. LogCap - 1 -> Printable]
    BY <1>1 DEF TermInv, LogInv
  <2>3. said' \in Seq(Printable) /\ Len(said') = 0
    BY <1>1
  <2>4. head' \in 0 .. LogCap - 1 /\ len' = Clamp(Len(said'), LogCap)
    BY <1>1, <2>1, <2>3 DEF Clamp
  <2>5. \A k \in 1 .. len' : FALSE
    BY <1>1
  <2> QED  BY <2>2, <2>3, <2>4, <2>5 DEF LogInv
<1> QED  BY <1>1, <1>2, ScreenKept DEF TermInv

LEMMA StepTerm == TermInv /\ [TermNext]_termVars => TermInv'
<1> SUFFICES ASSUME TermInv, [TermNext]_termVars PROVE TermInv'  OBVIOUS
<1>0. LogInv /\ ScreenInv
  BY DEF TermInv
<1>1. CASE UNCHANGED termVars
  <2>1. UNCHANGED logVars /\ UNCHANGED screenVars
    BY <1>1 DEF termVars
  <2> QED  BY <1>0, <2>1, LogKept, ScreenKept DEF TermInv
<1>2. ASSUME NEW c \in Letters \union Controls, Char(c)
      PROVE  TermInv'
  <2>1. c # "ESC"
    BY TermAssumption DEF TermAssumption, Controls
  <2>2. ScreenInv'
    BY <1>0, <1>2, <2>1, PlainKeeps DEF Char
  <2>3. UNCHANGED logVars
    BY <1>2 DEF Char
  <2> QED  BY <1>0, <2>2, <2>3, LogKept DEF TermInv
<1>3. ASSUME NEW c \in Letters \union {"\n"}, KernelChar(c)
      PROVE  TermInv'
  <2>1. c # "ESC"
    BY TermAssumption DEF TermAssumption
  <2>2. ScreenInv'
    BY <1>0, <1>3, <2>1, PlainKeeps DEF KernelChar
  <2>3. c \in Printable
    BY DEF Printable
  <2> QED  BY <1>0, <1>3, <2>2, <2>3, LogGrows DEF TermInv, KernelChar
<1>4. ASSUME NEW e \in Escapes, Escape(e)
      PROVE  TermInv'
  <2>1. ScreenInv'
    BY <1>0, <1>4, EscapeKeeps
  <2>2. UNCHANGED logVars
    BY <1>4 DEF Escape
  <2> QED  BY <1>0, <2>1, <2>2, LogKept DEF TermInv
<1>5. CASE klog_clear
  BY <1>5, LogCleared
<1>6. CASE TabSpace
  <2>1. UNCHANGED logVars
    BY <1>6 DEF TabSpace
  <2> QED  BY <1>0, <1>6, <2>1, LogKept, TabKeeps DEF TermInv
<1>7. CASE Bracket
  <2>1. UNCHANGED logVars
    BY <1>7 DEF Bracket, Passes
  <2> QED  BY <1>0, <1>7, <2>1, LogKept, BracketKeeps DEF TermInv
<1>8. CASE Number
  <2>1. UNCHANGED logVars
    BY <1>8 DEF Number, Passes
  <2> QED  BY <1>0, <1>8, <2>1, LogKept, NumberKeeps DEF TermInv
<1>9. CASE Separator
  <2>1. UNCHANGED logVars
    BY <1>9 DEF Separator, Passes
  <2> QED  BY <1>0, <1>9, <2>1, LogKept, SeparatorKeeps DEF TermInv
<1>10. CASE Final
  <2>1. UNCHANGED logVars
    BY <1>10 DEF Final, Passes
  <2> QED  BY <1>0, <1>10, <2>1, LogKept, FinalKeeps DEF TermInv
<1> QED
  BY <1>1, <1>2, <1>3, <1>4, <1>5, <1>6, <1>7, <1>8, <1>9, <1>10 DEF TermNext

\* The visible part of the framebuffer is the screen a reader expects.
LEMMA ScreenReads ==
    ASSUME ScreenInv
    PROVE  ScreenRight
<1>1. PICK t : t = Terminal  OBVIOUS
<1>2. t.phys = phys /\ t.off = off /\ t.cur = cur
  BY <1>1 DEF Terminal
<1>3. Showing(t, ideal, ideal_cur)
  BY <1>1 DEF ScreenInv
<1>4. PICK R \in Nat \ {0} : R = Rows  BY Geometry
<1>5. \A y \in 1 .. Rows : termfb_map_view_y_to_phys(t, y - 1) = off + y
  <2>1. ASSUME NEW y \in 1 .. Rows
        PROVE  termfb_map_view_y_to_phys(t, y - 1) = off + y
    <3>1. PICK z : z = y - 1  OBVIOUS
    <3>2. z \in 0 .. Rows - 1 /\ z + 1 = y  BY <1>4, <3>1
    <3>3. t.off \in 0 .. VRows - Rows  BY <1>3 DEF Showing
    <3>4. termfb_map_view_y_to_phys(t, z) = t.off + (z + 1)  BY <3>2, <3>3, ViewIsInside
    <3> QED  BY <1>2, <3>1, <3>2, <3>4
  <2> QED  BY <2>1
<1>6. ideal = [y \in 1 .. Rows |-> phys[off + y]] /\ cur = ideal_cur
  BY <1>2, <1>3 DEF Showing
<1>7. [y \in 1 .. Rows |-> phys[termfb_map_view_y_to_phys(t, y - 1)]]
        = [y \in 1 .. Rows |-> phys[off + y]]
  BY <1>5
<1> QED  BY <1>1, <1>6, <1>7 DEF ScreenRight

\* For every size of the screen, the framebuffer and the log, whether the
\* firmware moves the visible part or not, and every escape sequence that
\* colours, places or erases: where the visible part is, what the parser of
\* escape sequences has read, and what the ring holds (termfb.c, klog.c).
THEOREM TermInvariant == TermSpec => []TermInv
<1>1. TermInit => TermInv
  BY InitTerm
<1>2. TermInv /\ [TermNext]_termVars => TermInv'
  BY StepTerm
<1> QED
  BY <1>1, <1>2, PTL DEF TermSpec

\* The reader sees the screen that was written and reads the end of what the
\* kernel printed (termfb_scroll_one, termfb_ansi_handle_csi, klog_putc).
THEOREM ConsoleStaysRight == TermSpec => []ConsoleRight
<1>1. TermInv => ConsoleRight
  BY ScreenReads, LogReads DEF TermInv, ConsoleRight
<1> QED
  BY <1>1, TermInvariant, PTL
=============================================================================
