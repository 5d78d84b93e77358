----------------------------- MODULE Udp6Proofs -----------------------------
(***************************************************************************)
(* The UDP sockets for every number of processes, sockets, queued          *)
(* datagrams and ports: references, ports and queues stay consistent,      *)
(* datagrams are received once and in order, and - as long as no process   *)
(* shares a socket - a process whose receive is not over does not run.     *)
(***************************************************************************)
EXTENDS Udp6, FiniteSetTheorems, TLAPS

Dgram == [port : Ports, id : Nat \ {0}]
Sock == [used : BOOLEAN, refs : Nat, port : {0} \cup Ports, q : Seq(Dgram)]
Clocks == {"none", "ahead", "past"}

TypeOK ==
    /\ forking \in BOOLEAN
    /\ socks \in [Socks -> Sock]
    /\ eph \in Ports
    /\ fd \in [Procs -> Socks \cup {None}]
    /\ state \in [Procs -> {"unused", "runnable", "sleeping", "blocked"}]
    /\ pending \in [Procs -> Socks \cup {None}]
    /\ deadline \in [Procs -> Clocks]
    /\ got \in [Procs -> Nat]
    /\ cur \in Procs /\ last \in Procs
    /\ waiting \in BOOLEAN /\ local \in Clocks
    /\ sent \in Nat
    /\ waiting => pending[cur] # None

Holders(s) == {p \in Procs : fd[p] = s}

\* A slot that is not used is empty, and a process that does not exist yet
\* holds nothing: what closing and forking rely on to keep the counts.
FreeIsEmpty ==
    /\ \A s \in Socks : ~socks[s].used => socks[s] = Free
    /\ \A p \in Procs : state[p] = "unused" => fd[p] = None

\* The length of a queue, and the number of its i-th datagram.
QLen(sk, s) == Len(sk[s].q)
QId(sk, s, i) == sk[s].q[i].id

\* The numbers in the queues sk and in what each process has received, g,
\* when the network has sent n datagrams.
IdsSound(sk, g, n) ==
    /\ \A s \in Socks : \A i \in 1 .. QLen(sk, s) : QId(sk, s, i) <= n
    /\ \A s \in Socks : \A i, j \in 1 .. QLen(sk, s) :
          i < j => QId(sk, s, i) < QId(sk, s, j)
    /\ \A s, t \in Socks : \A i \in 1 .. QLen(sk, s), j \in 1 .. QLen(sk, t) :
          s # t => QId(sk, s, i) # QId(sk, t, j)
    /\ \A p \in Procs : g[p] <= n
    /\ \A p, q \in Procs : p # q /\ g[p] # 0 => g[p] # g[q]
    /\ \A p \in Procs, s \in Socks : \A i \in 1 .. QLen(sk, s) :
          /\ QId(sk, s, i) # g[p]
          /\ ~forking /\ s = fd[p] => g[p] < QId(sk, s, i)

\* A waiting process that is runnable has been woken for a reason.
WokenForReason(sk, st, dl) ==
    \A p \in Procs :
        pending[p] # None /\ st[p] = "runnable" =>
            dl[p] = "past" \/ sk[pending[p]].q # <<>>

\* Without fork a socket has one holder, and only the holder takes from it.
WaitSound ==
    ~forking =>
        /\ \A p, q \in Procs : fd[p] = fd[q] => p = q \/ fd[p] = None
        /\ WokenForReason(socks, state, deadline)

UdpInv ==
    /\ TypeOK /\ SocketsSound /\ FreeIsEmpty
    /\ IdsSound(socks, got, sent)
    /\ SoleHolderStaysBlocked /\ WaitSound

-----------------------------------------------------------------------------
(* Numbers: the least try, the port after some increments, the round robin. *)

LEMMA LeastExists ==
    ASSUME NEW S \in SUBSET Nat, S # {}
    PROVE  \E x \in S : \A y \in S : x <= y
<1> DEFINE R == OpToRel(<, Nat)
<1>1. IsWellFoundedOn(R, Nat)
  BY NatLessThanWellFounded, Zenon
<1>2. \A x, y \in Nat : x < y => <<x, y>> \in R
  BY DEF OpToRel
<1> HIDE DEF R
<1>3. PICK x \in S : \A y \in S : ~(<<y, x>> \in R)
  BY <1>1, WFMin
<1>4. \A y \in S : ~(y < x)
  BY <1>2, <1>3
<1> QED
  BY <1>4

LEMMA PortFacts ==
    /\ EphFirst \in Ports /\ 0 \notin Ports /\ None \notin Socks
    /\ \A port \in Ports : port \in Nat
BY Udp6Assumption DEF Ports, None, Socks

LEMMA PortAfterIsPort ==
    ASSUME eph \in Ports, NEW i \in Nat
    PROVE  PortAfter(i) \in Ports
<1> DEFINE w == EphLast - EphFirst + 1
           n == eph - EphFirst + i
<1>1. w \in Nat \ {0} /\ n \in Nat
  BY Udp6Assumption DEF Ports
<1> HIDE DEF w, n
<1>2. n % w \in 0 .. w - 1
  BY <1>1, Z3
<1> QED
  BY <1>2, Udp6Assumption DEF PortAfter, Ports, w, n

LEMMA AfterIsProc ==
    ASSUME last \in Procs, NEW i \in Nat
    PROVE  After(i) \in Procs
<1>1. last + i \in Nat /\ NProcs \in Nat \ {0}
  BY Udp6Assumption DEF Procs
<1>2. (last + i) % NProcs \in 0 .. NProcs - 1
  BY <1>1, Z3
<1> QED
  BY <1>2 DEF After, Procs

\* The scan for a runnable process finds one or nobody.
LEMMA PickedRunnable ==
    ASSUME last \in Procs, NEW st, Picked(st) # None
    PROVE  Picked(st) \in Procs /\ st[Picked(st)] = "runnable"
<1> DEFINE steps == {i \in 1 .. NProcs : st[After(i)] = "runnable"}
           k == CHOOSE i \in steps : \A j \in steps : i <= j
<1>1. steps # {} /\ Picked(st) = After(k)
  BY DEF Picked
<1>2. steps \in SUBSET Nat
  BY Udp6Assumption
<1> HIDE DEF steps
<1>3. k \in steps
  BY <1>1, <1>2, LeastExists
<1>4. k \in Nat /\ st[After(k)] = "runnable"
  BY <1>3, Udp6Assumption DEF steps
<1> HIDE DEF k
<1> QED
  BY <1>1, <1>4, AfterIsProc

-----------------------------------------------------------------------------
(* References and ports.                                                   *)

LEMMA HoldersFinite ==
    ASSUME NEW s
    PROVE  IsFiniteSet(Holders(s)) /\ Cardinality(Holders(s)) \in Nat
<1>1. IsFiniteSet(Procs)
  BY FS_Interval, Udp6Assumption DEF Procs
<1>2. Holders(s) \in SUBSET Procs
  BY DEF Holders
<1> QED
  BY <1>1, <1>2, FS_Subset, FS_CardinalityType

\* SocketsSound, with its set named.
LEMMA SocketsSoundHolders ==
    SocketsSound <=>
      /\ \A s \in Socks :
           /\ socks[s].refs = Cardinality(Holders(s))
           /\ socks[s].used <=> socks[s].refs > 0
           /\ Len(socks[s].q) <= QCap
      /\ \A s, t \in Socks :
           s # t /\ socks[s].port = socks[t].port => socks[s].port = 0
BY DEF SocketsSound, Holders

\* A descriptor names a socket in use.
LEMMA HeldIsUsed ==
    ASSUME TypeOK, SocketsSound, NEW p \in Procs, fd[p] # None
    PROVE  fd[p] \in Socks /\ socks[fd[p]].used
<1>1. fd[p] \in Socks /\ p \in Holders(fd[p])
  BY DEF TypeOK, Holders
<1>2. Cardinality(Holders(fd[p])) > 0
  BY <1>1, HoldersFinite, FS_EmptySet
<1> QED
  BY <1>1, <1>2, SocketsSoundHolders

\* Steps that change nothing in the sockets but their queues.
OnlyQueues(sk) ==
    /\ sk \in [Socks -> Sock]
    /\ \A s \in Socks :
          /\ sk[s].used = socks[s].used /\ sk[s].refs = socks[s].refs
          /\ sk[s].port = socks[s].port
          /\ Len(sk[s].q) <= QCap
          /\ ~socks[s].used => sk[s] = socks[s]

LEMMA QueueStep ==
    ASSUME TypeOK, SocketsSound, FreeIsEmpty,
           OnlyQueues(socks'), fd' = fd,
           \A p \in Procs : state'[p] = "unused" => state[p] = "unused"
    PROVE  SocketsSound' /\ FreeIsEmpty'
<1>1. \A s : Holders(s)' = Holders(s)
  BY DEF Holders
<1>2. SocketsSound'
  BY <1>1 DEF OnlyQueues, SocketsSound
<1>3. FreeIsEmpty'
  BY DEF OnlyQueues, FreeIsEmpty
<1> QED
  BY <1>2, <1>3

-----------------------------------------------------------------------------
(* Arrival.                                                                *)

\* A poll brings nothing or one datagram with the next number.
LEMMA PollsShape ==
    ASSUME TypeOK, NEW ds \in Polls
    PROVE  \/ ds = {} /\ Cardinality(ds) = 0
           \/ \E d \in Dgram : ds = {d} /\ d.id = sent + 1 /\ Cardinality(ds) = 1
<1>1. CASE ds = {}
  BY <1>1, FS_EmptySet
<1>2. CASE ds # {}
  <2>1. PICK port \in Ports : ds = {[port |-> port, id |-> sent + 1]}
    BY <1>2 DEF Polls
  <2> DEFINE d == [port |-> port, id |-> sent + 1]
  <2>2. d \in Dgram /\ d.id = sent + 1
    BY DEF Dgram, TypeOK
  <2>3. ds = {d} /\ Cardinality(ds) = 1
    BY <2>1, FS_Singleton
  <2> QED
    BY <2>2, <2>3
<1> QED
  BY <1>1, <1>2

\* What arrives is queued on at most one socket, at its end.
LEMMA DeliveredShape ==
    ASSUME TypeOK, SocketsSound, NEW d \in Dgram
    PROVE  /\ \A s \in Socks : Delivered({d})[s] =
                IF Takes(s, d) THEN [socks[s] EXCEPT !.q = Append(@, d)] ELSE socks[s]
           /\ \A s, t \in Socks : Takes(s, d) /\ Takes(t, d) => s = t
<1>1. \A s, t \in Socks : Takes(s, d) /\ Takes(t, d) => s = t
  BY PortFacts DEF Takes, SocketsSound, Dgram
<1>2. (CHOOSE e \in {d} : TRUE) = d
  OBVIOUS
<1>3. ASSUME NEW s \in Socks
      PROVE  Delivered({d})[s] =
                IF Takes(s, d) THEN [socks[s] EXCEPT !.q = Append(@, d)] ELSE socks[s]
  <2>1. socks[s].q \in Seq(Dgram)
    BY DEF TypeOK, Sock
  <2>2. socks[s].q \o <<d>> = Append(socks[s].q, d)
    BY <2>1
  <2> QED
    BY <1>2, <2>2 DEF Delivered
<1> QED
  BY <1>1, <1>3

LEMMA DeliveredSocks ==
    ASSUME TypeOK, SocketsSound, NEW ds \in Polls
    PROVE  /\ OnlyQueues(Delivered(ds))
           /\ \A s \in Socks : socks[s].q # <<>> => Delivered(ds)[s].q # <<>>
           /\ \A s \in Socks : (\E d \in ds : Takes(s, d)) => Delivered(ds)[s].q # <<>>
<1>1. CASE ds = {}
  <2>1. Delivered(ds) = socks
    BY <1>1 DEF Delivered, TypeOK
  <2> QED
    BY <1>1, <2>1 DEF OnlyQueues, TypeOK, SocketsSound
<1>2. ASSUME NEW d \in Dgram, ds = {d}
      PROVE  /\ OnlyQueues(Delivered(ds))
             /\ \A s \in Socks : socks[s].q # <<>> => Delivered(ds)[s].q # <<>>
             /\ \A s \in Socks : (\E e \in ds : Takes(s, e)) => Delivered(ds)[s].q # <<>>
  <2>1. DOMAIN Delivered({d}) = Socks /\ Delivered({d}) = [s \in Socks |-> Delivered({d})[s]]
    BY DEF Delivered
  <2>2. ASSUME NEW s \in Socks
        PROVE  LET n == Delivered({d})[s] IN
               /\ n \in Sock /\ n.used = socks[s].used /\ n.refs = socks[s].refs
               /\ n.port = socks[s].port /\ Len(n.q) <= QCap
               /\ ~socks[s].used => n = socks[s]
               /\ socks[s].q # <<>> => n.q # <<>>
               /\ Takes(s, d) => n.q # <<>>
    <3>1. socks[s] \in Sock /\ Len(socks[s].q) \in Nat /\ Len(socks[s].q) <= QCap
      <4>1. socks[s] \in Sock
        BY DEF TypeOK
      <4>2. socks[s].q \in Seq(Dgram)
        BY <4>1 DEF Sock
      <4>3. Len(socks[s].q) <= QCap
        BY DEF SocketsSound
      <4> QED
        BY <4>1, <4>2, <4>3
    <3>2. CASE ~Takes(s, d)
      BY <3>1, <3>2, DeliveredShape
    <3>3. CASE Takes(s, d)
      <4>1. /\ Delivered({d})[s] = [socks[s] EXCEPT !.q = Append(@, d)]
            /\ socks[s].used /\ Len(socks[s].q) < QCap
        BY <3>3, DeliveredShape DEF Takes
      <4>2. /\ Append(socks[s].q, d) \in Seq(Dgram)
            /\ Len(Append(socks[s].q, d)) = Len(socks[s].q) + 1
            /\ Append(socks[s].q, d) # <<>>
        BY <3>1 DEF Sock
      <4> DEFINE n == [socks[s] EXCEPT !.q = Append(@, d)]
      <4>3. /\ n \in Sock /\ n.used = socks[s].used /\ n.refs = socks[s].refs
            /\ n.port = socks[s].port /\ n.q = Append(socks[s].q, d)
        BY <3>1, <4>2 DEF Sock
      <4>4. Len(n.q) <= QCap
        BY <3>1, <4>1, <4>2, <4>3, Udp6Assumption
      <4> HIDE DEF n
      <4>5. Delivered({d})[s] = n
        BY <4>1 DEF n
      <4> QED
        BY <4>1, <4>2, <4>3, <4>4, <4>5
    <3> QED
      BY <3>2, <3>3
  <2>3. Delivered({d}) \in [Socks -> Sock]
    BY <2>1, <2>2
  <2> QED
    BY <1>2, <2>2, <2>3 DEF OnlyQueues
<1> QED
  BY <1>1, <1>2, PollsShape

\* Queues hold numbered datagrams.
LEMMA QueueFacts ==
    ASSUME NEW sk \in [Socks -> Sock], NEW s \in Socks
    PROVE  /\ QLen(sk, s) \in Nat
           /\ \A i \in 1 .. QLen(sk, s) : QId(sk, s, i) \in Nat \ {0}
<1>1. sk[s].q \in Seq(Dgram)
  BY DEF Sock
<1> DEFINE q == sk[s].q
<1>2. Len(q) \in Nat /\ \A i \in 1 .. Len(q) : q[i] \in Dgram
  <2> HIDE DEF q
  <2>1. q \in Seq(Dgram)
    BY <1>1 DEF q
  <2> QED
    BY <2>1
<1> QED
  BY <1>2 DEF QLen, QId, Dgram

\* The numbers after a poll: a new one is larger than all that were queued or
\* received.
LEMMA DeliveredIds ==
    ASSUME TypeOK, SocketsSound, IdsSound(socks, got, sent), NEW ds \in Polls
    PROVE  /\ IdsSound(Delivered(ds), got, sent + Cardinality(ds))
           /\ sent + Cardinality(ds) \in Nat
<1>0. sent \in Nat /\ got \in [Procs -> Nat] /\ socks \in [Socks -> Sock]
  BY DEF TypeOK
<1>1. CASE ds = {}
  <2>1. Delivered(ds) = socks
    BY <1>1 DEF Delivered, TypeOK
  <2>2. Cardinality(ds) = 0
    BY <1>1, FS_EmptySet
  <2>3. sent + Cardinality(ds) = sent
    BY <1>0, <2>2
  <2> QED
    BY <1>0, <2>1, <2>3
<1>2. ASSUME NEW d \in Dgram, ds = {d}, d.id = sent + 1, Cardinality(ds) = 1
      PROVE  /\ IdsSound(Delivered(ds), got, sent + Cardinality(ds))
             /\ sent + Cardinality(ds) \in Nat
  <2> DEFINE sk == Delivered(ds)
             L(s) == QLen(socks, s)
  <2>1. ASSUME NEW s \in Socks
        PROVE  /\ ~Takes(s, d) => QLen(sk, s) = L(s)
               /\ Takes(s, d) => QLen(sk, s) = L(s) + 1 /\ QId(sk, s, L(s) + 1) = sent + 1
               /\ \A i \in 1 .. L(s) : QId(sk, s, i) = QId(socks, s, i)
    <3> DEFINE q == socks[s].q
    <3>1. socks[s] \in Sock /\ q \in Seq(Dgram)
      BY <1>0 DEF Sock
    <3>2. sk[s].q = IF Takes(s, d) THEN Append(q, d) ELSE q
      BY <1>2, <3>1, DeliveredShape DEF Sock
    <3> HIDE DEF q, sk
    <3>3. /\ Len(Append(q, d)) = Len(q) + 1 /\ Append(q, d)[Len(q) + 1] = d
          /\ \A i \in 1 .. Len(q) : Append(q, d)[i] = q[i]
      BY <3>1
    <3> QED
      BY <1>2, <3>2, <3>3 DEF QLen, QId, q
  <2>2. \A s, t \in Socks : Takes(s, d) /\ Takes(t, d) => s = t
    BY DeliveredShape
  <2>3. \A s \in Socks : L(s) \in Nat /\ \A i \in 1 .. L(s) : QId(socks, s, i) \in Nat
    BY <1>0, QueueFacts
  <2> HIDE DEF sk
  <2>4. ASSUME NEW s \in Socks, NEW i \in 1 .. QLen(sk, s)
        PROVE  \/ i \in 1 .. L(s) /\ QId(sk, s, i) = QId(socks, s, i)
                  /\ QId(sk, s, i) \in Nat /\ QId(sk, s, i) <= sent
               \/ Takes(s, d) /\ i = L(s) + 1 /\ QId(sk, s, i) = sent + 1
    <3>1. CASE i \in 1 .. L(s)
      BY <2>1, <2>3, <3>1 DEF IdsSound
    <3>2. CASE i \notin 1 .. L(s)
      BY <2>1, <2>3, <3>2
    <3> QED
      BY <3>1, <3>2
  <2>7. ASSUME NEW s \in Socks, NEW i \in 1 .. QLen(sk, s), NEW j \in 1 .. QLen(sk, s), i < j
        PROVE  QId(sk, s, i) < QId(sk, s, j)
    BY <1>0, <2>3, <2>4, <2>7 DEF IdsSound
  <2>8. ASSUME NEW s \in Socks, NEW t \in Socks, s # t,
               NEW i \in 1 .. QLen(sk, s), NEW j \in 1 .. QLen(sk, t)
        PROVE  QId(sk, s, i) # QId(sk, t, j)
    <3>1. ~(Takes(s, d) /\ Takes(t, d))
      BY <2>2, <2>8
    <3> QED
      BY <1>0, <2>4, <2>8, <3>1 DEF IdsSound
  <2>9. ASSUME NEW p \in Procs, NEW s \in Socks, NEW i \in 1 .. QLen(sk, s)
        PROVE  /\ QId(sk, s, i) # got[p]
               /\ ~forking /\ s = fd[p] => got[p] < QId(sk, s, i)
    <3>1. got[p] \in Nat /\ got[p] <= sent
      BY <1>0 DEF IdsSound
    <3> QED
      BY <1>0, <2>4, <3>1 DEF IdsSound
  <2>10. \A s \in Socks : \A i \in 1 .. QLen(sk, s) : QId(sk, s, i) <= sent + 1
    BY <1>0, <2>4
  <2>11. \A p \in Procs : got[p] <= sent + 1
    BY <1>0 DEF IdsSound
  <2>12. \A p, q \in Procs : p # q /\ got[p] # 0 => got[p] # got[q]
    BY DEF IdsSound
  <2>13. IdsSound(sk, got, sent + 1)
    BY <2>7, <2>8, <2>9, <2>10, <2>11, <2>12 DEF IdsSound
  <2> QED
    BY <1>0, <1>2, <2>13 DEF sk
<1> QED
  BY <1>1, <1>2, PollsShape

-----------------------------------------------------------------------------
(* Receiving.                                                              *)

\* Taking the oldest datagram off a queue.
LEMMA TakenSocks ==
    ASSUME NEW sk \in [Socks -> Sock], NEW s \in Socks,
           OnlyQueues(sk), FreeIsEmpty
    PROVE  /\ OnlyQueues(TakeFrom(sk, s))
           /\ \A t \in Socks \ {s} : TakeFrom(sk, s)[t] = sk[t]
<1>1. CASE ~CanTake(sk, s)
  BY <1>1 DEF TakeFrom
<1>2. CASE CanTake(sk, s)
  <2>1. sk[s] \in Sock /\ sk[s].q \in Seq(Dgram) /\ sk[s].q # <<>> /\ sk[s].used
    BY <1>2 DEF CanTake, Sock
  <2>2. Tail(sk[s].q) \in Seq(Dgram) /\ Len(Tail(sk[s].q)) <= Len(sk[s].q)
    BY <2>1
  <2> DEFINE n == [sk[s] EXCEPT !.q = Tail(@)]
  <2>3. /\ n \in Sock /\ n.used = sk[s].used /\ n.refs = sk[s].refs
        /\ n.port = sk[s].port /\ n.q = Tail(sk[s].q)
    BY <2>1, <2>2 DEF Sock
  <2> HIDE DEF n
  <2>4. TakeFrom(sk, s) = [sk EXCEPT ![s] = n]
    BY <1>2 DEF TakeFrom, n
  <2>5. Len(n.q) <= QCap
    <3>1. Len(sk[s].q) <= QCap /\ Len(sk[s].q) \in Nat /\ Len(Tail(sk[s].q)) \in Nat
      BY <2>1, <2>2 DEF OnlyQueues
    <3> QED
      BY <2>2, <2>3, <3>1, Udp6Assumption
  <2> QED
    BY <2>1, <2>3, <2>4, <2>5 DEF OnlyQueues
<1> QED
  BY <1>1, <1>2

\* The number that leaves a queue is the oldest there, and nobody has it.
LEMMA TakenIds ==
    ASSUME NEW sk \in [Socks -> Sock], NEW n \in Nat, got \in [Procs -> Nat],
           IdsSound(sk, got, n), NEW p \in Procs, NEW s \in Socks,
           forking \/ s = fd[p]
    PROVE  /\ IdsSound(TakeFrom(sk, s), Received(p, sk, s), n)
           /\ Received(p, sk, s) \in [Procs -> Nat]
<1>1. CASE ~CanTake(sk, s)
  BY <1>1 DEF TakeFrom, Received
<1>2. CASE CanTake(sk, s)
  <2> DEFINE tk == TakeFrom(sk, s)
             h == QId(sk, s, 1)
             g == Received(p, sk, s)
             L == QLen(sk, s)
             q == sk[s].q
  <2>1. sk[s] \in Sock /\ q \in Seq(Dgram) /\ q # <<>>
    BY <1>2 DEF CanTake, Sock
  <2>2. tk[s].q = Tail(q) /\ \A t \in Socks \ {s} : tk[t] = sk[t]
    BY <1>2, <2>1 DEF TakeFrom, Sock
  <2>3. g = [got EXCEPT ![p] = Head(q).id]
    BY <1>2 DEF Received
  <2> HIDE DEF q
  <2>4. /\ Head(q) = q[1] /\ Len(q) \in Nat \ {0} /\ Len(Tail(q)) = Len(q) - 1
        /\ \A i \in 1 .. Len(q) - 1 : Tail(q)[i] = q[i + 1]
    BY <2>1
  <2>5. /\ L \in Nat \ {0} /\ QLen(tk, s) = L - 1
        /\ \A i \in 1 .. L - 1 : QId(tk, s, i) = QId(sk, s, i + 1)
        /\ g = [got EXCEPT ![p] = h]
    <3> HIDE DEF tk, g
    <3> QED
      BY <2>2, <2>3, <2>4 DEF QLen, QId, q
  <2>6. \A t \in Socks \ {s} : QLen(tk, t) = QLen(sk, t)
                               /\ \A i \in 1 .. QLen(sk, t) : QId(tk, t, i) = QId(sk, t, i)
    <3> HIDE DEF tk
    <3> QED
      BY <2>2 DEF QLen, QId
  <2> HIDE DEF tk, h, g, L
  <2>7. \A t \in Socks : /\ QLen(sk, t) \in Nat
                         /\ \A i \in 1 .. QLen(sk, t) : QId(sk, t, i) \in Nat \ {0}
    BY QueueFacts
  <2>8. h \in Nat \ {0} /\ 1 \in 1 .. QLen(sk, s)
    BY <2>5, <2>7 DEF h, L
  \* Where a datagram that is left was before.
  <2> DEFINE Was(t, i) == IF t = s THEN i + 1 ELSE i
  <2>9. ASSUME NEW t \in Socks, NEW i \in 1 .. QLen(tk, t)
        PROVE  Was(t, i) \in 1 .. QLen(sk, t) /\ QId(tk, t, i) = QId(sk, t, Was(t, i))
    <3>1. CASE t = s
      BY <2>5, <3>1 DEF L
    <3>2. CASE t # s
      BY <2>6, <3>2
    <3> QED
      BY <3>1, <3>2
  <2>10. \A t \in Socks : \A i, j \in 1 .. QLen(tk, t) : i < j => Was(t, i) < Was(t, j)
    BY <2>5, <2>6, <2>7
  <2>11. ASSUME NEW t \in Socks, NEW i \in 1 .. QLen(tk, t)
         PROVE  QId(sk, t, Was(t, i)) # h /\ (t = s => h < QId(sk, t, Was(t, i)))
    <3>1. Was(t, i) \in 1 .. QLen(sk, t)
      BY <2>9
    <3>2. CASE t = s
      <4>1. 1 < Was(t, i)
        BY <3>2, <2>5
      <4>2. h < QId(sk, s, Was(t, i)) /\ QId(sk, s, Was(t, i)) \in Nat
        BY <2>7, <2>8, <3>1, <3>2, <4>1 DEF IdsSound, h
      <4> QED
        BY <2>8, <3>2, <4>2
    <3>3. CASE t # s
      BY <2>8, <3>1, <3>3 DEF IdsSound, h
    <3> QED
      BY <3>2, <3>3
  <2>12. \A r \in Procs : g[r] = IF r = p THEN h ELSE got[r]
    BY <2>5
  <2> HIDE DEF Was
  <2>13. \A t \in Socks : \A i \in 1 .. QLen(tk, t) : QId(tk, t, i) <= n
    BY <2>9 DEF IdsSound
  <2>14. ASSUME NEW t \in Socks, NEW i \in 1 .. QLen(tk, t), NEW j \in 1 .. QLen(tk, t), i < j
         PROVE  QId(tk, t, i) < QId(tk, t, j)
    BY <2>9, <2>10, <2>14 DEF IdsSound
  <2>15. ASSUME NEW t \in Socks, NEW u \in Socks, t # u,
                NEW i \in 1 .. QLen(tk, t), NEW j \in 1 .. QLen(tk, u)
         PROVE  QId(tk, t, i) # QId(tk, u, j)
    BY <2>9, <2>15 DEF IdsSound
  <2>16. \A r \in Procs : g[r] <= n
    BY <2>8, <2>12 DEF IdsSound, h
  <2>17. ASSUME NEW r \in Procs, NEW u \in Procs, r # u, g[r] # 0
         PROVE  g[r] # g[u]
    BY <2>8, <2>12, <2>17 DEF IdsSound, h
  <2>18. ASSUME NEW r \in Procs, NEW t \in Socks, NEW i \in 1 .. QLen(tk, t)
         PROVE  /\ QId(tk, t, i) # g[r]
                /\ ~forking /\ t = fd[r] => g[r] < QId(tk, t, i)
    <3>1. CASE r = p
      BY <2>9, <2>11, <2>12, <3>1
    <3>2. CASE r # p
      BY <2>9, <2>12, <3>2 DEF IdsSound
    <3> QED
      BY <3>1, <3>2
  <2>19. IdsSound(tk, g, n)
    BY <2>13, <2>14, <2>15, <2>16, <2>17, <2>18 DEF IdsSound
  <2>20. g \in [Procs -> Nat]
    BY <2>5, <2>8
  <2> QED
    BY <2>19, <2>20 DEF tk, g
<1> QED
  BY <1>1, <1>2

-----------------------------------------------------------------------------
(* Steps that leave the processes alone, and steps on descriptors.         *)

\* Queues that are emptied or unchanged keep the numbers in order.
LEMMA IdsFrame ==
    ASSUME IdsSound(socks, got, sent), got' = got, sent' = sent, forking' = forking,
           \A s \in Socks : QLen(socks', s) = 0 \/ socks'[s].q = socks[s].q,
           \A p \in Procs, s \in Socks :
               ~forking /\ fd'[p] = s => fd[p] = s \/ QLen(socks', s) = 0
    PROVE  IdsSound(socks, got, sent)'
<1>1. \A s \in Socks :
         1 .. QLen(socks', s) = {} \/
         /\ QLen(socks', s) = QLen(socks, s)
         /\ \A i : QId(socks', s, i) = QId(socks, s, i)
  <2> SUFFICES ASSUME NEW s \in Socks, QLen(socks', s) # 0
               PROVE  /\ QLen(socks', s) = QLen(socks, s)
                      /\ \A i : QId(socks', s, i) = QId(socks, s, i)
    OBVIOUS
  <2> QED
    BY DEF QLen, QId
<1>2. IdsSound(socks', got', sent')
  <2>1. \A p \in Procs, s \in Socks :
            ~forking /\ s = fd'[p] => s = fd[p] \/ 1 .. QLen(socks', s) = {}
    OBVIOUS
  <2>2. \A s \in Socks : \A i \in 1 .. QLen(socks', s) :
            /\ i \in 1 .. QLen(socks, s) /\ QId(socks', s, i) = QId(socks, s, i)
    BY <1>1
  <2> HIDE <1>1
  <2> QED
    BY <2>1, <2>2 DEF IdsSound
<1> QED
  BY <1>2 DEF IdsSound, QLen, QId

\* A socket in use gets a port that no other one has.
LEMMA PortStep ==
    ASSUME UdpInv, NEW s \in Socks, socks[s].used, NEW port \in Ports,
           ~PortInUse(port, s), socks' = [socks EXCEPT ![s].port = port],
           eph' \in Ports,
           UNCHANGED <<forking, procVars, cur, last, waiting, local, sent>>
    PROVE  UdpInv'
<1> USE DEF procVars
<1>1. socks[s] \in Sock /\ socks \in [Socks -> Sock]
  BY DEF UdpInv, TypeOK
<1> DEFINE n == [socks[s] EXCEPT !.port = port]
<1>2. /\ n \in Sock /\ n.used = socks[s].used /\ n.refs = socks[s].refs
      /\ n.port = port /\ n.q = socks[s].q
  BY <1>1 DEF Sock
<1>3. socks' = [socks EXCEPT ![s] = n]
  BY <1>1
<1> HIDE DEF n
<1>4. /\ socks' \in [Socks -> Sock]
      /\ \A t \in Socks : /\ socks'[t].used = socks[t].used
                          /\ socks'[t].refs = socks[t].refs
                          /\ socks'[t].q = socks[t].q
                          /\ socks'[t].port = IF t = s THEN port ELSE socks[t].port
                          /\ ~socks[t].used => socks'[t] = socks[t]
  BY <1>1, <1>2, <1>3
<1>5. TypeOK'
  BY <1>4 DEF UdpInv, TypeOK
<1>6. SocketsSound'
  <2>1. \A t \in Socks \ {s} : socks[t].port # port
    <3>1. \A t \in Socks : ~socks[t].used => socks[t].port = 0
      BY DEF UdpInv, FreeIsEmpty, Free
    <3> QED
      BY <3>1, PortFacts DEF PortInUse
  <2>2. \A t, u \in Socks :
           t # u /\ socks'[t].port = socks'[u].port => socks'[t].port = 0
    BY <1>4, <2>1 DEF UdpInv, SocketsSound
  <2>3. \A t \in Socks : Holders(t)' = Holders(t)
    BY DEF Holders
  <2>4. \A t \in Socks :
           /\ socks'[t].refs = Cardinality(Holders(t)')
           /\ socks'[t].used <=> socks'[t].refs > 0
           /\ Len(socks'[t].q) <= QCap
    BY <1>4, <2>3, SocketsSoundHolders DEF UdpInv
  <2> QED
    BY <2>2, <2>4 DEF SocketsSound, Holders
<1>7. FreeIsEmpty'
  BY <1>4 DEF UdpInv, FreeIsEmpty
<1>8. IdsSound(socks, got, sent)'
  BY <1>4, IdsFrame DEF UdpInv
<1>9. SoleHolderStaysBlocked' /\ WaitSound'
  <2>1. \A p \in Procs : pending[p] # None => pending[p] \in Socks
    BY DEF UdpInv, TypeOK
  <2> QED
    BY <1>4, <2>1 DEF UdpInv, SoleHolderStaysBlocked, StaysBlocked, WaitSound, WokenForReason
<1> QED
  BY <1>5, <1>6, <1>7, <1>8, <1>9 DEF UdpInv

\* A stutter of everything but the ephemeral counter.
LEMMA CounterStep ==
    ASSUME UdpInv, socks' = socks, eph' \in Ports,
           UNCHANGED <<forking, procVars, cur, last, waiting, local, sent>>
    PROVE  UdpInv'
<1> USE DEF procVars
<1>1. TypeOK'
  BY DEF UdpInv, TypeOK
<1>2. SocketsSound' /\ FreeIsEmpty'
  BY DEF UdpInv, SocketsSound, FreeIsEmpty
<1>3. IdsSound(socks, got, sent)'
  BY IdsFrame DEF UdpInv
<1>4. SoleHolderStaysBlocked' /\ WaitSound'
  BY DEF UdpInv, SoleHolderStaysBlocked, StaysBlocked, WaitSound, WokenForReason
<1> QED
  BY <1>1, <1>2, <1>3, <1>4 DEF UdpInv

\* udp6_bind_ephemeral takes the first free port it tries, or none.
LEMMA EphemeralStep ==
    ASSUME UdpInv, NEW s \in Socks, socks[s].used, bind_ephemeral(s),
           UNCHANGED <<forking, procVars, cur, last, waiting, local, sent>>
    PROVE  UdpInv'
<1>0. eph \in Ports /\ EphTries \in Nat
  BY Udp6Assumption DEF UdpInv, TypeOK
<1>1. CASE FreeTries(s) = {}
  <2>1. socks' = socks /\ eph' = PortAfter(EphTries)
    BY <1>1 DEF bind_ephemeral
  <2>2. eph' \in Ports
    BY <1>0, <2>1, PortAfterIsPort
  <2> QED
    BY <2>1, <2>2, CounterStep
<1>2. CASE FreeTries(s) # {}
  <2> DEFINE i == CHOOSE t \in FreeTries(s) : \A u \in FreeTries(s) : t <= u
  <2>1. FreeTries(s) \in SUBSET Nat
    BY <1>0 DEF FreeTries
  <2>2. i \in FreeTries(s)
    BY <1>2, <2>1, LeastExists
  <2>3. /\ socks' = [socks EXCEPT ![s].port = PortAfter(i)]
        /\ eph' = PortAfter(i + 1)
    BY <1>2 DEF bind_ephemeral
  <2> HIDE DEF i
  <2>4. i \in Nat /\ i + 1 \in Nat /\ ~PortInUse(PortAfter(i), s)
    BY <1>0, <2>2 DEF FreeTries
  <2>5. PortAfter(i) \in Ports /\ eph' \in Ports
    BY <1>0, <2>3, <2>4, PortAfterIsPort
  <2> QED
    BY <2>3, <2>4, <2>5, PortStep
<1> QED
  BY <1>1, <1>2

LEMMA BindStep ==
    ASSUME UdpInv, NEW port \in {0, EphFirst}, sys_mona_udp6_bind(port)
    PROVE  UdpInv'
<1> DEFINE s == fd[cur]
<1>1. s \in Socks /\ socks[s].used
  BY DEF sys_mona_udp6_bind, UdpInv, TypeOK
<1>2. UNCHANGED <<forking, procVars, cur, last, waiting, local, sent>>
  BY DEF sys_mona_udp6_bind
<1>3. CASE port = 0
  <2>1. bind_ephemeral(s)
    BY <1>3 DEF sys_mona_udp6_bind
  <2> HIDE DEF s
  <2> QED
    BY <1>1, <1>2, <2>1, EphemeralStep
<1>4. CASE port # 0
  <2>1. /\ ~PortInUse(port, s) /\ socks' = [socks EXCEPT ![s].port = port]
        /\ eph' = eph
    BY <1>4 DEF sys_mona_udp6_bind
  <2>2. port \in Ports /\ eph' \in Ports
    BY <1>4, <2>1, PortFacts DEF UdpInv, TypeOK
  <2> HIDE DEF s
  <2> QED
    BY <1>1, <1>2, <2>1, <2>2, PortStep
<1> QED
  BY <1>3, <1>4

LEMMA SendtoStep ==
    ASSUME UdpInv, sys_mona_udp6_sendto
    PROVE  UdpInv'
<1> DEFINE s == fd[cur]
<1>1. s \in Socks /\ socks[s].used
  BY DEF sys_mona_udp6_sendto, UdpInv, TypeOK
<1>2. /\ UNCHANGED <<forking, procVars, cur, last, waiting, local, sent>>
      /\ bind_ephemeral(s)
  BY DEF sys_mona_udp6_sendto
<1> HIDE DEF s
<1> QED
  BY <1>1, <1>2, EphemeralStep

\* Who runs in user mode has no receive that is not over, unless a socket may
\* be shared.
LEMMA UserModeIsDone ==
    ASSUME UdpInv, InUserMode, ~forking
    PROVE  pending[cur] = None
BY DEF UdpInv, InUserMode, SoleHolderStaysBlocked, StaysBlocked

LEMMA SocketStep ==
    ASSUME UdpInv, sys_mona_udp6_socket
    PROVE  UdpInv'
<1> DEFINE n == [Free EXCEPT !.used = TRUE, !.refs = 1]
<1>1. PICK s \in Socks : /\ ~socks[s].used
                         /\ socks' = [socks EXCEPT ![s] = n]
                         /\ fd' = [fd EXCEPT ![cur] = s]
  BY DEF sys_mona_udp6_socket
<1>2. /\ InUserMode /\ fd[cur] = None
      /\ UNCHANGED <<forking, eph, state, pending, deadline, got, cur, last,
                     waiting, local, sent>>
  BY DEF sys_mona_udp6_socket
<1>3. /\ n \in Sock /\ n.used /\ n.refs = 1 /\ n.port = 0 /\ n.q = <<>>
      /\ Len(n.q) = 0
  <2>1. Free \in Sock /\ Free.port = 0 /\ Free.q = <<>> /\ Len(Free.q) = 0
    <3>1. <<>> \in Seq(Dgram) /\ Len(<<>>) = 0
      OBVIOUS
    <3> QED
      BY <3>1 DEF Free, Sock
  <2> HIDE DEF Free
  <2>2. /\ n \in Sock /\ n.used = TRUE /\ n.refs = 1
        /\ n.port = Free.port /\ n.q = Free.q
    BY <2>1 DEF Sock
  <2> QED
    BY <2>1, <2>2
<1> HIDE DEF n
<1>4. /\ cur \in Procs /\ socks \in [Socks -> Sock]
      /\ fd \in [Procs -> Socks \cup {None}] /\ None \notin Socks
  BY PortFacts DEF UdpInv, TypeOK
<1>5. /\ socks' \in [Socks -> Sock] /\ socks'[s] = n
      /\ \A t \in Socks \ {s} : socks'[t] = socks[t]
  BY <1>1, <1>3, <1>4
<1>6. /\ fd' \in [Procs -> Socks \cup {None}] /\ fd'[cur] = s
      /\ \A p \in Procs \ {cur} : fd'[p] = fd[p]
  BY <1>1, <1>4
<1>7. \A p \in Procs : fd[p] # s
  BY <1>1, HeldIsUsed, PortFacts DEF UdpInv
<1>8. TypeOK'
  BY <1>2, <1>5, <1>6 DEF UdpInv, TypeOK
<1>9. SocketsSound'
  <2>1. Holders(s)' = {cur} /\ \A t \in Socks \ {s} : Holders(t)' = Holders(t)
    BY <1>2, <1>4, <1>6, <1>7 DEF Holders
  <2>2. Cardinality({cur}) = 1
    BY FS_Singleton
  <2>3. ASSUME NEW t \in Socks
        PROVE  /\ socks'[t].refs = Cardinality(Holders(t)')
               /\ socks'[t].used <=> socks'[t].refs > 0
               /\ Len(socks'[t].q) <= QCap
    <3>1. CASE t = s
      BY <1>3, <1>5, <2>1, <2>2, <3>1, Udp6Assumption
    <3>2. CASE t # s
      BY <1>5, <2>1, <3>2, SocketsSoundHolders DEF UdpInv
    <3> QED
      BY <3>1, <3>2
  <2>4. \A t, u \in Socks :
           t # u /\ socks'[t].port = socks'[u].port => socks'[t].port = 0
    BY <1>3, <1>5 DEF UdpInv, SocketsSound
  <2> QED
    BY <2>3, <2>4 DEF SocketsSound, Holders
<1>10. FreeIsEmpty'
  BY <1>2, <1>3, <1>4, <1>5, <1>6 DEF UdpInv, FreeIsEmpty, InUserMode
<1>11. IdsSound(socks, got, sent)'
  <2>1. QLen(socks', s) = 0
    BY <1>3, <1>5 DEF QLen
  <2> QED
    BY <1>2, <1>5, <1>6, <2>1, IdsFrame DEF UdpInv
<1>12. SoleHolderStaysBlocked' /\ WaitSound'
  <2> SUFFICES ASSUME ~forking
               PROVE  SoleHolderStaysBlocked' /\ WaitSound'
    BY <1>2 DEF SoleHolderStaysBlocked, WaitSound
  <2>1. pending[cur] = None
    BY <1>2, UserModeIsDone
  <2>2. \A p \in Procs : pending[p] # None =>
            pending[p] \in Socks /\ pending[p] # s /\ p # cur
    BY <1>4, <1>7, <2>1 DEF UdpInv, TypeOK, SoleHolderStaysBlocked
  <2>3. SoleHolderStaysBlocked'
    BY <1>2, <1>6, <2>1, <2>2 DEF UdpInv, SoleHolderStaysBlocked, StaysBlocked
  <2>4. WaitSound'
    BY <1>2, <1>4, <1>5, <1>6, <1>7, <2>2 DEF UdpInv, WaitSound, WokenForReason
  <2> QED
    BY <2>3, <2>4
<1> QED
  BY <1>8, <1>9, <1>10, <1>11, <1>12 DEF UdpInv

LEMMA CloseStep ==
    ASSUME UdpInv, close
    PROVE  UdpInv'
<1>0. PICK s \in Socks \cup {None} : s = fd[cur]
  BY DEF UdpInv, TypeOK
<1>1. /\ InUserMode /\ s # None /\ socks' = Decref(s)
      /\ fd' = [fd EXCEPT ![cur] = None]
      /\ UNCHANGED <<forking, eph, state, pending, deadline, got, cur, last,
                     waiting, local, sent>>
  BY <1>0 DEF close
<1>2. /\ cur \in Procs /\ socks \in [Socks -> Sock]
      /\ fd \in [Procs -> Socks \cup {None}] /\ None \notin Socks
  BY PortFacts DEF UdpInv, TypeOK
<1>3. s \in Socks /\ socks[s].used /\ socks[s] \in Sock
  BY <1>0, <1>1, <1>2, HeldIsUsed DEF UdpInv
<1>4. /\ fd' \in [Procs -> Socks \cup {None}] /\ fd'[cur] = None
      /\ \A p \in Procs \ {cur} : fd'[p] = fd[p]
  BY <1>1, <1>2
<1>5. cur \in Holders(s) /\ IsFiniteSet(Holders(s)) /\ socks[s].refs = Cardinality(Holders(s))
  BY <1>0, <1>2, <1>3, HoldersFinite, SocketsSoundHolders DEF UdpInv, Holders
<1>6. /\ Holders(s)' = Holders(s) \ {cur}
      /\ \A t \in Socks \ {s} : Holders(t)' = Holders(t)
  <2>1. Holders(s)' = Holders(s) \ {cur}
    BY <1>2, <1>3, <1>4 DEF Holders
  <2>2. ASSUME NEW t \in Socks \ {s} PROVE Holders(t)' = Holders(t)
    <3>1. \A p \in Procs : fd'[p] = t <=> fd[p] = t
      BY <1>0, <1>2, <1>4
    <3> QED
      BY <3>1 DEF Holders
  <2> QED
    BY <2>1, <2>2
<1>7. Cardinality(Holders(s)') = socks[s].refs - 1
  BY <1>5, <1>6, FS_RemoveElement
<1>8. socks[s].refs \in Nat \ {0}
  <2>1. socks[s].refs \in Nat
    BY <1>3 DEF Sock
  <2>2. socks[s].refs > 0
    BY <1>3, SocketsSoundHolders DEF UdpInv
  <2> QED
    BY <2>1, <2>2
<1> DEFINE n == IF socks[s].refs <= 1 THEN Free ELSE [socks[s] EXCEPT !.refs = @ - 1]
<1>9. socks' = [socks EXCEPT ![s] = n]
  BY <1>1, <1>2, <1>3 DEF Decref
<1>10. /\ n \in Sock /\ n.refs = socks[s].refs - 1 /\ (n.used <=> n.refs > 0)
       /\ (n.port = socks[s].port \/ n.port = 0)
       /\ (n.q = socks[s].q \/ n.q = <<>>)
       /\ (~n.used => n = Free)
  <2>1. CASE socks[s].refs <= 1
    <3>1. Free \in Sock /\ Free.port = 0 /\ Free.q = <<>> /\ ~Free.used /\ Free.refs = 0
      <4>1. <<>> \in Seq(Dgram)
        OBVIOUS
      <4> QED
        BY <4>1 DEF Free, Sock
    <3>2. n = Free /\ socks[s].refs = 1
      BY <1>8, <2>1
    <3> HIDE DEF n, Free
    <3> QED
      BY <3>1, <3>2
  <2>2. CASE ~(socks[s].refs <= 1)
    <3> DEFINE m == [socks[s] EXCEPT !.refs = @ - 1]
    <3>1. socks[s].refs - 1 \in Nat /\ socks[s].refs - 1 > 0
      BY <1>8, <2>2
    <3>2. /\ m \in Sock /\ m.used = socks[s].used /\ m.refs = socks[s].refs - 1
          /\ m.port = socks[s].port /\ m.q = socks[s].q
      BY <1>3, <3>1 DEF Sock
    <3>3. n = m
      BY <2>2
    <3> HIDE DEF n, m
    <3> QED
      BY <1>3, <3>1, <3>2, <3>3
  <2> QED
    BY <2>1, <2>2
<1> HIDE DEF n
<1>11. /\ socks' \in [Socks -> Sock] /\ socks'[s] = n
       /\ \A t \in Socks \ {s} : socks'[t] = socks[t]
  BY <1>2, <1>3, <1>9, <1>10
<1>12. TypeOK'
  BY <1>1, <1>4, <1>11 DEF UdpInv, TypeOK
<1>13. SocketsSound'
  <2>1. Len(n.q) <= QCap
    <3>1. Len(socks[s].q) <= QCap /\ Len(<<>>) = 0
      BY <1>3 DEF UdpInv, SocketsSound
    <3> QED
      BY <1>10, <3>1, Udp6Assumption
  <2>2. ASSUME NEW t \in Socks
        PROVE  /\ socks'[t].refs = Cardinality(Holders(t)')
               /\ socks'[t].used <=> socks'[t].refs > 0
               /\ Len(socks'[t].q) <= QCap
    <3>1. CASE t = s
      <4>1. socks'[t] = n
        BY <1>11, <3>1
      <4>2. Cardinality(Holders(t)') = n.refs
        BY <1>7, <1>10, <3>1
      <4> QED
        BY <1>10, <2>1, <4>1, <4>2
    <3>2. CASE t # s
      BY <1>6, <1>11, <3>2, SocketsSoundHolders DEF UdpInv
    <3> QED
      BY <3>1, <3>2
  <2>3. \A t, u \in Socks :
           t # u /\ socks'[t].port = socks'[u].port => socks'[t].port = 0
    BY <1>3, <1>10, <1>11 DEF UdpInv, SocketsSound
  <2> QED
    BY <2>2, <2>3 DEF SocketsSound, Holders
<1>14. FreeIsEmpty'
  BY <1>1, <1>4, <1>10, <1>11 DEF UdpInv, FreeIsEmpty
<1>15. IdsSound(socks, got, sent)'
  <2>1. QLen(socks', s) = 0 \/ socks'[s].q = socks[s].q
    BY <1>10, <1>11 DEF QLen
  <2>2. \A p \in Procs, t \in Socks : fd'[p] = t => fd[p] = t
    BY <1>2, <1>4
  <2> QED
    BY <1>1, <1>11, <2>1, <2>2, IdsFrame DEF UdpInv
<1>16. SoleHolderStaysBlocked' /\ WaitSound'
  <2> SUFFICES ASSUME ~forking
               PROVE  SoleHolderStaysBlocked' /\ WaitSound'
    BY <1>1 DEF SoleHolderStaysBlocked, WaitSound
  <2>1. pending[cur] = None
    BY <1>1, UserModeIsDone
  <2>2. \A p \in Procs : pending[p] # None =>
            pending[p] \in Socks /\ pending[p] # s /\ p # cur
    <3>1. \A p, q \in Procs : fd[p] = fd[q] => p = q \/ fd[p] = None
      BY DEF UdpInv, WaitSound
    <3> QED
      BY <1>0, <1>1, <1>2, <2>1, <3>1 DEF UdpInv, TypeOK, SoleHolderStaysBlocked
  <2>3. SoleHolderStaysBlocked'
    BY <1>1, <1>4, <2>1, <2>2 DEF UdpInv, SoleHolderStaysBlocked, StaysBlocked
  <2>4. \A p, q \in Procs : fd'[p] = fd'[q] => p = q \/ fd'[p] = None
    BY <1>2, <1>4 DEF UdpInv, WaitSound
  <2>5. WokenForReason(socks, state, deadline)'
    BY <1>1, <1>11, <2>2 DEF UdpInv, WaitSound, WokenForReason
  <2> QED
    BY <2>3, <2>4, <2>5 DEF WaitSound, WokenForReason
<1> QED
  BY <1>12, <1>13, <1>14, <1>15, <1>16 DEF UdpInv

\* The child is one more holder of the parent's socket.
LEMMA ForkStep ==
    ASSUME UdpInv, NEW child \in Procs, fork(child)
    PROVE  UdpInv'
<1>0. PICK s \in Socks \cup {None} : s = fd[cur]
  BY DEF UdpInv, TypeOK
<1>1. /\ forking /\ InUserMode /\ state[child] = "unused"
      /\ state' = [state EXCEPT ![child] = "runnable"]
      /\ fd' = [fd EXCEPT ![child] = s]
      /\ socks' = Incref(s)
      /\ UNCHANGED <<forking, eph, pending, deadline, got, cur, last,
                     waiting, local, sent>>
  BY <1>0 DEF fork
<1>2. /\ cur \in Procs /\ socks \in [Socks -> Sock]
      /\ fd \in [Procs -> Socks \cup {None}] /\ None \notin Socks
      /\ state \in [Procs -> {"unused", "runnable", "sleeping", "blocked"}]
  BY PortFacts DEF UdpInv, TypeOK
<1>3. fd[child] = None /\ child # cur
  BY <1>1 DEF UdpInv, FreeIsEmpty, InUserMode
<1>5. /\ fd' \in [Procs -> Socks \cup {None}] /\ fd'[child] = s
      /\ \A p \in Procs \ {child} : fd'[p] = fd[p]
  BY <1>1, <1>2
<1>6. /\ state' \in [Procs -> {"unused", "runnable", "sleeping", "blocked"}]
      /\ \A p \in Procs : state'[p] = "unused" => state[p] = "unused" /\ p # child
  BY <1>1, <1>2
<1>7. SoleHolderStaysBlocked' /\ WaitSound'
  BY <1>1 DEF SoleHolderStaysBlocked, WaitSound
<1>8. FreeIsEmpty' /\ SocketsSound' /\ TypeOK' /\ IdsSound(socks, got, sent)'
  <2>1. CASE s = None
    <3>1. socks' = socks /\ fd' = fd
      BY <1>1, <1>2, <1>3, <1>5, <2>1 DEF Incref
    <3>2. FreeIsEmpty'
      BY <1>6, <3>1 DEF UdpInv, FreeIsEmpty
    <3>3. SocketsSound'
      BY <3>1 DEF UdpInv, SocketsSound
    <3>4. TypeOK'
      BY <1>1, <1>6, <3>1 DEF UdpInv, TypeOK
    <3>5. IdsSound(socks, got, sent)'
      BY <1>1, <3>1, IdsFrame DEF UdpInv
    <3> QED
      BY <3>2, <3>3, <3>4, <3>5
  <2>2. CASE s # None
    <3>1. s \in Socks /\ socks[s].used /\ socks[s] \in Sock
      BY <1>0, <1>2, <2>2, HeldIsUsed DEF UdpInv
    <3>2. IsFiniteSet(Holders(s)) /\ socks[s].refs = Cardinality(Holders(s))
      BY <3>1, HoldersFinite, SocketsSoundHolders DEF UdpInv
    <3>3. /\ Holders(s)' = Holders(s) \cup {child} /\ child \notin Holders(s)
          /\ \A t \in Socks \ {s} : Holders(t)' = Holders(t)
      BY <1>2, <1>3, <1>5, <3>1 DEF Holders
    <3>4. Cardinality(Holders(s)') = socks[s].refs + 1
      BY <3>2, <3>3, FS_AddElement
    <3> DEFINE n == [socks[s] EXCEPT !.refs = @ + 1]
    <3>5. /\ n \in Sock /\ n.used = socks[s].used /\ n.refs = socks[s].refs + 1
          /\ n.port = socks[s].port /\ n.q = socks[s].q /\ socks[s].refs \in Nat
      <4>1. socks[s].refs \in Nat
        BY <3>1 DEF Sock
      <4> QED
        <5>1. socks[s].refs + 1 \in Nat
          BY <4>1
        <5> QED
          BY <3>1, <4>1, <5>1 DEF Sock
    <3>6. socks' = [socks EXCEPT ![s] = n]
      BY <1>1, <1>2, <2>2, <3>1 DEF Incref
    <3> HIDE DEF n
    <3>7. /\ socks' \in [Socks -> Sock] /\ socks'[s] = n
          /\ \A t \in Socks \ {s} : socks'[t] = socks[t]
      BY <1>2, <3>1, <3>5, <3>6
    <3>8. TypeOK'
      BY <1>1, <1>5, <1>6, <3>7 DEF UdpInv, TypeOK
    <3>9. FreeIsEmpty'
      BY <1>5, <1>6, <3>1, <3>5, <3>7 DEF UdpInv, FreeIsEmpty
    <3>10. ASSUME NEW t \in Socks
           PROVE  /\ socks'[t].refs = Cardinality(Holders(t)')
                  /\ socks'[t].used <=> socks'[t].refs > 0
                  /\ Len(socks'[t].q) <= QCap
      <4>1. CASE t = s
        <5>1. Len(socks[s].q) <= QCap
          BY <3>1 DEF UdpInv, SocketsSound
        <5> QED
          <6>1. socks'[t] = n
            BY <3>7, <4>1
          <6>2. Cardinality(Holders(t)') = n.refs
            BY <3>4, <3>5, <4>1
          <6>3. n.refs > 0 /\ n.used
            BY <3>1, <3>5
          <6>4. Len(n.q) <= QCap
            BY <3>5, <5>1
          <6> QED
            BY <6>1, <6>2, <6>3, <6>4
      <4>2. CASE t # s
        BY <3>3, <3>7, <4>2, SocketsSoundHolders DEF UdpInv
      <4> QED
        BY <4>1, <4>2
    <3>11. \A t, u \in Socks :
              t # u /\ socks'[t].port = socks'[u].port => socks'[t].port = 0
      BY <3>1, <3>5, <3>7 DEF UdpInv, SocketsSound
    <3>12. SocketsSound'
      BY <3>10, <3>11 DEF SocketsSound, Holders
    <3>13. IdsSound(socks, got, sent)'
      <4>1. \A t \in Socks : socks'[t].q = socks[t].q
        BY <3>5, <3>7
      <4> QED
        BY <1>1, <4>1, IdsFrame DEF UdpInv
    <3> QED
      BY <3>8, <3>9, <3>12, <3>13
  <2> QED
    BY <2>1, <2>2
<1> QED
  BY <1>7, <1>8 DEF UdpInv

-----------------------------------------------------------------------------
(* Steps that receive, poll and switch.                                    *)

States == {"unused", "runnable", "sleeping", "blocked"}

\* What a poll leaves: sockets sk, states st, deadlines dl and n datagrams
\* sent, with which the pass goes on.
PolledSound(sk, st, dl, n) ==
    /\ OnlyQueues(sk) /\ n \in Nat /\ IdsSound(sk, got, n)
    /\ st \in [Procs -> States] /\ dl \in [Procs -> Clocks]
    /\ \A p \in Procs : st[p] = "unused" => state[p] = "unused"
    /\ ~forking => WokenForReason(sk, st, dl)

\* Without a poll nothing has changed.
LEMMA NotPolled ==
    ASSUME UdpInv
    PROVE  PolledSound(socks, state, deadline, sent)
BY DEF UdpInv, TypeOK, PolledSound, OnlyQueues, SocketsSound, WaitSound, States

LEMMA PollIsSound ==
    ASSUME UdpInv, NEW ds \in Polls
    PROVE  /\ PolledSound(Delivered(ds), StatePolled(ds), DeadlinePolled(ds),
                          sent + Cardinality(ds))
           /\ PolledSound(Delivered(ds), state, deadline, sent + Cardinality(ds))
<1> DEFINE sk == Delivered(ds)
           st == StatePolled(ds)
           dl == DeadlinePolled(ds)
<1>1. /\ OnlyQueues(sk)
      /\ \A s \in Socks : socks[s].q # <<>> => sk[s].q # <<>>
      /\ \A s \in Socks : (\E d \in ds : Takes(s, d)) => sk[s].q # <<>>
  BY DeliveredSocks DEF UdpInv
<1>2. IdsSound(sk, got, sent + Cardinality(ds)) /\ sent + Cardinality(ds) \in Nat
  BY DeliveredIds DEF UdpInv
<1> HIDE DEF sk
<1>3. /\ st \in [Procs -> States] /\ dl \in [Procs -> Clocks]
      /\ state \in [Procs -> States] /\ deadline \in [Procs -> Clocks]
  BY DEF UdpInv, TypeOK, StatePolled, DeadlinePolled, States, Clocks
<1>4. \A p \in Procs : st[p] = "unused" => state[p] = "unused"
  BY DEF StatePolled
<1>5. ASSUME ~forking
      PROVE  WokenForReason(sk, st, dl) /\ WokenForReason(sk, state, deadline)
  <2>1. \A p \in Procs : pending[p] # None => pending[p] \in Socks
    BY DEF UdpInv, TypeOK
  <2>2. WokenForReason(sk, state, deadline)
    BY <1>1, <1>5, <2>1 DEF UdpInv, WaitSound, WokenForReason
  <2>3. ASSUME NEW p \in Procs, pending[p] # None, st[p] = "runnable"
        PROVE  dl[p] = "past" \/ sk[pending[p]].q # <<>>
    <3>1. CASE p \in Woken(ds)
      BY <1>1, <2>1, <2>3, <3>1 DEF Woken
    <3>2. CASE p \notin Woken(ds) /\ Due(p, ds)
      BY <3>2 DEF DeadlinePolled, Due
    <3>3. CASE p \notin Woken(ds) /\ ~Due(p, ds)
      BY <2>2, <2>3, <3>3 DEF StatePolled, DeadlinePolled, WokenForReason
    <3> QED
      BY <3>1, <3>2, <3>3
  <2> QED
    BY <2>2, <2>3 DEF WokenForReason
<1> QED
  BY <1>1, <1>2, <1>3, <1>4, <1>5 DEF PolledSound, sk

\* A step that only stores what a poll left, and maybe switches.
LEMMA StoreStep ==
    ASSUME UdpInv, PolledSound(socks', state', deadline', sent'),
           UNCHANGED <<forking, fd, pending, got>>, eph' = eph,
           cur' \in Procs, last' \in Procs, waiting' \in BOOLEAN, local' \in Clocks,
           waiting' => pending'[cur'] # None,
           ~forking => (pending'[cur'] # None => waiting')
    PROVE  UdpInv'
<1>1. SocketsSound' /\ FreeIsEmpty'
  BY QueueStep DEF UdpInv, PolledSound
<1>2. TypeOK'
  BY DEF UdpInv, TypeOK, PolledSound, OnlyQueues, States
<1>3. IdsSound(socks, got, sent)'
  BY DEF PolledSound, IdsSound, QLen, QId
<1>4. SoleHolderStaysBlocked'
  BY DEF UdpInv, SoleHolderStaysBlocked, StaysBlocked
<1>5. WaitSound'
  BY DEF UdpInv, WaitSound, PolledSound, WokenForReason
<1> QED
  BY <1>1, <1>2, <1>3, <1>4, <1>5 DEF UdpInv

\* A step in which p takes the oldest datagram of s, if there is one, and
\* its receive is over.
LEMMA TakeStep ==
    ASSUME UdpInv, NEW sk, NEW st, NEW dl, PolledSound(sk, st, dl, sent'),
           NEW p \in Procs, NEW s \in Socks, forking \/ s = fd[p],
           socks' = TakeFrom(sk, s), got' = Received(p, sk, s),
           pending' = [pending EXCEPT ![p] = None],
           NEW c \in Clocks, deadline' = [dl EXCEPT ![p] = c], state' = st,
           UNCHANGED <<forking, fd, eph>>,
           cur' = p, last' \in Procs, waiting' = FALSE, local' \in Clocks
    PROVE  UdpInv'
<1>1. OnlyQueues(sk) /\ sk \in [Socks -> Sock] /\ sent' \in Nat
  BY DEF PolledSound, OnlyQueues
<1>2. OnlyQueues(socks') /\ \A t \in Socks \ {s} : socks'[t] = sk[t]
  BY <1>1, TakenSocks DEF UdpInv
<1>3. IdsSound(socks', got', sent') /\ got' \in [Procs -> Nat]
  BY <1>1, TakenIds DEF UdpInv, TypeOK, PolledSound
<1>4. SocketsSound' /\ FreeIsEmpty'
  BY <1>2, QueueStep DEF UdpInv, PolledSound
<1>5. /\ pending \in [Procs -> Socks \cup {None}]
      /\ pending' \in [Procs -> Socks \cup {None}] /\ pending'[p] = None
      /\ \A q \in Procs \ {p} : pending'[q] = pending[q]
      /\ deadline' \in [Procs -> Clocks]
      /\ \A q \in Procs \ {p} : deadline'[q] = dl[q]
  BY DEF UdpInv, TypeOK, PolledSound
<1>6. TypeOK'
  BY <1>2, <1>3, <1>5 DEF UdpInv, TypeOK, PolledSound, OnlyQueues, States
<1>7. IdsSound(socks, got, sent)'
  BY <1>3 DEF IdsSound, QLen, QId
<1>8. SoleHolderStaysBlocked' /\ WaitSound'
  <2> SUFFICES ASSUME ~forking
               PROVE  SoleHolderStaysBlocked' /\ WaitSound'
    BY DEF SoleHolderStaysBlocked, WaitSound
  <2>1. SoleHolderStaysBlocked'
    BY <1>5 DEF UdpInv, SoleHolderStaysBlocked, StaysBlocked
  <2>2. \A q, r \in Procs : fd'[q] = fd'[r] => q = r \/ fd'[q] = None
    BY DEF UdpInv, WaitSound
  <2>3. ASSUME NEW q \in Procs, pending'[q] # None, state'[q] = "runnable"
        PROVE  deadline'[q] = "past" \/ socks'[pending'[q]].q # <<>>
    <3>1. q # p /\ pending'[q] = pending[q] /\ deadline'[q] = dl[q] /\ st[q] = "runnable"
      BY <1>5, <2>3
    <3>2. pending[q] = fd[q] /\ pending[q] \in Socks \ {s}
      BY <1>5, <2>2, <2>3, <3>1, PortFacts DEF UdpInv, SoleHolderStaysBlocked
    <3>3. socks'[pending[q]] = sk[pending[q]]
      BY <1>2, <3>2
    <3> QED
      BY <2>3, <3>1, <3>3 DEF PolledSound, WokenForReason
  <2> QED
    BY <2>1, <2>2, <2>3 DEF WaitSound, WokenForReason
<1> QED
  BY <1>4, <1>6, <1>7, <1>8 DEF UdpInv

LEMMA RecvfromStep ==
    ASSUME UdpInv, NEW timed \in BOOLEAN, sys_mona_udp6_recvfrom(timed)
    PROVE  UdpInv'
<1>1. PICK s \in Socks : s = fd[cur]
  BY DEF sys_mona_udp6_recvfrom, UdpInv, TypeOK
<1>2. /\ InUserMode /\ pending[cur] = None /\ cur \in Procs /\ ~waiting
      /\ UNCHANGED <<forking, eph, fd, cur, last, sent>>
  BY DEF sys_mona_udp6_recvfrom, UdpInv, TypeOK, InUserMode
<1>3. /\ pending \in [Procs -> Socks \cup {None}] /\ deadline \in [Procs -> Clocks]
      /\ state \in [Procs -> States] /\ local \in Clocks /\ waiting \in BOOLEAN
      /\ last \in Procs /\ None \notin Socks
  BY PortFacts DEF UdpInv, TypeOK, States
<1>4. CASE socks[s].q # <<>>
  <2>1. /\ got' = Received(cur, socks, s) /\ socks' = TakeFrom(socks, s)
        /\ UNCHANGED <<pending, deadline, state, waiting, local>>
    BY <1>1, <1>4 DEF sys_mona_udp6_recvfrom
  <2>2. /\ pending' = [pending EXCEPT ![cur] = None]
        /\ deadline' = [deadline EXCEPT ![cur] = deadline[cur]]
        /\ deadline[cur] \in Clocks
    BY <1>2, <1>3, <2>1
  <2>3. PolledSound(socks, state, deadline, sent')
    BY <1>2, NotPolled
  <2>4. /\ UNCHANGED <<forking, fd, eph>> /\ state' = state
        /\ cur' = cur /\ last' \in Procs /\ waiting' = FALSE /\ local' \in Clocks
    BY <1>2, <1>3, <2>1
  <2>5. PICK p \in Procs, c \in Clocks :
           p = cur /\ deadline' = [deadline EXCEPT ![cur] = c]
    BY <1>2, <2>2
  <2>6. PICK sk, st, dl : sk = socks /\ st = state /\ dl = deadline
    OBVIOUS
  <2>7. /\ PolledSound(sk, st, dl, sent') /\ (forking \/ s = fd[p])
        /\ socks' = TakeFrom(sk, s) /\ got' = Received(p, sk, s)
        /\ pending' = [pending EXCEPT ![p] = None]
        /\ deadline' = [dl EXCEPT ![p] = c] /\ state' = st
        /\ cur' = p
    BY <1>1, <2>1, <2>2, <2>3, <2>4, <2>5, <2>6
  <2> QED
    BY <2>4, <2>7, TakeStep
<1>5. CASE socks[s].q = <<>>
  <2>1. /\ pending' = [pending EXCEPT ![cur] = s]
        /\ deadline' = [deadline EXCEPT ![cur] = IF timed THEN "ahead" ELSE "none"]
        /\ state' = [state EXCEPT ![cur] = IF timed THEN "sleeping" ELSE "blocked"]
        /\ waiting' = TRUE
        /\ local' = IF timed THEN "ahead" ELSE "none"
        /\ UNCHANGED <<socks, got>>
    BY <1>1, <1>5 DEF sys_mona_udp6_recvfrom
  <2>2. /\ pending' \in [Procs -> Socks \cup {None}] /\ pending'[cur] = s
        /\ deadline' \in [Procs -> Clocks] /\ state' \in [Procs -> States]
        /\ local' \in Clocks /\ state'[cur] \in {"sleeping", "blocked"}
        /\ \A q \in Procs \ {cur} : /\ pending'[q] = pending[q]
                                    /\ deadline'[q] = deadline[q]
                                    /\ state'[q] = state[q]
    BY <1>2, <1>3, <2>1 DEF Clocks, States
  <2>3. TypeOK'
    BY <1>2, <1>3, <2>1, <2>2 DEF UdpInv, TypeOK, States
  <2>4. SocketsSound' /\ FreeIsEmpty'
    BY <1>2, <2>1, <2>2 DEF UdpInv, SocketsSound, FreeIsEmpty, InUserMode
  <2>5. IdsSound(socks, got, sent)'
    BY <1>2, <2>1, IdsFrame DEF UdpInv
  <2>6. SoleHolderStaysBlocked'
    BY <1>1, <1>2, <2>1, <2>2 DEF UdpInv, SoleHolderStaysBlocked, StaysBlocked
  <2>7. WaitSound'
    BY <1>2, <2>1, <2>2 DEF UdpInv, WaitSound, WokenForReason
  <2> QED
    BY <2>3, <2>4, <2>5, <2>6, <2>7 DEF UdpInv
<1> QED
  BY <1>4, <1>5

\* A receive that ends when its process is picked.
LEMMA FinishStep ==
    ASSUME UdpInv, NEW sk, NEW st, NEW dl, PolledSound(sk, st, dl, sent'),
           NEW p \in Procs, pending[p] # None, Finish(p, sk, st, dl),
           UNCHANGED <<forking, fd, eph>>,
           cur' = p, last' \in Procs, waiting' = FALSE, local' \in Clocks
    PROVE  UdpInv'
<1>1. PICK s \in Socks : s = pending[p]
  BY DEF UdpInv, TypeOK
<1>2. forking \/ s = fd[p]
  BY <1>1 DEF UdpInv, SoleHolderStaysBlocked
<1>3. /\ got' = Received(p, sk, s) /\ socks' = TakeFrom(sk, s)
      /\ pending' = [pending EXCEPT ![p] = None]
      /\ deadline' = [dl EXCEPT ![p] = "none"] /\ state' = st
  BY <1>1 DEF Finish
<1>4. "none" \in Clocks
  BY DEF Clocks
<1> QED
  BY <1>2, <1>3, <1>4, TakeStep

\* A switch to the process that the pass found runnable.
LEMMA ResumeStep ==
    ASSUME UdpInv, NEW sk, NEW st, NEW dl, PolledSound(sk, st, dl, sent'),
           NEW q \in Procs, st[q] = "runnable", Resume(q, sk, st, dl),
           UNCHANGED <<forking, fd, eph>>, last' \in Procs
    PROVE  UdpInv'
<1>1. cur' = q /\ waiting' = FALSE /\ local' = "none" /\ "none" \in Clocks
  BY DEF Resume, Clocks
<1>2. CASE /\ pending[q] = None
           /\ socks' = sk /\ state' = st /\ deadline' = dl
           /\ UNCHANGED <<pending, got>>
  <2>1. PolledSound(socks', state', deadline', sent')
    BY <1>2
  <2> QED
    BY <1>1, <1>2, <2>1, StoreStep
<1>3. CASE /\ pending[q] # None /\ StillWaiting(q, sk, dl[q])
           /\ state' = [st EXCEPT ![q] = IF dl[q] = "none" THEN "blocked" ELSE "sleeping"]
           /\ socks' = sk /\ deadline' = dl
           /\ UNCHANGED <<pending, got>>
  <2>1. forking
    BY <1>3 DEF PolledSound, WokenForReason, StillWaiting
  <2>2. /\ state' \in [Procs -> States]
        /\ \A p \in Procs : state'[p] = "unused" => st[p] = "unused"
    BY <1>3 DEF PolledSound, States
  <2>3. PolledSound(socks', state', deadline', sent')
    BY <1>3, <2>1, <2>2 DEF PolledSound
  <2> QED
    BY <1>1, <1>3, <2>1, <2>3, StoreStep
<1>4. CASE pending[q] # None /\ Finish(q, sk, st, dl)
  BY <1>1, <1>4, FinishStep
<1> QED
  BY <1>2, <1>3, <1>4 DEF Resume

\* The loop of the running process, found runnable itself.
LEMMA InlineStep ==
    ASSUME UdpInv, NEW sk, NEW st, NEW dl, PolledSound(sk, st, dl, sent'),
           waiting, Inline(sk, st, dl),
           UNCHANGED <<forking, fd, eph>>, last' \in Procs
    PROVE  UdpInv'
<1>1. /\ cur' = cur /\ cur \in Procs /\ pending[cur] # None
      /\ waiting \in BOOLEAN /\ local \in Clocks /\ "none" \in Clocks
  BY DEF Inline, UdpInv, TypeOK, Clocks
<1>2. CASE /\ socks' = sk /\ state' = st /\ deadline' = dl
           /\ UNCHANGED <<got, pending, waiting, local>>
  <2>1. PolledSound(socks', state', deadline', sent')
    BY <1>2
  <2> QED
    BY <1>1, <1>2, <2>1, StoreStep
<1>3. CASE Finish(cur, sk, st, dl) /\ waiting' = FALSE /\ local' = "none"
  BY <1>1, <1>3, FinishStep
<1> QED
  BY <1>2, <1>3 DEF Inline

LEMMA ScheduleStep ==
    ASSUME UdpInv, Schedule
    PROVE  UdpInv'
<1>1. PICK ds \in Polls :
        LET sk == Delivered(ds)
            st == StatePolled(ds)
            dl == DeadlinePolled(ds)
            next == Picked(st)
        IN  /\ next # None
            /\ last' = next
            /\ sent' = sent + Cardinality(ds)
            /\ \/ next # cur /\ Resume(next, sk, st, dl)
               \/ next = cur /\ waiting /\ Inline(sk, st, dl)
               \/ /\ next = cur /\ ~waiting
                  /\ socks' = sk /\ state' = st /\ deadline' = dl
                  /\ UNCHANGED <<pending, got, cur, waiting, local>>
            /\ UNCHANGED <<forking, eph, fd>>
  BY DEF Schedule
<1> DEFINE sk == Delivered(ds)
           st == StatePolled(ds)
           dl == DeadlinePolled(ds)
           next == Picked(st)
<1>2. PolledSound(sk, st, dl, sent')
  BY <1>1, PollIsSound
<1>3. next \in Procs /\ st[next] = "runnable" /\ last' = next
  BY <1>1, PickedRunnable DEF UdpInv, TypeOK
<1>4. UNCHANGED <<forking, fd, eph>>
  BY <1>1
<1>5. \/ Resume(next, sk, st, dl)
      \/ waiting /\ Inline(sk, st, dl)
      \/ /\ ~waiting
         /\ socks' = sk /\ state' = st /\ deadline' = dl
         /\ UNCHANGED <<pending, got, cur, waiting, local>>
  BY <1>1
<1> HIDE DEF sk, st, dl, next
<1>6. CASE Resume(next, sk, st, dl)
  BY <1>2, <1>3, <1>4, <1>6, ResumeStep
<1>7. CASE waiting /\ Inline(sk, st, dl)
  BY <1>2, <1>3, <1>4, <1>7, InlineStep
<1>8. CASE /\ ~waiting
           /\ socks' = sk /\ state' = st /\ deadline' = dl
           /\ UNCHANGED <<pending, got, cur, waiting, local>>
  <2>1. PolledSound(socks', state', deadline', sent')
    BY <1>2, <1>8
  <2>2. /\ cur' \in Procs /\ waiting' \in BOOLEAN /\ local' \in Clocks /\ ~waiting'
        /\ ~forking => (pending'[cur'] # None => waiting')
    BY <1>8 DEF UdpInv, TypeOK, SoleHolderStaysBlocked, StaysBlocked
  <2> QED
    BY <1>3, <1>4, <1>8, <2>1, <2>2, StoreStep
<1> QED
  BY <1>5, <1>6, <1>7, <1>8

LEMMA PollStep ==
    ASSUME UdpInv, Poll \/ Idle
    PROVE  UdpInv'
<1>1. PICK ds \in Polls :
        /\ socks' = Delivered(ds) /\ sent' = sent + Cardinality(ds)
        /\ \/ state' = StatePolled(ds) /\ deadline' = DeadlinePolled(ds)
           \/ state' = state /\ deadline' = deadline
  BY DEF Poll, Idle, procVars
<1>2. UNCHANGED <<forking, eph, fd, pending, got, cur, last, waiting, local>>
  BY DEF Poll, Idle, procVars
<1>3. PolledSound(socks', state', deadline', sent')
  BY <1>1, PollIsSound
<1>4. /\ cur' \in Procs /\ last' \in Procs /\ waiting' \in BOOLEAN /\ local' \in Clocks
      /\ waiting' => pending'[cur'] # None
      /\ ~forking => (pending'[cur'] # None => waiting')
  BY <1>2 DEF UdpInv, TypeOK, SoleHolderStaysBlocked, StaysBlocked
<1> QED
  BY <1>2, <1>3, <1>4, StoreStep

LEMMA TickStep ==
    ASSUME UdpInv, NEW P, Tick(P)
    PROVE  UdpInv'
<1>1. /\ \A p \in Procs : deadline'[p] \in {deadline[p], Passed(deadline[p])}
      /\ deadline' \in [Procs -> Clocks] /\ local' \in Clocks
  BY DEF Tick, UdpInv, TypeOK, Passed, Clocks
<1>2. UNCHANGED <<forking, socks, eph, fd, state, pending, got, cur, last,
                  waiting, sent>>
  BY DEF Tick
<1>3. \A p \in Procs : deadline[p] = "past" => deadline'[p] = "past"
  BY <1>1 DEF Passed
<1>4. PolledSound(socks', state', deadline', sent')
  BY <1>1, <1>2, <1>3, NotPolled DEF PolledSound, WokenForReason
<1>5. /\ cur' \in Procs /\ last' \in Procs /\ waiting' \in BOOLEAN
      /\ waiting' => pending'[cur'] # None
      /\ ~forking => (pending'[cur'] # None => waiting')
  BY <1>2 DEF UdpInv, TypeOK, SoleHolderStaysBlocked, StaysBlocked
<1> QED
  BY <1>1, <1>2, <1>4, <1>5, StoreStep

-----------------------------------------------------------------------------
(* The invariant.                                                          *)

LEMMA InitSound == Init => UdpInv
<1> SUFFICES ASSUME Init PROVE UdpInv
  OBVIOUS
<1>1. /\ Free \in Sock /\ ~Free.used /\ Free.refs = 0 /\ Free.port = 0
      /\ Free.q = <<>> /\ Len(Free.q) = 0
  <2>1. <<>> \in Seq(Dgram) /\ Len(<<>>) = 0
    OBVIOUS
  <2> QED
    BY <2>1 DEF Free, Sock
<1>2. 0 \in Procs /\ \A s \in Socks : socks[s] = Free
  BY Udp6Assumption DEF Procs, Init
<1>3. TypeOK
  <2> HIDE DEF Free
  <2> QED
    BY <1>1, <1>2, PortFacts DEF Init, TypeOK, Clocks
<1>4. SocketsSound
  <2>1. \A s \in Socks : Holders(s) = {}
    BY PortFacts DEF Init, Holders
  <2> HIDE DEF Free
  <2> QED
    BY <1>1, <1>2, <2>1, FS_EmptySet, SocketsSoundHolders, Udp6Assumption
<1>5. FreeIsEmpty
  BY <1>2 DEF Init, FreeIsEmpty
<1>6. IdsSound(socks, got, sent)
  <2>1. \A s \in Socks : QLen(socks, s) = 0
    BY <1>1, <1>2 DEF QLen
  <2>2. \A p \in Procs : got[p] = 0
    BY DEF Init
  <2>3. sent = 0
    BY DEF Init
  <2> QED
    BY <2>1, <2>2, <2>3 DEF IdsSound
<1>7. SoleHolderStaysBlocked /\ WaitSound
  <2>1. \A p \in Procs : fd[p] = None /\ pending[p] = None
    BY DEF Init
  <2>2. cur \in Procs
    BY <1>2 DEF Init
  <2> QED
    BY <2>1, <2>2 DEF SoleHolderStaysBlocked, StaysBlocked, WaitSound, WokenForReason
<1> QED
  BY <1>3, <1>4, <1>5, <1>6, <1>7 DEF UdpInv

LEMMA StepSound == UdpInv /\ [Next]_vars => UdpInv'
<1> SUFFICES ASSUME UdpInv, [Next]_vars PROVE UdpInv'
  OBVIOUS
<1>1. CASE sys_mona_udp6_socket
  BY <1>1, SocketStep
<1>2. CASE sys_mona_udp6_sendto
  BY <1>2, SendtoStep
<1>3. CASE close
  BY <1>3, CloseStep
<1>4. ASSUME NEW port \in {0, EphFirst}, sys_mona_udp6_bind(port)
      PROVE  UdpInv'
  BY <1>4, BindStep
<1>5. ASSUME NEW child \in Procs, fork(child)
      PROVE  UdpInv'
  BY <1>5, ForkStep
<1>6. ASSUME NEW timed \in BOOLEAN, sys_mona_udp6_recvfrom(timed)
      PROVE  UdpInv'
  BY <1>6, RecvfromStep
<1>7. CASE Schedule
  BY <1>7, ScheduleStep
<1>8. CASE Poll \/ Idle
  BY <1>8, PollStep
<1>9. ASSUME NEW p \in Procs, Tick({p})
      PROVE  UdpInv'
  BY <1>9, TickStep
<1>10. CASE UNCHANGED vars
  <2>1. socks' = socks /\ eph' \in Ports
    BY <1>10 DEF vars, UdpInv, TypeOK
  <2>2. UNCHANGED <<forking, procVars, cur, last, waiting, local, sent>>
    BY <1>10 DEF vars
  <2> QED
    BY <2>1, <2>2, CounterStep
<1> QED
  BY <1>1, <1>2, <1>3, <1>4, <1>5, <1>6, <1>7, <1>8, <1>9, <1>10 DEF Next

\* The inductive invariant of the sockets of g_udp6, their queues, and the
\* processes that sys_mona_udp6_recvfrom has blocked on one.
THEOREM UdpInvariant == Spec => []UdpInv
<1> QED
  BY InitSound, StepSound, PTL DEF Spec

\* However processes open, bind, fork, wait and close, a socket of g_udp6 has
\* as many references as descriptors name it, no two have one port, and no
\* queue is longer than its ring.
THEOREM SocketsStaySound == Spec => []SocketsSound
<1>1. UdpInv => SocketsSound
  BY DEF UdpInv
<1> QED
  BY <1>1, UdpInvariant, PTL

\* No datagram is received twice, and the holder of a socket receives in the
\* order of arrival, whichever of the three paths of recvfrom hands it over.
THEOREM DatagramsAreReceivedOnce == Spec => []DatagramsOnceInOrder
<1>1. UdpInv => DatagramsOnceInOrder
  <2> SUFFICES ASSUME UdpInv PROVE DatagramsOnceInOrder
    OBVIOUS
  <2>1. \A s \in Socks : QLen(socks, s) \in Nat
    BY QueueFacts DEF UdpInv, TypeOK
  <2>2. \A s \in Socks, i \in 1 .. QCap : i <= Len(socks[s].q) => i \in 1 .. QLen(socks, s)
    BY <2>1, Udp6Assumption DEF QLen
  <2>3. \A s \in Socks, i \in 1 .. QCap : socks[s].q[i].id = QId(socks, s, i)
    BY DEF QId
  <2>4. \A s \in Socks, i, j \in 1 .. QCap :
           i < j /\ j <= Len(socks[s].q) => socks[s].q[i].id < socks[s].q[j].id
    <3> SUFFICES ASSUME NEW s \in Socks, NEW i \in 1 .. QCap, NEW j \in 1 .. QCap,
                        i < j, j <= Len(socks[s].q)
                 PROVE  QId(socks, s, i) < QId(socks, s, j)
      BY <2>3
    <3>1. i <= Len(socks[s].q)
      BY <2>1, Udp6Assumption DEF QLen
    <3>2. i \in 1 .. QLen(socks, s) /\ j \in 1 .. QLen(socks, s)
      BY <2>2, <3>1
    <3> QED
      BY <3>2 DEF UdpInv, IdsSound
  <2>5. \A p, q \in Procs : p # q /\ got[p] # 0 => got[p] # got[q]
    BY DEF UdpInv, IdsSound
  <2>6. \A p \in Procs, s \in Socks, i \in 1 .. QCap :
           i <= Len(socks[s].q) =>
             /\ socks[s].q[i].id # got[p]
             /\ ~forking /\ s = fd[p] => got[p] < socks[s].q[i].id
    <3> SUFFICES ASSUME NEW p \in Procs, NEW s \in Socks, NEW i \in 1 .. QLen(socks, s)
                 PROVE  /\ QId(socks, s, i) # got[p]
                        /\ ~forking /\ s = fd[p] => got[p] < QId(socks, s, i)
      BY <2>2, <2>3
    <3> QED
      BY DEF UdpInv, IdsSound
  <2> QED
    BY <2>4, <2>5, <2>6 DEF DatagramsOnceInOrder
<1> QED
  BY <1>1, UdpInvariant, PTL

\* As long as no process with a socket forks, a process whose receive is not
\* over does not run ("Still waiting; keep blocked.", sched.c), and the socket
\* it waits on is its own.
THEOREM SoleHolderIsBlocked == Spec => []SoleHolderStaysBlocked
<1>1. UdpInv => SoleHolderStaysBlocked
  BY DEF UdpInv
<1> QED
  BY <1>1, UdpInvariant, PTL
=============================================================================
