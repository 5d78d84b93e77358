---------------------------- MODULE FdTableProofs ----------------------------
(***************************************************************************)
(* The reference counts of fd.c for any number of processes, descriptors,  *)
(* descriptions, pipes and sockets: they are exact after every call, and no *)
(* call recycles a description that somebody holds.                        *)
(*                                                                         *)
(* A call passes through states in which the counts do not agree with the  *)
(* descriptor tables: the description of a new file is counted before it   *)
(* has a descriptor, and fork copies a table before it counts it.  They    *)
(* always agree with who holds a reference at that point, which is a       *)
(* function from slots to descriptions: every descriptor is a slot, and    *)
(* there are two more for the references a call itself has.                *)
(***************************************************************************)
EXTENDS FdTable, FiniteSetTheorems, WellFoundedInduction, TLAPS

Spare1 == <<MaxProcs, 0>>
Spare2 == <<MaxProcs, 1>>
Slots == (Procs \X Fds) \cup {Spare1, Spare2}
Holds == [Slots -> Descs \cup {None}]

Kinds == SockKinds \cup {"UNUSED", "UART", "FILE", "PIPE"}
DescSet == [kind : Kinds, refs : Nat, obj : Nat, end : Ends]
PipeSet == [used : BOOLEAN, refs : [Ends -> Nat]]
Tables == [fdt   : [Procs -> [Fds -> Descs \cup {None}]],
           descs : [Descs -> DescSet],
           pipes : [Pipes -> PipeSet],
           socks : [SockKinds -> [Socks -> Nat]]]

\* Descriptions of pipes and sockets name one.
Backed(kk) ==
    \A d \in Descs : /\ kk.descs[d].kind = "PIPE" => kk.descs[d].obj \in Pipes
                     /\ kk.descs[d].kind \in SockKinds => kk.descs[d].obj \in Socks

\* The slots of h that hold a description of D, and their number.
Held(h, D) == {s \in Slots : h[s] \in D}
Num(h, D) == Cardinality(Held(h, D))

EndOf(kk, i, e) == {d \in Descs : /\ kk.descs[d].kind = "PIPE"
                                  /\ kk.descs[d].obj = i
                                  /\ kk.descs[d].end = e}
SockOf(kk, s, i) == {d \in Descs : kk.descs[d].kind = s /\ kk.descs[d].obj = i}

\* The three counts, of the references that h says are held.
DescsCounted(kk, h) == \A d \in Descs : kk.descs[d].refs = Num(h, {d})
PipesCounted(kk, h) ==
    \A i \in Pipes : /\ \A e \in Ends : kk.pipes[i].refs[e] = Num(h, EndOf(kk, i, e))
                     /\ kk.pipes[i].used <=> \E e \in Ends : kk.pipes[i].refs[e] # 0
SocksCounted(kk, h) ==
    \A s \in SockKinds, i \in Socks : kk.socks[s][i] = Num(h, SockOf(kk, s, i))

Counted(kk, h) ==
    /\ kk \in Tables /\ Backed(kk) /\ h \in Holds
    /\ DescsCounted(kk, h) /\ PipesCounted(kk, h) /\ SocksCounted(kk, h)

SameObject(kk, k2, d) ==
    /\ k2.descs[d].kind = kk.descs[d].kind
    /\ k2.descs[d].obj = kk.descs[d].obj
    /\ k2.descs[d].end = kk.descs[d].end

\* What h holds denotes the same in k2 as in kk.
Keeps(kk, k2, h) == \A s \in Slots : h[s] \in Descs => SameObject(kk, k2, h[s])

-----------------------------------------------------------------------------
(* Slots and their number.                                                 *)

LEMMA NoneIsNone == None \notin Descs /\ None \notin Fds
BY DEF None, Descs, Fds

LEMMA SlotFacts ==
    ASSUME FdAssumption
    PROVE  /\ IsFiniteSet(Slots)
           /\ Spare1 \in Slots /\ Spare2 \in Slots /\ Spare1 # Spare2
           /\ \A p \in Procs, f \in Fds : /\ <<p, f>> \in Slots
                                          /\ <<p, f>> # Spare1 /\ <<p, f>> # Spare2
<1>1. MaxProcs \in Nat /\ MAX_FDS \in Nat
  BY DEF FdAssumption
<1>2. IsFiniteSet(Procs) /\ IsFiniteSet(Fds)
  BY <1>1, FS_Interval DEF Procs, Fds
<1>3. IsFiniteSet(Procs \X Fds)
  BY <1>2, FS_Product
<1>4. IsFiniteSet({Spare1, Spare2})
  <2>1. IsFiniteSet({Spare1})
    BY FS_Singleton
  <2>2. {Spare1, Spare2} = {Spare1} \cup {Spare2}
    OBVIOUS
  <2> QED
    BY <2>1, <2>2, FS_AddElement
<1>5. IsFiniteSet(Slots)
  BY <1>3, <1>4, FS_Union DEF Slots
<1>6. \A p \in Procs : p # MaxProcs
  BY <1>1 DEF Procs
<1> QED
  BY <1>5, <1>6 DEF Slots, Spare1, Spare2

LEMMA NumFacts ==
    ASSUME FdAssumption, NEW h \in Holds, NEW D \in SUBSET Descs
    PROVE  /\ IsFiniteSet(Held(h, D)) /\ Num(h, D) \in Nat
           /\ Num(h, D) = 0 <=> \A s \in Slots : h[s] \notin D
<1>1. IsFiniteSet(Held(h, D))
  BY SlotFacts, FS_Subset DEF Held
<1>2. Num(h, D) \in Nat /\ (Num(h, D) = 0 <=> Held(h, D) = {})
  BY <1>1, FS_CardinalityType, FS_EmptySet DEF Num
<1> QED
  BY <1>1, <1>2 DEF Held

\* A slot that was empty is filled.
LEMMA NumFill ==
    ASSUME FdAssumption, NEW h \in Holds, NEW D \in SUBSET Descs,
           NEW s \in Slots, h[s] = None, NEW d \in Descs
    PROVE  /\ [h EXCEPT ![s] = d] \in Holds
           /\ Num([h EXCEPT ![s] = d], D) = Num(h, D) + (IF d \in D THEN 1 ELSE 0)
<1> DEFINE h2 == [h EXCEPT ![s] = d]
<1>1. h2 \in Holds
  BY DEF Holds
<1>2. Held(h2, D) = IF d \in D THEN Held(h, D) \cup {s} ELSE Held(h, D)
  BY NoneIsNone DEF Held, Holds
<1>3. s \notin Held(h, D)
  BY NoneIsNone DEF Held
<1>4. IsFiniteSet(Held(h, D)) /\ Num(h, D) \in Nat
  BY NumFacts
<1>5. Cardinality(Held(h, D) \cup {s}) = Cardinality(Held(h, D)) + 1
  BY <1>3, <1>4, FS_AddElement
<1> QED
  BY <1>1, <1>2, <1>4, <1>5 DEF Num

\* A slot is emptied.
LEMMA NumEmpty ==
    ASSUME FdAssumption, NEW h \in Holds, NEW D \in SUBSET Descs,
           NEW s \in Slots, h[s] \in Descs
    PROVE  /\ [h EXCEPT ![s] = None] \in Holds
           /\ Num([h EXCEPT ![s] = None], D) = Num(h, D) - (IF h[s] \in D THEN 1 ELSE 0)
<1> DEFINE h2 == [h EXCEPT ![s] = None]
<1>1. h2 \in Holds
  BY DEF Holds
<1>2. Held(h2, D) = IF h[s] \in D THEN Held(h, D) \ {s} ELSE Held(h, D)
  BY NoneIsNone DEF Held, Holds
<1>3. h[s] \in D <=> s \in Held(h, D)
  BY DEF Held
<1>4. IsFiniteSet(Held(h, D)) /\ Num(h, D) \in Nat
  BY NumFacts
<1>5. s \in Held(h, D) => Cardinality(Held(h, D) \ {s}) = Cardinality(Held(h, D)) - 1
  BY <1>4, FS_RemoveElement
<1> QED
  BY <1>1, <1>2, <1>3, <1>4, <1>5 DEF Num

\* A slot that is read in two ways.
LEMMA HeldIsCounted ==
    ASSUME FdAssumption, NEW h \in Holds, NEW D \in SUBSET Descs,
           NEW s \in Slots, h[s] \in D
    PROVE  Num(h, D) \in Nat /\ Num(h, D) > 0
BY NumFacts

\* The same slots are counted.
LEMMA SameNum ==
    ASSUME NEW h, NEW g, NEW D, NEW E, \A s \in Slots : h[s] \in D <=> g[s] \in E
    PROVE  Num(h, D) = Num(g, E)
<1>1. Held(h, D) = Held(g, E)
  BY DEF Held
<1> QED
  BY <1>1 DEF Num

-----------------------------------------------------------------------------
(* Tables with one entry changed.                                          *)

LEMMA TablesParts ==
    ASSUME NEW kk \in Tables
    PROVE  /\ kk.fdt \in [Procs -> [Fds -> Descs \cup {None}]]
           /\ kk.descs \in [Descs -> DescSet]
           /\ kk.pipes \in [Pipes -> PipeSet]
           /\ kk.socks \in [SockKinds -> [Socks -> Nat]]
           /\ \A x \in Descs : kk.descs[x].refs \in Nat
           /\ \A i \in Pipes, e \in Ends : kk.pipes[i].refs[e] \in Nat
           /\ \A s \in SockKinds, i \in Socks : kk.socks[s][i] \in Nat
BY DEF Tables, DescSet, PipeSet

LEMMA TablesEqual ==
    ASSUME NEW kk \in Tables, NEW k2 \in Tables,
           k2.fdt = kk.fdt, k2.descs = kk.descs, k2.pipes = kk.pipes, k2.socks = kk.socks
    PROVE  k2 = kk
BY DEF Tables

WithDesc(kk, d, v) == [kk EXCEPT !.descs[d] = v]
WithPipe(kk, i, v) == [kk EXCEPT !.pipes[i] = v]
WithSock(kk, s, i, v) == [kk EXCEPT !.socks[s][i] = v]
WithFd(kk, p, f, v) == [kk EXCEPT !.fdt[p][f] = v]

DescPut(w, kk, d, v) ==
    /\ w \in Tables /\ w.fdt = kk.fdt /\ w.pipes = kk.pipes /\ w.socks = kk.socks
    /\ w.descs[d] = v /\ \A x \in Descs \ {d} : w.descs[x] = kk.descs[x]
PipePut(w, kk, i, v) ==
    /\ w \in Tables /\ w.fdt = kk.fdt /\ w.descs = kk.descs /\ w.socks = kk.socks
    /\ w.pipes[i] = v /\ \A x \in Pipes \ {i} : w.pipes[x] = kk.pipes[x]
SockPut(w, kk, s, i, v) ==
    /\ w \in Tables /\ w.fdt = kk.fdt /\ w.descs = kk.descs /\ w.pipes = kk.pipes
    /\ w.socks[s][i] = v
    /\ \A t \in SockKinds, x \in Socks : t # s \/ x # i => w.socks[t][x] = kk.socks[t][x]
FdPut(w, kk, p, f, v) ==
    /\ w \in Tables /\ w.descs = kk.descs /\ w.pipes = kk.pipes /\ w.socks = kk.socks
    /\ w.fdt[p][f] = v
    /\ \A q \in Procs, g \in Fds : q # p \/ g # f => w.fdt[q][g] = kk.fdt[q][g]

LEMMA PutDesc ==
    ASSUME NEW kk \in Tables, NEW d \in Descs, NEW v \in DescSet
    PROVE  DescPut(WithDesc(kk, d, v), kk, d, v)
BY DEF Tables, WithDesc, DescPut

LEMMA PutPipe ==
    ASSUME NEW kk \in Tables, NEW i \in Pipes, NEW v \in PipeSet
    PROVE  PipePut(WithPipe(kk, i, v), kk, i, v)
BY DEF Tables, WithPipe, PipePut

LEMMA PutSock ==
    ASSUME NEW kk \in Tables, NEW s \in SockKinds, NEW i \in Socks, NEW v \in Nat
    PROVE  SockPut(WithSock(kk, s, i, v), kk, s, i, v)
BY DEF Tables, WithSock, SockPut

LEMMA PutFd ==
    ASSUME NEW kk \in Tables, NEW p \in Procs, NEW f \in Fds, NEW v \in Descs \cup {None}
    PROVE  FdPut(WithFd(kk, p, f, v), kk, p, f, v)
BY DEF Tables, WithFd, FdPut

-----------------------------------------------------------------------------
(* What the functions of fd.c do to the tables.                            *)

One(b) == IF b THEN 1 ELSE 0

\* k2 is kk with the counts of d and of its object up by a, down when a is -1.
Moved(kk, k2, d, a) ==
    /\ \A x \in Descs : k2.descs[x].refs = kk.descs[x].refs + a * One(x = d)
    /\ \A i \in Pipes, e \in Ends :
          k2.pipes[i].refs[e] = kk.pipes[i].refs[e] + a * One(d \in EndOf(kk, i, e))
    /\ \A s \in SockKinds, i \in Socks :
          k2.socks[s][i] = kk.socks[s][i] + a * One(d \in SockOf(kk, s, i))

\* The object of d is in use.
InUse(kk, d) ==
    /\ kk.descs[d].refs > 0
    /\ \A i \in Pipes, e \in Ends :
          d \in EndOf(kk, i, e) => kk.pipes[i].used /\ kk.pipes[i].refs[e] > 0
    /\ \A s \in SockKinds, i \in Socks :
          d \in SockOf(kk, s, i) => kk.socks[s][i] > 0

\* desc_incref.
LEMMA IncrefParts ==
    ASSUME NEW kk \in Tables, Backed(kk), NEW d \in Descs, InUse(kk, d),
           NEW k2, k2 = desc_incref(kk, d)
    PROVE  /\ k2 \in Tables /\ k2.fdt = kk.fdt
           /\ Moved(kk, k2, d, 1)
           /\ \A x \in Descs : SameObject(kk, k2, x)
           /\ \A i \in Pipes : k2.pipes[i].used = kk.pipes[i].used
<1> DEFINE de == kk.descs[d]
           v  == [de EXCEPT !.refs = @ + 1]
<1>1. /\ v \in DescSet /\ v.refs = de.refs + 1
      /\ v.kind = de.kind /\ v.obj = de.obj /\ v.end = de.end
  BY TablesParts DEF DescSet
<1>2. WithDesc(kk, d, v) = [kk EXCEPT !.descs[d].refs = @ + 1]
  BY DEF WithDesc
<1> HIDE DEF v
<1>3. PICK k1 : k1 = WithDesc(kk, d, v)
  OBVIOUS
<1>4. /\ k1 \in Tables
      /\ k1.fdt = kk.fdt /\ k1.pipes = kk.pipes /\ k1.socks = kk.socks
      /\ k1.descs[d] = v
      /\ \A x \in Descs \ {d} : k1.descs[x] = kk.descs[x]
  <2>1. DescPut(k1, kk, d, v)
    BY <1>1, <1>3, PutDesc
  <2> QED
    BY <1>1, <1>3, <2>1 DEF DescPut
<1>5. \A x \in Descs : /\ SameObject(kk, k1, x)
                      /\ k1.descs[x].refs = kk.descs[x].refs + 1 * One(x = d)
  BY <1>1, <1>4, TablesParts DEF SameObject, One
<1>6. k2 = CASE de.kind = "PIPE" -> pipe_on_desc_incref(k1, de.obj, de.end)
            [] de.kind \in SockKinds -> sock_incref(k1, de.kind, de.obj)
            [] OTHER -> k1
  <2>1. de.refs # 0
    BY TablesParts DEF InUse
  <2> QED
    BY <1>2, <1>3, <2>1 DEF desc_incref
<1>7. CASE de.kind = "PIPE"
  <2>1. PICK i \in Pipes, e \in Ends : i = de.obj /\ e = de.end /\ d \in EndOf(kk, i, e)
    BY <1>7, TablesParts DEF Backed, EndOf, DescSet
  <2>2. k1.pipes[i].used
    BY <1>4, <2>1 DEF InUse
  <2>3. k2 = pipe_on_desc_incref(k1, i, e)
    <3>1. k2 = pipe_on_desc_incref(k1, de.obj, de.end)
      BY <1>6, <1>7 DEF SockKinds
    <3> QED
      BY <2>1, <3>1
  <2>4. k2 = [k1 EXCEPT !.pipes[i].refs[e] = @ + 1]
    BY <2>2, <2>3 DEF pipe_on_desc_incref
  <2> DEFINE q == [kk.pipes[i] EXCEPT !.refs[e] = @ + 1]
  <2>5. /\ q \in PipeSet /\ q.used = kk.pipes[i].used
        /\ \A x \in Ends : q.refs[x] = kk.pipes[i].refs[x] + One(x = e)
    <3> DEFINE pp == kk.pipes[i]
    <3>1. pp \in PipeSet /\ pp.refs \in [Ends -> Nat] /\ pp.refs[e] + 1 \in Nat
      BY TablesParts DEF PipeSet
    <3>2. q = [used |-> pp.used, refs |-> [pp.refs EXCEPT ![e] = @ + 1]]
      BY <3>1 DEF PipeSet
    <3>3. [pp.refs EXCEPT ![e] = @ + 1] \in [Ends -> Nat]
      BY <3>1
    <3> HIDE DEF pp
    <3>4. pp.used \in BOOLEAN
      BY <3>1 DEF PipeSet
    <3>5. \A x \in Ends : [pp.refs EXCEPT ![e] = @ + 1][x] = pp.refs[x] + One(x = e)
      BY <3>1 DEF One
    <3>6. q \in PipeSet /\ q.used = pp.used /\ q.refs = [pp.refs EXCEPT ![e] = @ + 1]
      BY <3>2, <3>3, <3>4 DEF PipeSet
    <3> QED
      BY <3>5, <3>6 DEF pp
  <2>6. k2 = WithPipe(k1, i, q)
    BY <1>4, <2>4 DEF WithPipe
  <2> HIDE DEF q
  <2>7. /\ k2 \in Tables
        /\ k2.fdt = kk.fdt /\ k2.descs = k1.descs /\ k2.socks = kk.socks
        /\ k2.pipes[i] = q
        /\ \A x \in Pipes \ {i} : k2.pipes[x] = kk.pipes[x]
    <3>1. PipePut(k2, k1, i, q)
      BY <1>4, <2>5, <2>6, PutPipe
    <3> QED
      BY <1>4, <2>5, <2>6, <3>1 DEF PipePut
  <2>8. \A x \in Pipes, y \in Ends : d \in EndOf(kk, x, y) <=> (x = i /\ y = e)
    BY <2>1 DEF EndOf
  <2>9. \A s \in SockKinds, x \in Socks : d \notin SockOf(kk, s, x)
    BY <1>7 DEF SockOf, SockKinds
  <2>10. ASSUME NEW x \in Pipes, NEW y \in Ends
         PROVE  k2.pipes[x].refs[y] = kk.pipes[x].refs[y] + 1 * One(d \in EndOf(kk, x, y))
    BY <2>5, <2>7, <2>8, TablesParts DEF One
  <2>11. ASSUME NEW s \in SockKinds, NEW x \in Socks
         PROVE  k2.socks[s][x] = kk.socks[s][x] + 1 * One(d \in SockOf(kk, s, x))
    BY <2>7, <2>9, TablesParts DEF One
  <2>12. Moved(kk, k2, d, 1)
    BY <1>5, <2>7, <2>10, <2>11 DEF Moved
  <2>13. \A x \in Descs : SameObject(kk, k2, x)
    BY <1>5, <2>7 DEF SameObject
  <2>14. \A x \in Pipes : k2.pipes[x].used = kk.pipes[x].used
    BY <2>5, <2>7
  <2> QED
    BY <2>7, <2>12, <2>13, <2>14
<1>8. CASE de.kind \in SockKinds
  <2>1. PICK t \in SockKinds, i \in Socks : t = de.kind /\ i = de.obj /\ d \in SockOf(kk, t, i)
    BY <1>8 DEF Backed, SockOf
  <2>2. k1.socks[t][i] # 0
    BY <1>4, <2>1, TablesParts DEF InUse
  <2>3. de.kind # "PIPE"
    BY <1>8 DEF SockKinds
  <2>4. k2 = sock_incref(k1, t, i)
    BY <1>6, <1>8, <2>1, <2>3
  <2>5. k2 = [k1 EXCEPT !.socks[t][i] = @ + 1]
    BY <2>2, <2>4 DEF sock_incref
  <2>6. PICK n \in Nat : n = kk.socks[t][i] + 1
    BY TablesParts
  <2>7. k2 = WithSock(k1, t, i, n)
    BY <1>4, <2>5, <2>6 DEF WithSock
  <2>8. /\ k2 \in Tables
        /\ k2.fdt = kk.fdt /\ k2.descs = k1.descs /\ k2.pipes = kk.pipes
        /\ k2.socks[t][i] = n
        /\ \A s \in SockKinds, x \in Socks :
             s # t \/ x # i => k2.socks[s][x] = kk.socks[s][x]
    <3>1. SockPut(k2, k1, t, i, n)
      BY <1>4, <2>7, PutSock
    <3> QED
      BY <1>4, <2>7, <3>1 DEF SockPut
  <2>9. \A s \in SockKinds, x \in Socks : d \in SockOf(kk, s, x) <=> (s = t /\ x = i)
    BY <2>1 DEF SockOf
  <2>10. \A x \in Pipes, y \in Ends : d \notin EndOf(kk, x, y)
    BY <2>3 DEF EndOf
  <2>11. ASSUME NEW x \in Pipes, NEW y \in Ends
         PROVE  k2.pipes[x].refs[y] = kk.pipes[x].refs[y] + 1 * One(d \in EndOf(kk, x, y))
    BY <2>8, <2>10, TablesParts DEF One
  <2>12. ASSUME NEW s \in SockKinds, NEW x \in Socks
         PROVE  k2.socks[s][x] = kk.socks[s][x] + 1 * One(d \in SockOf(kk, s, x))
    BY <2>6, <2>8, <2>9, TablesParts DEF One
  <2>13. Moved(kk, k2, d, 1)
    BY <1>5, <2>8, <2>11, <2>12 DEF Moved
  <2>14. \A x \in Descs : SameObject(kk, k2, x)
    BY <1>5, <2>8 DEF SameObject
  <2> QED
    BY <2>8, <2>13, <2>14
<1>9. CASE de.kind # "PIPE" /\ de.kind \notin SockKinds
  <2>1. k2 = k1
    BY <1>6, <1>9
  <2>2. \A x \in Pipes, y \in Ends : d \notin EndOf(kk, x, y)
    BY <1>9 DEF EndOf
  <2>3. \A s \in SockKinds, x \in Socks : d \notin SockOf(kk, s, x)
    BY <1>9 DEF SockOf
  <2>4. Moved(kk, k2, d, 1)
    BY <1>4, <1>5, <2>1, <2>2, <2>3, TablesParts DEF Moved, One
  <2> QED
    BY <1>4, <1>5, <2>1, <2>4
<1> QED
  BY <1>7, <1>8, <1>9

\* desc_decref.
UsedRight(kk) == \A i \in Pipes : kk.pipes[i].used <=> \E e \in Ends : kk.pipes[i].refs[e] # 0

LEMMA DecrefParts ==
    ASSUME NEW kk \in Tables, Backed(kk), UsedRight(kk), NEW d \in Descs, InUse(kk, d),
           NEW k2, k2 = desc_decref(kk, d)
    PROVE  /\ k2 \in Tables /\ k2.fdt = kk.fdt
           /\ Moved(kk, k2, d, -1)
           /\ \A x \in Descs \ {d} : SameObject(kk, k2, x)
           /\ kk.descs[d].refs # 1 => SameObject(kk, k2, d)
           /\ kk.descs[d].refs = 1 => k2.descs[d] = ClearDesc
           /\ UsedRight(k2)
<1> DEFINE de == kk.descs[d]
           v  == IF de.refs = 1 THEN ClearDesc ELSE [de EXCEPT !.refs = de.refs - 1]
<1>1. /\ v \in DescSet /\ v.refs = de.refs - 1
      /\ de.refs # 1 => v.kind = de.kind /\ v.obj = de.obj /\ v.end = de.end
      /\ de.refs = 1 => v = ClearDesc
  <2>1. de \in DescSet /\ de.refs \in Nat /\ de.refs > 0
    BY TablesParts DEF InUse
  <2>2. ClearDesc \in DescSet /\ ClearDesc.refs = 0
    BY DEF ClearDesc, DescSet, Kinds, Ends
  <2>3. CASE de.refs = 1
    BY <2>2, <2>3
  <2>4. CASE de.refs # 1
    <3>1. [de EXCEPT !.refs = de.refs - 1] = [kind |-> de.kind, refs |-> de.refs - 1,
                                        obj |-> de.obj, end |-> de.end]
      BY <2>1 DEF DescSet
    <3>2. de.refs - 1 \in Nat
      BY <2>1
    <3> QED
      BY <2>1, <2>4, <3>1, <3>2 DEF DescSet
  <2> QED
    BY <2>3, <2>4
<1>2. WithDesc(kk, d, v) = [kk EXCEPT !.descs[d] =
                              IF de.refs = 1 THEN ClearDesc
                                             ELSE [de EXCEPT !.refs = de.refs - 1]]
  BY DEF WithDesc
<1> HIDE DEF v
<1>3. PICK k1 : k1 = WithDesc(kk, d, v)
  OBVIOUS
<1>4. /\ k1 \in Tables
      /\ k1.fdt = kk.fdt /\ k1.pipes = kk.pipes /\ k1.socks = kk.socks
      /\ k1.descs[d] = v
      /\ \A x \in Descs \ {d} : k1.descs[x] = kk.descs[x]
  <2>1. DescPut(k1, kk, d, v)
    BY <1>1, <1>3, PutDesc
  <2> QED
    BY <1>1, <1>3, <2>1 DEF DescPut
<1>5. /\ \A x \in Descs : k1.descs[x].refs = kk.descs[x].refs + (-1) * One(x = d)
      /\ \A x \in Descs \ {d} : SameObject(kk, k1, x)
      /\ kk.descs[d].refs # 1 => SameObject(kk, k1, d)
      /\ kk.descs[d].refs = 1 => k1.descs[d] = ClearDesc
  BY <1>1, <1>4, TablesParts DEF SameObject, One
<1>6. k2 = CASE de.kind = "PIPE" -> pipe_on_desc_decref(k1, de.obj, de.end)
            [] de.kind \in SockKinds -> sock_decref(k1, de.kind, de.obj)
            [] OTHER -> k1
  <2>1. de.refs # 0
    BY TablesParts DEF InUse
  <2> QED
    BY <1>2, <1>3, <2>1 DEF desc_decref
<1>7. CASE de.kind = "PIPE"
  <2>1. PICK i \in Pipes, e \in Ends : i = de.obj /\ e = de.end /\ d \in EndOf(kk, i, e)
    BY <1>7, TablesParts DEF Backed, EndOf, DescSet
  <2>2. k1.pipes[i].used /\ k1.pipes[i] = kk.pipes[i] /\ kk.pipes[i].refs[e] > 0
    BY <1>4, <2>1 DEF InUse
  <2>3. k2 = pipe_on_desc_decref(k1, i, e)
    <3>1. k2 = pipe_on_desc_decref(k1, de.obj, de.end)
      BY <1>6, <1>7 DEF SockKinds
    <3> QED
      BY <2>1, <3>1
  <2> DEFINE pp == kk.pipes[i]
             n == IF pp.refs[e] > 0 THEN pp.refs[e] - 1 ELSE 0
             q == [pp EXCEPT !.refs[e] = n]
             w == pipe_maybe_free(q)
  <2>4. k2 = WithPipe(k1, i, w)
    <3>1. k2 = [k1 EXCEPT !.pipes[i] = w]
      BY <2>2, <2>3 DEF pipe_on_desc_decref
    <3> QED
      BY <3>1 DEF WithPipe
  <2>5. /\ w \in PipeSet
        /\ \A x \in Ends : w.refs[x] = pp.refs[x] + (-1) * One(x = e)
        /\ w.used <=> \E x \in Ends : w.refs[x] # 0
    <3>1. pp \in PipeSet /\ pp.refs \in [Ends -> Nat] /\ pp.refs[e] - 1 \in Nat
      BY <2>2, TablesParts DEF PipeSet
    <3>2. q = [used |-> pp.used, refs |-> [pp.refs EXCEPT ![e] = @ - 1]]
      BY <2>2, <3>1 DEF PipeSet
    <3>3. [pp.refs EXCEPT ![e] = @ - 1] \in [Ends -> Nat]
      BY <3>1
    <3>4. pp.used \in BOOLEAN /\ pp.used
      BY <2>2, <3>1, <1>4 DEF PipeSet
    <3> HIDE DEF pp
    <3>5. \A x \in Ends : [pp.refs EXCEPT ![e] = @ - 1][x] = pp.refs[x] + (-1) * One(x = e)
      BY <3>1 DEF One
    <3>6. q \in PipeSet /\ q.used /\ q.refs = [pp.refs EXCEPT ![e] = @ - 1]
      BY <3>2, <3>3, <3>4 DEF PipeSet
    <3>7. /\ FreePipe \in PipeSet /\ ~FreePipe.used
          /\ \A x \in Ends : FreePipe.refs[x] = 0
      BY DEF FreePipe, PipeSet
    <3> HIDE DEF q
    <3>8. CASE \A x \in Ends : q.refs[x] = 0
      <4>1. w = FreePipe
        BY <3>8 DEF pipe_maybe_free
      <4> QED
        BY <3>5, <3>6, <3>7, <3>8, <4>1
    <3>9. CASE ~ \A x \in Ends : q.refs[x] = 0
      <4>1. w = q
        BY <3>9 DEF pipe_maybe_free
      <4> QED
        BY <3>5, <3>6, <3>9, <4>1
    <3> QED
      BY <3>8, <3>9
  <2> HIDE DEF w, q, pp
  <2>7. /\ k2 \in Tables
        /\ k2.fdt = kk.fdt /\ k2.descs = k1.descs /\ k2.socks = kk.socks
        /\ k2.pipes[i] = w
        /\ \A x \in Pipes \ {i} : k2.pipes[x] = kk.pipes[x]
    <3>1. PipePut(k2, k1, i, w)
      BY <1>4, <2>4, <2>5, PutPipe
    <3> QED
      BY <1>4, <2>4, <2>5, <3>1 DEF PipePut
  <2>8. \A x \in Pipes, y \in Ends : d \in EndOf(kk, x, y) <=> (x = i /\ y = e)
    BY <2>1 DEF EndOf
  <2>9. \A s \in SockKinds, x \in Socks : d \notin SockOf(kk, s, x)
    BY <1>7 DEF SockOf, SockKinds
  <2>10. ASSUME NEW x \in Pipes, NEW y \in Ends
         PROVE  k2.pipes[x].refs[y] = kk.pipes[x].refs[y] + (-1) * One(d \in EndOf(kk, x, y))
    BY <2>5, <2>7, <2>8, TablesParts DEF One, pp
  <2>11. ASSUME NEW s \in SockKinds, NEW x \in Socks
         PROVE  k2.socks[s][x] = kk.socks[s][x] + (-1) * One(d \in SockOf(kk, s, x))
    BY <2>7, <2>9, TablesParts DEF One
  <2>12. Moved(kk, k2, d, -1)
    BY <1>5, <2>7, <2>10, <2>11 DEF Moved
  <2>13. UsedRight(k2)
    BY <2>5, <2>7 DEF UsedRight
  <2> QED
    BY <1>5, <2>7, <2>12, <2>13 DEF SameObject
<1>8. CASE de.kind \in SockKinds
  <2>1. PICK t \in SockKinds, i \in Socks : t = de.kind /\ i = de.obj /\ d \in SockOf(kk, t, i)
    BY <1>8 DEF Backed, SockOf
  <2>2. k1.socks[t][i] # 0 /\ k1.socks[t][i] = kk.socks[t][i] /\ kk.socks[t][i] > 0
    BY <1>4, <2>1, TablesParts DEF InUse
  <2>3. de.kind # "PIPE"
    BY <1>8 DEF SockKinds
  <2>4. k2 = sock_decref(k1, t, i)
    <3>1. k2 = sock_decref(k1, de.kind, de.obj)
      BY <1>6, <1>8, <2>3
    <3> QED
      BY <2>1, <3>1
  <2>5. k2 = [k1 EXCEPT !.socks[t][i] = @ - 1]
    BY <2>2, <2>4 DEF sock_decref
  <2>6. PICK n \in Nat : n = kk.socks[t][i] - 1
    BY <2>2, TablesParts
  <2>7. k2 = WithSock(k1, t, i, n)
    BY <2>2, <2>5, <2>6 DEF WithSock
  <2>8. /\ k2 \in Tables
        /\ k2.fdt = kk.fdt /\ k2.descs = k1.descs /\ k2.pipes = kk.pipes
        /\ k2.socks[t][i] = n
        /\ \A s \in SockKinds, x \in Socks :
             s # t \/ x # i => k2.socks[s][x] = kk.socks[s][x]
    <3>1. SockPut(k2, k1, t, i, n)
      BY <1>4, <2>7, PutSock
    <3> QED
      BY <1>4, <2>7, <3>1 DEF SockPut
  <2>9. \A s \in SockKinds, x \in Socks : d \in SockOf(kk, s, x) <=> (s = t /\ x = i)
    BY <2>1 DEF SockOf
  <2>10. \A x \in Pipes, y \in Ends : d \notin EndOf(kk, x, y)
    BY <2>3 DEF EndOf
  <2>11. ASSUME NEW x \in Pipes, NEW y \in Ends
         PROVE  k2.pipes[x].refs[y] = kk.pipes[x].refs[y] + (-1) * One(d \in EndOf(kk, x, y))
    BY <2>8, <2>10, TablesParts DEF One
  <2>12. ASSUME NEW s \in SockKinds, NEW x \in Socks
         PROVE  k2.socks[s][x] = kk.socks[s][x] + (-1) * One(d \in SockOf(kk, s, x))
    BY <2>6, <2>8, <2>9, TablesParts DEF One
  <2>13. Moved(kk, k2, d, -1)
    BY <1>5, <2>8, <2>11, <2>12 DEF Moved
  <2>14. UsedRight(k2)
    BY <2>8 DEF UsedRight
  <2> QED
    BY <1>5, <2>8, <2>13, <2>14 DEF SameObject
<1>9. CASE de.kind # "PIPE" /\ de.kind \notin SockKinds
  <2>1. k2 = k1
    BY <1>6, <1>9
  <2>2. \A x \in Pipes, y \in Ends : d \notin EndOf(kk, x, y)
    BY <1>9 DEF EndOf
  <2>3. \A s \in SockKinds, x \in Socks : d \notin SockOf(kk, s, x)
    BY <1>9 DEF SockOf
  <2>4. Moved(kk, k2, d, -1)
    BY <1>4, <1>5, <2>1, <2>2, <2>3, TablesParts DEF Moved, One
  <2>5. UsedRight(k2)
    BY <1>4, <2>1 DEF UsedRight
  <2> QED
    BY <1>4, <1>5, <2>1, <2>4, <2>5
<1> QED
  BY <1>7, <1>8, <1>9

-----------------------------------------------------------------------------
(* Counts and holders.                                                     *)

LEMMA CountedParts ==
    ASSUME FdAssumption, NEW kk, NEW h, Counted(kk, h)
    PROVE  /\ kk \in Tables /\ Backed(kk) /\ UsedRight(kk) /\ h \in Holds
           /\ \A d \in Descs : kk.descs[d].refs = Num(h, {d})
           /\ \A i \in Pipes, e \in Ends : kk.pipes[i].refs[e] = Num(h, EndOf(kk, i, e))
           /\ \A s \in SockKinds, i \in Socks : kk.socks[s][i] = Num(h, SockOf(kk, s, i))
           /\ \A i \in Pipes, e \in Ends : EndOf(kk, i, e) \in SUBSET Descs
           /\ \A s \in SockKinds, i \in Socks : SockOf(kk, s, i) \in SUBSET Descs
BY DEF Counted, DescsCounted, PipesCounted, SocksCounted, UsedRight, EndOf, SockOf

LEMMA HeldInUse ==
    ASSUME FdAssumption, NEW kk, NEW h, Counted(kk, h), NEW t \in Slots, h[t] \in Descs
    PROVE  InUse(kk, h[t])
<1>1. PICK d \in Descs : d = h[t]
  OBVIOUS
<1>2. kk.descs[d].refs > 0
  <2>1. {d} \in SUBSET Descs /\ h[t] \in {d}
    BY <1>1
  <2> QED
    <3>1. h \in Holds /\ kk.descs[d].refs = Num(h, {d})
      BY CountedParts
    <3> QED
      BY <2>1, <3>1, HeldIsCounted
<1>3. ASSUME NEW i \in Pipes, NEW e \in Ends, d \in EndOf(kk, i, e)
      PROVE  kk.pipes[i].used /\ kk.pipes[i].refs[e] > 0
  <2>1. kk.pipes[i].refs[e] > 0
    BY <1>1, <1>3, CountedParts, HeldIsCounted
  <2> QED
    BY <2>1, CountedParts DEF UsedRight
<1>4. ASSUME NEW s \in SockKinds, NEW i \in Socks, d \in SockOf(kk, s, i)
      PROVE  kk.socks[s][i] > 0
  BY <1>1, <1>4, CountedParts, HeldIsCounted
<1> QED
  BY <1>1, <1>2, <1>3, <1>4 DEF InUse

\* A count that is not zero has a holder, one that is zero has none.
LEMMA CountAndHolder ==
    ASSUME FdAssumption, NEW kk, NEW h, Counted(kk, h), NEW d \in Descs
    PROVE  /\ kk.descs[d].refs \in Nat
           /\ kk.descs[d].refs = 0 <=> \A s \in Slots : h[s] # d
<1>1. {d} \in SUBSET Descs
  OBVIOUS
<1>2. h \in Holds /\ kk.descs[d].refs = Num(h, {d})
  BY CountedParts
<1>3. Num(h, {d}) \in Nat /\ (Num(h, {d}) = 0 <=> \A s \in Slots : h[s] \notin {d})
  BY <1>1, <1>2, NumFacts
<1> QED
  BY <1>2, <1>3

LEMMA IncrefCounted ==
    ASSUME FdAssumption, NEW kk, NEW h, Counted(kk, h), NEW s \in Slots, h[s] = None,
           NEW d \in Descs, kk.descs[d].refs # 0,
           NEW k2, k2 = desc_incref(kk, d)
    PROVE  /\ Counted(k2, [h EXCEPT ![s] = d])
           /\ k2.fdt = kk.fdt
           /\ \A x \in Descs : SameObject(kk, k2, x)
<1>1. PICK t \in Slots : h[t] = d
  BY CountAndHolder
<1>2. InUse(kk, d)
  BY <1>1, HeldInUse
<1>3. kk \in Tables /\ Backed(kk) /\ h \in Holds
  BY CountedParts
<1>4. /\ k2 \in Tables /\ k2.fdt = kk.fdt
      /\ Moved(kk, k2, d, 1)
      /\ \A x \in Descs : SameObject(kk, k2, x)
      /\ \A i \in Pipes : k2.pipes[i].used = kk.pipes[i].used
  BY <1>2, <1>3, IncrefParts
<1>5. /\ \A i \in Pipes, e \in Ends : EndOf(k2, i, e) = EndOf(kk, i, e)
      /\ \A y \in SockKinds, i \in Socks : SockOf(k2, y, i) = SockOf(kk, y, i)
      /\ Backed(k2)
  BY <1>3, <1>4 DEF EndOf, SockOf, SameObject, Backed
<1> DEFINE h2 == [h EXCEPT ![s] = d]
<1>6. /\ h2 \in Holds
      /\ \A D \in SUBSET Descs : /\ Num(h2, D) = Num(h, D) + One(d \in D)
                                 /\ Num(h, D) \in Nat
  <2>1. h2 \in Holds
    BY <1>3 DEF Holds
  <2>2. ASSUME NEW D \in SUBSET Descs
        PROVE  Num(h2, D) = Num(h, D) + One(d \in D) /\ Num(h, D) \in Nat
    <3>1. Num(h2, D) = Num(h, D) + (IF d \in D THEN 1 ELSE 0)
      BY <1>3, NumFill
    <3>2. Num(h, D) \in Nat
      BY <1>3, NumFacts
    <3> QED
      BY <3>1, <3>2 DEF One
  <2> QED
    BY <2>1, <2>2
<1> HIDE DEF h2
<1>7. ASSUME NEW x \in Descs PROVE k2.descs[x].refs = Num(h2, {x})
  <2>1. One(d \in {x}) = One(x = d)
    BY DEF One
  <2>2. Num(h2, {x}) = Num(h, {x}) + One(d \in {x}) /\ Num(h, {x}) = kk.descs[x].refs
    BY <1>6, CountedParts
  <2>3. k2.descs[x].refs = kk.descs[x].refs + 1 * One(x = d)
    BY <1>4 DEF Moved
  <2>4. One(x = d) \in Nat
    BY DEF One
  <2> QED
    BY <2>1, <2>2, <2>3, <2>4
<1>8. ASSUME NEW i \in Pipes, NEW e \in Ends
      PROVE  k2.pipes[i].refs[e] = Num(h2, EndOf(k2, i, e))
  <2>1. k2.pipes[i].refs[e] = kk.pipes[i].refs[e] + 1 * One(d \in EndOf(kk, i, e))
    BY <1>4 DEF Moved
  <2>2. /\ Num(h2, EndOf(kk, i, e)) = Num(h, EndOf(kk, i, e)) + One(d \in EndOf(kk, i, e))
        /\ Num(h, EndOf(kk, i, e)) = kk.pipes[i].refs[e]
    BY <1>6, CountedParts
  <2>3. One(d \in EndOf(kk, i, e)) \in Nat
    BY DEF One
  <2> QED
    BY <1>5, <2>1, <2>2, <2>3
<1>9. ASSUME NEW y \in SockKinds, NEW i \in Socks
      PROVE  k2.socks[y][i] = Num(h2, SockOf(k2, y, i))
  <2>1. k2.socks[y][i] = kk.socks[y][i] + 1 * One(d \in SockOf(kk, y, i))
    BY <1>4 DEF Moved
  <2>2. /\ Num(h2, SockOf(kk, y, i)) = Num(h, SockOf(kk, y, i)) + One(d \in SockOf(kk, y, i))
        /\ Num(h, SockOf(kk, y, i)) = kk.socks[y][i]
    BY <1>6, CountedParts
  <2>3. One(d \in SockOf(kk, y, i)) \in Nat
    BY DEF One
  <2> QED
    BY <1>5, <2>1, <2>2, <2>3
<1>10. UsedRight(k2)
  <2>1. ASSUME NEW i \in Pipes, NEW e \in Ends
        PROVE  k2.pipes[i].refs[e] # 0 <=> kk.pipes[i].refs[e] # 0
    <3>1. d \in EndOf(kk, i, e) => kk.pipes[i].refs[e] > 0
      BY <1>2 DEF InUse
    <3> QED
      BY <1>3, <1>4, <3>1, TablesParts DEF Moved, One
  <2>2. UsedRight(kk)
    BY CountedParts
  <2> QED
    BY <1>4, <2>1, <2>2 DEF UsedRight
<1>11. Counted(k2, h2)
  BY <1>4, <1>5, <1>6, <1>7, <1>8, <1>9, <1>10
  DEF Counted, DescsCounted, PipesCounted, SocksCounted, UsedRight
<1> QED
  BY <1>4, <1>11 DEF h2

LEMMA DecrefCounted ==
    ASSUME FdAssumption, NEW kk, NEW h, Counted(kk, h), NEW s \in Slots,
           NEW d \in Descs, h[s] = d,
           NEW k2, k2 = desc_decref(kk, d)
    PROVE  /\ Counted(k2, [h EXCEPT ![s] = None])
           /\ k2.fdt = kk.fdt
           /\ Keeps(kk, k2, [h EXCEPT ![s] = None])
<1>1. InUse(kk, d)
  BY HeldInUse
<1>2. kk \in Tables /\ Backed(kk) /\ UsedRight(kk) /\ h \in Holds
  BY CountedParts
<1>3. /\ k2 \in Tables /\ k2.fdt = kk.fdt
      /\ Moved(kk, k2, d, -1)
      /\ \A x \in Descs \ {d} : SameObject(kk, k2, x)
      /\ kk.descs[d].refs # 1 => SameObject(kk, k2, d)
      /\ kk.descs[d].refs = 1 => k2.descs[d] = ClearDesc
      /\ UsedRight(k2)
  BY <1>1, <1>2, DecrefParts
<1> DEFINE h2 == [h EXCEPT ![s] = None]
<1>4. /\ h2 \in Holds
      /\ \A D \in SUBSET Descs : /\ Num(h2, D) = Num(h, D) - One(d \in D)
                                 /\ Num(h, D) \in Nat
  <2>1. h2 \in Holds
    BY <1>2 DEF Holds
  <2>2. ASSUME NEW D \in SUBSET Descs
        PROVE  Num(h2, D) = Num(h, D) - One(d \in D) /\ Num(h, D) \in Nat
    <3>1. Num(h2, D) = Num(h, D) - (IF h[s] \in D THEN 1 ELSE 0)
      BY <1>2, NumEmpty
    <3>2. Num(h, D) \in Nat
      BY <1>2, NumFacts
    <3> QED
      BY <3>1, <3>2 DEF One
  <2> QED
    BY <2>1, <2>2
<1> HIDE DEF h2
<1>5. ASSUME NEW x \in Descs PROVE k2.descs[x].refs = Num(h2, {x})
  <2>1. One(d \in {x}) = One(x = d)
    BY DEF One
  <2>2. Num(h2, {x}) = Num(h, {x}) - One(d \in {x}) /\ Num(h, {x}) = kk.descs[x].refs
    BY <1>4, CountedParts
  <2>3. k2.descs[x].refs = kk.descs[x].refs + (-1) * One(x = d)
    BY <1>3 DEF Moved
  <2>4. One(x = d) \in Nat /\ kk.descs[x].refs \in Nat
    BY <1>2, TablesParts DEF One
  <2> QED
    BY <2>1, <2>2, <2>3, <2>4
<1>6. kk.descs[d].refs = 1 => \A t \in Slots : h2[t] # d
  <2> SUFFICES ASSUME kk.descs[d].refs = 1 PROVE \A t \in Slots : h2[t] # d
    OBVIOUS
  <2>1. k2.descs[d].refs = 0
    BY <1>3 DEF ClearDesc
  <2>2. Num(h2, {d}) = 0 /\ {d} \in SUBSET Descs
    BY <1>5, <2>1
  <2>3. \A t \in Slots : h2[t] \notin {d}
    BY <1>4, <2>2, NumFacts
  <2> QED
    BY <2>3
<1>7. Keeps(kk, k2, h2)
  BY <1>3, <1>6 DEF Keeps
<1>8. Backed(k2)
  <2>1. ASSUME NEW x \in Descs, SameObject(kk, k2, x)
        PROVE  /\ k2.descs[x].kind = "PIPE" => k2.descs[x].obj \in Pipes
               /\ k2.descs[x].kind \in SockKinds => k2.descs[x].obj \in Socks
    BY <1>2, <2>1 DEF Backed, SameObject
  <2>2. ClearDesc.kind # "PIPE" /\ ClearDesc.kind \notin SockKinds
    BY DEF ClearDesc, SockKinds
  <2>3. ASSUME NEW x \in Descs, ~SameObject(kk, k2, x) PROVE k2.descs[x] = ClearDesc
    BY <1>3, <2>3
  <2> QED
    BY <2>1, <2>2, <2>3 DEF Backed
<1>9. ASSUME NEW i \in Pipes, NEW e \in Ends
      PROVE  k2.pipes[i].refs[e] = Num(h2, EndOf(k2, i, e))
  <2>1. k2.pipes[i].refs[e] = kk.pipes[i].refs[e] + (-1) * One(d \in EndOf(kk, i, e))
    BY <1>3 DEF Moved
  <2>2. /\ Num(h2, EndOf(kk, i, e)) = Num(h, EndOf(kk, i, e)) - One(d \in EndOf(kk, i, e))
        /\ Num(h, EndOf(kk, i, e)) = kk.pipes[i].refs[e]
    BY <1>4, CountedParts
  <2>3. One(d \in EndOf(kk, i, e)) \in Nat /\ kk.pipes[i].refs[e] \in Nat
    BY <1>2, TablesParts DEF One
  <2>4. ASSUME NEW t \in Slots
        PROVE  h2[t] \in EndOf(k2, i, e) <=> h2[t] \in EndOf(kk, i, e)
    <3>1. h2[t] \in Descs => SameObject(kk, k2, h2[t])
      BY <1>7 DEF Keeps
    <3> QED
      BY <3>1 DEF EndOf, SameObject
  <2>5. Num(h2, EndOf(k2, i, e)) = Num(h2, EndOf(kk, i, e))
    BY <2>4, SameNum
  <2> QED
    BY <2>1, <2>2, <2>3, <2>5
<1>10. ASSUME NEW y \in SockKinds, NEW i \in Socks
       PROVE  k2.socks[y][i] = Num(h2, SockOf(k2, y, i))
  <2>1. k2.socks[y][i] = kk.socks[y][i] + (-1) * One(d \in SockOf(kk, y, i))
    BY <1>3 DEF Moved
  <2>2. /\ Num(h2, SockOf(kk, y, i)) = Num(h, SockOf(kk, y, i)) - One(d \in SockOf(kk, y, i))
        /\ Num(h, SockOf(kk, y, i)) = kk.socks[y][i]
    BY <1>4, CountedParts
  <2>3. One(d \in SockOf(kk, y, i)) \in Nat /\ kk.socks[y][i] \in Nat
    BY <1>2, TablesParts DEF One
  <2>4. ASSUME NEW t \in Slots
        PROVE  h2[t] \in SockOf(k2, y, i) <=> h2[t] \in SockOf(kk, y, i)
    <3>1. h2[t] \in Descs => SameObject(kk, k2, h2[t])
      BY <1>7 DEF Keeps
    <3> QED
      BY <3>1 DEF SockOf, SameObject
  <2>5. Num(h2, SockOf(k2, y, i)) = Num(h2, SockOf(kk, y, i))
    BY <2>4, SameNum
  <2> QED
    BY <2>1, <2>2, <2>3, <2>5
<1>11. Counted(k2, h2)
  BY <1>3, <1>4, <1>5, <1>8, <1>9, <1>10
  DEF Counted, DescsCounted, PipesCounted, SocksCounted, UsedRight
<1> QED
  BY <1>3, <1>7, <1>11 DEF h2

\* A new description, of which the slot s has the only reference.
LEMMA NewDescCounted ==
    ASSUME FdAssumption, NEW kk, NEW h, Counted(kk, h), NEW s \in Slots, h[s] = None,
           NEW d \in Descs, kk.descs[d].refs = 0,
           NEW k2 \in Tables, k2.descs[d].refs = 1, Backed(k2), UsedRight(k2),
           \A x \in Descs \ {d} : k2.descs[x] = kk.descs[x],
           \A i \in Pipes, e \in Ends :
              k2.pipes[i].refs[e] = kk.pipes[i].refs[e] + One(d \in EndOf(k2, i, e)),
           \A t \in SockKinds, i \in Socks :
              k2.socks[t][i] = kk.socks[t][i] + One(d \in SockOf(k2, t, i))
    PROVE  /\ Counted(k2, [h EXCEPT ![s] = d])
           /\ Keeps(kk, k2, h)
<1>1. h \in Holds /\ \A t \in Slots : h[t] # d
  BY CountedParts, CountAndHolder
<1> DEFINE h2 == [h EXCEPT ![s] = d]
<1>2. /\ h2 \in Holds
      /\ \A D \in SUBSET Descs : /\ Num(h2, D) = Num(h, D) + One(d \in D)
                                 /\ Num(h, D) \in Nat
  <2>1. h2 \in Holds
    BY <1>1 DEF Holds
  <2>2. ASSUME NEW D \in SUBSET Descs
        PROVE  Num(h2, D) = Num(h, D) + One(d \in D) /\ Num(h, D) \in Nat
    <3>1. Num(h2, D) = Num(h, D) + (IF d \in D THEN 1 ELSE 0)
      BY <1>1, NumFill
    <3>2. Num(h, D) \in Nat
      BY <1>1, NumFacts
    <3> QED
      BY <3>1, <3>2 DEF One
  <2> QED
    BY <2>1, <2>2
<1> HIDE DEF h2
<1>3. ASSUME NEW t \in Slots, h[t] \in Descs PROVE k2.descs[h[t]] = kk.descs[h[t]]
  BY <1>1, <1>3
<1>4. Keeps(kk, k2, h)
  BY <1>3 DEF Keeps, SameObject
<1>5. ASSUME NEW x \in Descs PROVE k2.descs[x].refs = Num(h2, {x})
  <2>1. {x} \in SUBSET Descs
    OBVIOUS
  <2>2. Num(h2, {x}) = Num(h, {x}) + One(d \in {x}) /\ Num(h, {x}) \in Nat
    BY <1>2, <2>1
  <2>3. Num(h, {x}) = kk.descs[x].refs
    BY CountedParts
  <2>4. CASE x = d
    BY <2>2, <2>3, <2>4 DEF One
  <2>5. CASE x # d
    <3>1. k2.descs[x].refs = kk.descs[x].refs
      BY <2>5
    <3> QED
      BY <2>2, <2>3, <2>5, <3>1 DEF One
  <2> QED
    BY <2>4, <2>5
<1>6. ASSUME NEW i \in Pipes, NEW e \in Ends
      PROVE  k2.pipes[i].refs[e] = Num(h2, EndOf(k2, i, e))
  <2>1. EndOf(k2, i, e) \in SUBSET Descs
    BY DEF EndOf
  <2>2. ASSUME NEW t \in Slots PROVE h[t] \in EndOf(k2, i, e) <=> h[t] \in EndOf(kk, i, e)
    BY <1>3 DEF EndOf
  <2>3. Num(h, EndOf(k2, i, e)) = Num(h, EndOf(kk, i, e))
    BY <2>2, SameNum
  <2>4. Num(h, EndOf(kk, i, e)) = kk.pipes[i].refs[e]
    BY CountedParts
  <2>5. Num(h2, EndOf(k2, i, e)) = Num(h, EndOf(k2, i, e)) + One(d \in EndOf(k2, i, e))
    BY <1>2, <2>1
  <2> QED
    BY <2>3, <2>4, <2>5
<1>7. ASSUME NEW y \in SockKinds, NEW i \in Socks
      PROVE  k2.socks[y][i] = Num(h2, SockOf(k2, y, i))
  <2>1. SockOf(k2, y, i) \in SUBSET Descs
    BY DEF SockOf
  <2>2. ASSUME NEW t \in Slots PROVE h[t] \in SockOf(k2, y, i) <=> h[t] \in SockOf(kk, y, i)
    BY <1>3 DEF SockOf
  <2>3. Num(h, SockOf(k2, y, i)) = Num(h, SockOf(kk, y, i))
    BY <2>2, SameNum
  <2>4. Num(h, SockOf(kk, y, i)) = kk.socks[y][i]
    BY CountedParts
  <2>5. Num(h2, SockOf(k2, y, i)) = Num(h, SockOf(k2, y, i)) + One(d \in SockOf(k2, y, i))
    BY <1>2, <2>1
  <2> QED
    BY <2>3, <2>4, <2>5
<1>8. Counted(k2, h2)
  BY <1>2, <1>5, <1>6, <1>7 DEF Counted, DescsCounted, PipesCounted, SocksCounted, UsedRight
<1> QED
  BY <1>4, <1>8 DEF h2

-----------------------------------------------------------------------------
(* Counts, holders and the descriptor tables.                              *)

Agrees(kk, h) == \A p \in Procs, f \in Fds : h[<<p, f>>] = kk.fdt[p][f]

\* Who holds what does not depend on the descriptor tables.
LEMMA FdsDoNotCount ==
    ASSUME NEW kk, NEW h, Counted(kk, h), NEW k2 \in Tables,
           k2.descs = kk.descs, k2.pipes = kk.pipes, k2.socks = kk.socks
    PROVE  Counted(k2, h) /\ \A x \in Descs : SameObject(kk, k2, x)
BY DEF Counted, Backed, DescsCounted, PipesCounted, SocksCounted, EndOf, SockOf, SameObject

LEMMA CloseFd ==
    ASSUME FdAssumption, NEW kk, NEW h, Counted(kk, h), Agrees(kk, h),
           NEW p \in Procs, NEW f \in Fds, NEW k2, k2 = fd_close(kk, p, f)
    PROVE  /\ Counted(k2, [h EXCEPT ![<<p, f>>] = None])
           /\ Agrees(k2, [h EXCEPT ![<<p, f>>] = None])
           /\ Keeps(kk, k2, [h EXCEPT ![<<p, f>>] = None])
<1> DEFINE h2 == [h EXCEPT ![<<p, f>>] = None]
           d == kk.fdt[p][f]
<1>1. PICK s \in Slots : s = <<p, f>>
  BY SlotFacts
<1>2. kk \in Tables /\ h \in Holds /\ h[s] = d /\ d \in Descs \cup {None}
  BY <1>1, CountedParts, TablesParts DEF Agrees
<1>3. CASE d = None
  <2>1. k2 = kk /\ h2 = h
    BY <1>1, <1>2, <1>3 DEF fd_close, Holds
  <2> QED
    BY <2>1 DEF Keeps, SameObject
<1>4. CASE d \in Descs
  <2>1. d # None
    BY <1>4, NoneIsNone
  <2>2. PICK k1 : k1 = WithFd(kk, p, f, None)
    OBVIOUS
  <2>3. k2 = desc_decref(k1, d)
    BY <2>1, <2>2 DEF fd_close, WithFd
  <2>4. /\ k1 \in Tables
        /\ k1.descs = kk.descs /\ k1.pipes = kk.pipes /\ k1.socks = kk.socks
        /\ k1.fdt[p][f] = None
        /\ \A q \in Procs, g \in Fds : q # p \/ g # f => k1.fdt[q][g] = kk.fdt[q][g]
    <3>1. FdPut(k1, kk, p, f, None)
      BY <1>2, <2>2, PutFd
    <3> QED
      BY <1>2, <2>2, <3>1 DEF FdPut
  <2>5. Counted(k1, h) /\ \A x \in Descs : SameObject(kk, k1, x)
    BY <2>4, FdsDoNotCount
  <2>6. PICK x \in Descs : x = d
    BY <1>4
  <2>7. /\ Counted(k2, [h EXCEPT ![s] = None])
        /\ k2.fdt = k1.fdt
        /\ Keeps(k1, k2, [h EXCEPT ![s] = None])
    BY <1>2, <2>3, <2>5, <2>6, DecrefCounted
  <2>8. Agrees(k2, h2)
    <3>1. ASSUME NEW q \in Procs, NEW g \in Fds PROVE h2[<<q, g>>] = k2.fdt[q][g]
      <4>1. <<q, g>> \in Slots
        BY SlotFacts
      <4>2. h[<<q, g>>] = kk.fdt[q][g]
        BY DEF Agrees
      <4> QED
        BY <1>1, <1>2, <2>4, <2>7, <4>1, <4>2 DEF Holds
    <3> QED
      BY <3>1 DEF Agrees
  <2>9. Keeps(kk, k2, h2)
    BY <1>1, <2>5, <2>7 DEF Keeps, SameObject
  <2> QED
    BY <1>1, <2>7, <2>8, <2>9
<1> QED
  BY <1>2, <1>3, <1>4

-----------------------------------------------------------------------------
(* Scans of a table.                                                       *)

LEMMA Before ==
    \E R : IsWellFoundedOn(R, Nat) /\ \A x, y \in Nat : y < x => <<y, x>> \in R
<1>1. ASSUME NEW x \in Nat, NEW y \in Nat, y < x PROVE <<y, x>> \in OpToRel(<, Nat)
  <2>1. <<y, x>> \in Nat \X Nat
    OBVIOUS
  <2>2. <<y, x>>[1] < <<y, x>>[2]
    BY <1>1
  <2> QED
    BY <2>1, <2>2, Zenon DEF OpToRel
<1>2. IsWellFoundedOn(OpToRel(<, Nat), Nat)
  BY NatLessThanWellFounded, Zenon
<1> QED
  BY <1>1, <1>2, Zenon

\* A set of numbers has a least one, which is what a scan finds.
LEMMA LeastNumber ==
    ASSUME NEW S \in SUBSET Nat, S # {}
    PROVE  \E x \in S : \A y \in S : x <= y
<1>1. PICK R : IsWellFoundedOn(R, Nat) /\ \A x, y \in Nat : y < x => <<y, x>> \in R
  BY Before
<1>2. PICK x \in S : \A y \in S : ~(<<y, x>> \in R)
  BY <1>1, WFMin
<1>3. ASSUME NEW y \in S PROVE x <= y
  <2>1. x \in Nat /\ y \in Nat
    OBVIOUS
  <2>2. y < x => <<y, x>> \in R
    BY <1>1, <2>1, Zenon
  <2> QED
    BY <1>2, <2>1, <2>2
<1> QED
  BY <1>3

LEMMA LowestIn ==
    ASSUME NEW S \in SUBSET Nat, S # {}
    PROVE  Lowest(S) \in S /\ \A y \in S : Lowest(S) <= y
BY LeastNumber DEF Lowest

\* What holds of 0 and of n + 1 when it holds of n < N holds up to N.
LEMMA CountsUp ==
    ASSUME NEW N \in Nat, NEW S, 0 \in S, \A n \in 0 .. N - 1 : n \in S => n + 1 \in S
    PROVE  0 .. N \subseteq S
<1> SUFFICES ASSUME ~(0 .. N \subseteq S) PROVE FALSE
  OBVIOUS
<1>1. (0 .. N) \ S \in SUBSET Nat /\ (0 .. N) \ S # {}
  OBVIOUS
<1>2. PICK x \in (0 .. N) \ S : \A y \in (0 .. N) \ S : x <= y
  BY <1>1, LeastNumber
<1>3. x # 0 /\ x \in Nat /\ x <= N
  BY <1>2
<1>4. x - 1 \in 0 .. N - 1 /\ x - 1 \in 0 .. N
  BY <1>3
<1>5. x - 1 \in S
  BY <1>2, <1>3, <1>4
<1> QED
  BY <1>2, <1>3, <1>4, <1>5

LEMMA FreeFdFree ==
    ASSUME NEW kk, NEW p, NEW min, NEW f, f = FreeFd(kk, p, min)
    PROVE  f = None \/ (f \in Fds /\ kk.fdt[p][f] = None /\ f # None)
<1> DEFINE S == {g \in Fds : g >= min /\ kk.fdt[p][g] = None}
<1>1. CASE S = {}
  BY <1>1 DEF FreeFd, LowestOrNone
<1>2. CASE S # {}
  <2>1. S \in SUBSET Nat
    BY DEF Fds
  <2>2. Lowest(S) \in S
    BY <1>2, <2>1, LowestIn
  <2>3. f = Lowest(S)
    BY <1>2 DEF FreeFd, LowestOrNone
  <2> QED
    BY <2>2, <2>3, NoneIsNone
<1> QED
  BY <1>1, <1>2

LEMMA FreeDesc ==
    ASSUME NEW kk, NEW d, d = desc_alloc(kk), d # None
    PROVE  d \in Descs /\ kk.descs[d].refs = 0
<1> DEFINE S == {x \in Descs : kk.descs[x].refs = 0}
<1>1. S # {}
  BY DEF desc_alloc, LowestOrNone
<1>2. S \in SUBSET Nat
  BY DEF Descs
<1>3. Lowest(S) \in S
  BY <1>1, <1>2, LowestIn
<1>4. d = Lowest(S)
  BY <1>1 DEF desc_alloc, LowestOrNone
<1> QED
  BY <1>3, <1>4

-----------------------------------------------------------------------------
(* fd_alloc_into and Install.                                              *)

\* Who holds what after fd_alloc_into.
Given(kk, h, p, min, d) ==
    IF FreeFd(kk, p, min) = None THEN h ELSE [h EXCEPT ![<<p, FreeFd(kk, p, min)>>] = d]

LEMMA AllocFd ==
    ASSUME FdAssumption, NEW kk, NEW h, Counted(kk, h), Agrees(kk, h),
           NEW p \in Procs, NEW min, NEW d \in Descs, kk.descs[d].refs # 0,
           NEW k2, k2 = fd_alloc_into(kk, p, min, d)
    PROVE  /\ Counted(k2, Given(kk, h, p, min, d))
           /\ Agrees(k2, Given(kk, h, p, min, d))
           /\ \A x \in Descs : SameObject(kk, k2, x)
           /\ \A q \in Procs, g \in Fds :
                 k2.fdt[q][g] = IF q = p /\ g = FreeFd(kk, p, min) THEN d ELSE kk.fdt[q][g]
<1>1. PICK f : f = FreeFd(kk, p, min)
  OBVIOUS
<1>2. f = None \/ (f \in Fds /\ kk.fdt[p][f] = None /\ f # None)
  BY <1>1, FreeFdFree
<1>3. kk \in Tables /\ h \in Holds
  BY CountedParts
<1>4. CASE f = None
  <2>1. k2 = kk /\ Given(kk, h, p, min, d) = h
    BY <1>1, <1>4 DEF fd_alloc_into, Given
  <2> QED
    BY <1>1, <1>4, <2>1, NoneIsNone DEF SameObject
<1>5. CASE f \in Fds /\ kk.fdt[p][f] = None /\ f # None
  <2>1. PICK s \in Slots : s = <<p, f>>
    BY <1>5, SlotFacts
  <2>2. PICK h2 : h2 = [h EXCEPT ![s] = d]
    OBVIOUS
  <2>3. h2 = Given(kk, h, p, min, d)
    BY <1>1, <1>5, <2>1, <2>2 DEF Given
  <2>4. PICK k1 : k1 = WithFd(kk, p, f, d)
    OBVIOUS
  <2>5. k2 = desc_incref(k1, d)
    BY <1>1, <1>5, <2>4 DEF fd_alloc_into, WithFd
  <2>6. /\ k1 \in Tables
        /\ k1.descs = kk.descs /\ k1.pipes = kk.pipes /\ k1.socks = kk.socks
        /\ k1.fdt[p][f] = d
        /\ \A q \in Procs, g \in Fds : q # p \/ g # f => k1.fdt[q][g] = kk.fdt[q][g]
    <3>1. FdPut(k1, kk, p, f, d)
      BY <1>3, <1>5, <2>4, PutFd
    <3> QED
      BY <1>3, <1>5, <2>4, <3>1 DEF FdPut
  <2>7. Counted(k1, h) /\ \A x \in Descs : SameObject(kk, k1, x)
    BY <2>6, FdsDoNotCount
  <2>8. h[s] = None /\ k1.descs[d].refs # 0
    BY <1>5, <2>1, <2>6 DEF Agrees
  <2>9. /\ Counted(k2, [h EXCEPT ![s] = d])
        /\ k2.fdt = k1.fdt
        /\ \A x \in Descs : SameObject(k1, k2, x)
    BY <2>5, <2>7, <2>8, IncrefCounted
  <2>10. Agrees(k2, h2)
    <3>1. ASSUME NEW q \in Procs, NEW g \in Fds PROVE h2[<<q, g>>] = k2.fdt[q][g]
      <4>1. <<q, g>> \in Slots
        BY SlotFacts
      <4>2. h[<<q, g>>] = kk.fdt[q][g]
        BY DEF Agrees
      <4> QED
        BY <1>3, <2>1, <2>2, <2>6, <2>9, <4>1, <4>2 DEF Holds
    <3> QED
      BY <3>1 DEF Agrees
  <2>11. \A x \in Descs : SameObject(kk, k2, x)
    BY <2>7, <2>9 DEF SameObject
  <2> QED
    BY <1>1, <2>2, <2>3, <2>6, <2>9, <2>10, <2>11
<1> QED
  BY <1>2, <1>4, <1>5

\* Between calls: every reference is a descriptor's.
Settled(kk, h) ==
    /\ Counted(kk, h) /\ Agrees(kk, h)
    /\ h[Spare1] = None /\ h[Spare2] = None

\* What is held by a call alone does not concern the descriptor tables.
LEMMA AgreesSpare ==
    ASSUME FdAssumption, NEW kk, NEW h \in Holds, Agrees(kk, h),
           NEW sp, sp = Spare1 \/ sp = Spare2, NEW v
    PROVE  Agrees(kk, [h EXCEPT ![sp] = v])
<1>1. ASSUME NEW q \in Procs, NEW g \in Fds PROVE [h EXCEPT ![sp] = v][<<q, g>>] = kk.fdt[q][g]
  <2>1. <<q, g>> \in Slots /\ <<q, g>> # sp
    BY SlotFacts
  <2>2. h[<<q, g>>] = kk.fdt[q][g]
    BY DEF Agrees
  <2> QED
    BY <2>1, <2>2 DEF Holds
<1> QED
  BY <1>1 DEF Agrees

\* A call drops a reference of its own.
LEMMA DropSpare ==
    ASSUME FdAssumption, NEW kk, NEW h, Counted(kk, h), Agrees(kk, h),
           NEW sp, sp = Spare1 \/ sp = Spare2, NEW d \in Descs, h[sp] = d,
           NEW k2, k2 = desc_decref(kk, d)
    PROVE  /\ Counted(k2, [h EXCEPT ![sp] = None])
           /\ Agrees(k2, [h EXCEPT ![sp] = None])
           /\ k2.fdt = kk.fdt
           /\ Keeps(kk, k2, [h EXCEPT ![sp] = None])
<1>1. PICK s \in Slots : s = sp
  BY SlotFacts
<1>2. /\ Counted(k2, [h EXCEPT ![s] = None])
      /\ k2.fdt = kk.fdt
      /\ Keeps(kk, k2, [h EXCEPT ![s] = None])
  BY <1>1, DecrefCounted
<1>3. h \in Holds
  BY CountedParts
<1>4. Agrees(kk, [h EXCEPT ![sp] = None])
  BY <1>3, AgreesSpare
<1>5. Agrees(k2, [h EXCEPT ![sp] = None])
  BY <1>2, <1>4 DEF Agrees
<1> QED
  BY <1>1, <1>2, <1>5

Holding(h, s, v) == [h EXCEPT ![s] = v]
Filled(h, p, f, v) == IF f = None THEN h ELSE Holding(h, <<p, f>>, v)

\* A new description is given a descriptor, and its first reference dropped.
LEMMA InstallSettles ==
    ASSUME FdAssumption, NEW kk, NEW h \in Holds, h[Spare1] = None, h[Spare2] = None,
           NEW d \in Descs, Counted(kk, Holding(h, Spare1, d)), Agrees(kk, h),
           NEW p \in Procs, NEW min, NEW f, f = FreeFd(kk, p, min),
           NEW k2, k2 = desc_decref(fd_alloc_into(kk, p, min, d), d)
    PROVE  /\ Settled(k2, Filled(h, p, f, d))
           /\ Keeps(kk, k2, h)
           /\ \A q \in Procs, g \in Fds :
                 k2.fdt[q][g] = IF q = p /\ g = f THEN d ELSE kk.fdt[q][g]
<1>1. PICK h1 : h1 = [h EXCEPT ![Spare1] = d]
  OBVIOUS
<1>2. Counted(kk, h1) /\ Agrees(kk, h1) /\ h1[Spare1] = d /\ h1[Spare2] = None
  BY <1>1, AgreesSpare, SlotFacts DEF Holds, Holding
<1>3. kk.descs[d].refs # 0
  BY <1>2, CountAndHolder, SlotFacts
<1>4. PICK k1 : k1 = fd_alloc_into(kk, p, min, d)
  OBVIOUS
<1>5. PICK h2 : h2 = Given(kk, h1, p, min, d)
  OBVIOUS
<1>6. /\ Counted(k1, h2) /\ Agrees(k1, h2)
      /\ \A x \in Descs : SameObject(kk, k1, x)
      /\ \A q \in Procs, g \in Fds :
            k1.fdt[q][g] = IF q = p /\ g = f THEN d ELSE kk.fdt[q][g]
  BY <1>2, <1>3, <1>4, <1>5, AllocFd
<1>7. f = None \/ (f \in Fds /\ kk.fdt[p][f] = None /\ f # None)
  BY FreeFdFree
<1>8. h2 = IF f = None THEN h1 ELSE [h1 EXCEPT ![<<p, f>>] = d]
  BY <1>5 DEF Given
<1>9. h2[Spare1] = d /\ h2[Spare2] = None
  BY <1>1, <1>2, <1>7, <1>8, SlotFacts DEF Holds
<1>10. PICK h3 : h3 = [h2 EXCEPT ![Spare1] = None]
  OBVIOUS
<1>11. /\ Counted(k2, h3) /\ Agrees(k2, h3) /\ k2.fdt = k1.fdt /\ Keeps(k1, k2, h3)
  <2>1. PICK sp : sp = Spare1
    OBVIOUS
  <2>2. h2[sp] = d /\ k2 = desc_decref(k1, d)
    BY <1>4, <1>9, <2>1
  <2>3. /\ Counted(k2, [h2 EXCEPT ![sp] = None])
        /\ Agrees(k2, [h2 EXCEPT ![sp] = None])
        /\ k2.fdt = k1.fdt
        /\ Keeps(k1, k2, [h2 EXCEPT ![sp] = None])
    BY <1>6, <2>1, <2>2, DropSpare
  <2> QED
    BY <1>10, <2>1, <2>3
<1>12. h3 = IF f = None THEN h ELSE [h EXCEPT ![<<p, f>>] = d]
  <2>1. CASE f = None
    BY <1>1, <1>8, <1>10, <2>1, SlotFacts DEF Holds
  <2>2. CASE f \in Fds /\ f # None
    <3>1. PICK s \in Slots : s = <<p, f>> /\ s # Spare1
      BY <2>2, SlotFacts
    <3>2. h3 = [[[h EXCEPT ![Spare1] = d] EXCEPT ![s] = d] EXCEPT ![Spare1] = None]
      BY <1>1, <1>8, <1>10, <2>2, <3>1
    <3>3. h3 = [h EXCEPT ![s] = d]
      BY <3>1, <3>2, SlotFacts DEF Holds
    <3> QED
      BY <2>2, <3>1, <3>3
  <2> QED
    BY <1>7, <2>1, <2>2
<1>13. h3[Spare1] = None /\ h3[Spare2] = None
  BY <1>9, <1>10, <1>6, CountedParts, SlotFacts DEF Holds
<1>14. Keeps(kk, k2, h)
  <2>1. ASSUME NEW s \in Slots, h[s] \in Descs PROVE SameObject(kk, k2, h[s])
    <3>1. h3[s] = h[s]
      <4>1. CASE f = None
        BY <1>12, <4>1
      <4>2. CASE f \in Fds /\ kk.fdt[p][f] = None /\ f # None
        <5>1. h[<<p, f>>] = None
          BY <4>2 DEF Agrees
        <5>2. s # <<p, f>>
          BY <2>1, <5>1, NoneIsNone
        <5> QED
          BY <1>12, <4>2, <5>2 DEF Holds
      <4> QED
        BY <1>7, <4>1, <4>2
    <3>2. SameObject(k1, k2, h[s])
      BY <1>11, <2>1, <3>1 DEF Keeps
    <3> QED
      BY <1>6, <2>1, <3>2 DEF SameObject
  <2> QED
    BY <2>1 DEF Keeps
<1> QED
  BY <1>6, <1>11, <1>12, <1>13, <1>14 DEF Settled, Filled, Holding

-----------------------------------------------------------------------------
(* Calls.                                                                  *)

\* A call of p has at most filled the descriptor f, which was free.
Gained(kk, k2, h, p, f) ==
    \E v \in Descs \cup {None} :
        /\ Settled(k2, Filled(h, p, f, v))
        /\ Keeps(kk, k2, h)
        /\ \A q \in Procs, g \in Fds : q # p \/ g # f => k2.fdt[q][g] = kk.fdt[q][g]

LEMMA SettledParts ==
    ASSUME FdAssumption, NEW kk, NEW h, Settled(kk, h)
    PROVE  /\ Counted(kk, h) /\ Agrees(kk, h) /\ h \in Holds
           /\ h[Spare1] = None /\ h[Spare2] = None
           /\ kk \in Tables /\ Backed(kk) /\ UsedRight(kk)
BY CountedParts DEF Settled

LEMMA OpenGains ==
    ASSUME FdAssumption, NEW kk, NEW h, Settled(kk, h), NEW p \in Procs,
           NEW d, d = desc_alloc(kk), d # None,
           NEW k2, k2 = Install(kk, p, StdFds, d, Desc("FILE", 0, "read"))
    PROVE  Gained(kk, k2, h, p, FreeFd(kk, p, StdFds))
<1>1. d \in Descs /\ kk.descs[d].refs = 0
  BY FreeDesc
<1>2. /\ Counted(kk, h) /\ Agrees(kk, h) /\ h \in Holds /\ h[Spare1] = None /\ h[Spare2] = None
      /\ kk \in Tables /\ Backed(kk) /\ UsedRight(kk)
  BY SettledParts
<1>3. PICK v : v = Desc("FILE", 0, "read")
  OBVIOUS
<1>4. v \in DescSet /\ v.refs = 1 /\ v.kind = "FILE"
  BY <1>3 DEF Desc, DescSet, Kinds, Ends
<1>5. PICK k1 : k1 = WithDesc(kk, d, v)
  OBVIOUS
<1>6. /\ k1 \in Tables
      /\ k1.fdt = kk.fdt /\ k1.pipes = kk.pipes /\ k1.socks = kk.socks
      /\ k1.descs[d] = v
      /\ \A x \in Descs \ {d} : k1.descs[x] = kk.descs[x]
  <2>1. DescPut(k1, kk, d, v)
    BY <1>1, <1>2, <1>4, <1>5, PutDesc
  <2> QED
    BY <1>1, <1>2, <1>4, <1>5, <2>1 DEF DescPut
<1>7. Backed(k1) /\ UsedRight(k1)
  BY <1>2, <1>4, <1>6 DEF Backed, UsedRight, SockKinds
<1>8. \A i \in Pipes, e \in Ends :
        k1.pipes[i].refs[e] = kk.pipes[i].refs[e] + One(d \in EndOf(k1, i, e))
  BY <1>2, <1>4, <1>6, TablesParts DEF EndOf, One
<1>9. \A t \in SockKinds, i \in Socks :
        k1.socks[t][i] = kk.socks[t][i] + One(d \in SockOf(k1, t, i))
  BY <1>2, <1>4, <1>6, TablesParts DEF SockOf, One, SockKinds
<1>10. PICK sp \in Slots : sp = Spare1
  BY SlotFacts
<1>11. Counted(k1, [h EXCEPT ![sp] = d]) /\ Keeps(kk, k1, h)
  BY <1>1, <1>2, <1>4, <1>6, <1>7, <1>8, <1>9, <1>10, NewDescCounted
<1>12. Agrees(k1, h)
  BY <1>2, <1>6 DEF Agrees
<1>13. PICK f : f = FreeFd(kk, p, StdFds)
  OBVIOUS
<1>14. f = FreeFd(k1, p, StdFds)
  BY <1>6, <1>13 DEF FreeFd
<1>15. k2 = desc_decref(fd_alloc_into(k1, p, StdFds, d), d)
  BY <1>3, <1>5 DEF Install, WithDesc
<1>16. /\ Settled(k2, Filled(h, p, f, d))
       /\ Keeps(k1, k2, h)
       /\ \A q \in Procs, g \in Fds :
             k2.fdt[q][g] = IF q = p /\ g = f THEN d ELSE k1.fdt[q][g]
  <2>1. Counted(k1, Holding(h, Spare1, d))
    BY <1>10, <1>11 DEF Holding
  <2> QED
    BY <1>1, <1>2, <1>12, <1>14, <1>15, <2>1, InstallSettles
<1>17. Keeps(kk, k2, h)
  BY <1>11, <1>16 DEF Keeps, SameObject
<1> QED
  BY <1>1, <1>6, <1>13, <1>16, <1>17 DEF Gained

LEMMA SocketGains ==
    ASSUME FdAssumption, NEW kk, NEW h, Settled(kk, h), NEW p \in Procs,
           NEW s \in SockKinds, \E j \in Socks : kk.socks[s][j] = 0,
           NEW k2, k2 = SocketInstalled(kk, p, s)
    PROVE  Gained(kk, k2, h, p, FreeFd(kk, p, 0))
<1>1. PICK i : i = Lowest({j \in Socks : kk.socks[s][j] = 0})
  OBVIOUS
<1>2. i \in Socks /\ kk.socks[s][i] = 0
  <2>1. {j \in Socks : kk.socks[s][j] = 0} \in SUBSET Nat
    BY DEF Socks
  <2>2. i \in {j \in Socks : kk.socks[s][j] = 0}
    BY <1>1, <2>1, LowestIn
  <2> QED
    BY <2>2
<1>3. /\ Counted(kk, h) /\ Agrees(kk, h) /\ h \in Holds /\ h[Spare1] = None /\ h[Spare2] = None
      /\ kk \in Tables /\ Backed(kk) /\ UsedRight(kk)
  BY SettledParts
<1>4. PICK f : f = FreeFd(kk, p, 0)
  OBVIOUS
<1>5. f = None \/ (f \in Fds /\ kk.fdt[p][f] = None /\ f # None)
  BY <1>4, FreeFdFree
<1>6. PICK ka : ka = WithSock(kk, s, i, 1)
  OBVIOUS
<1>7. /\ ka \in Tables
      /\ ka.fdt = kk.fdt /\ ka.descs = kk.descs /\ ka.pipes = kk.pipes
      /\ ka.socks[s][i] = 1
      /\ \A t \in SockKinds, x \in Socks :
            t # s \/ x # i => ka.socks[t][x] = kk.socks[t][x]
  <2>1. SockPut(ka, kk, s, i, 1)
    BY <1>2, <1>3, <1>6, PutSock
  <2> QED
    BY <1>2, <1>3, <1>6, <2>1 DEF SockPut
<1>8. PICK d : d = desc_alloc(kk)
  OBVIOUS
<1>9. CASE d = None
  <2>1. k2 = sock_decref(ka, s, i)
    BY <1>1, <1>6, <1>8, <1>9 DEF SocketInstalled, WithSock
  <2>2. k2 = [ka EXCEPT !.socks[s][i] = @ - 1]
    BY <1>7, <2>1 DEF sock_decref
  <2>3. ka.socks[s][i] - 1 = 0
    BY <1>7
  <2>4. k2 = WithSock(ka, s, i, 0)
    BY <2>2, <2>3 DEF WithSock
  <2>5. k2 = kk
    <3>1. /\ k2 \in Tables
          /\ k2.fdt = ka.fdt /\ k2.descs = ka.descs /\ k2.pipes = ka.pipes
          /\ k2.socks[s][i] = 0
          /\ \A t \in SockKinds, x \in Socks :
                t # s \/ x # i => k2.socks[t][x] = ka.socks[t][x]
      <4>1. ka \in Tables
        BY <1>7
      <4>2. SockPut(k2, ka, s, i, 0)
        BY <1>2, <2>4, <4>1, PutSock
      <4> QED
        BY <1>7, <4>2 DEF SockPut
    <3>2. \A t \in SockKinds, x \in Socks : k2.socks[t][x] = kk.socks[t][x]
      BY <1>2, <1>7, <3>1
    <3>3. k2.socks = kk.socks
      BY <1>3, <3>1, <3>2, TablesParts
    <3> QED
      BY <1>3, <1>7, <3>1, <3>3, TablesEqual
  <2>6. Filled(h, p, f, None) = h
    BY <1>3, <1>5, SlotFacts DEF Agrees, Holds, Filled, Holding
  <2>7. Settled(k2, Filled(h, p, f, None))
    BY <2>5, <2>6
  <2> QED
    BY <1>4, <2>5, <2>7 DEF Gained, Keeps, SameObject
<1>10. CASE d # None
  <2>1. d \in Descs /\ kk.descs[d].refs = 0
    BY <1>8, <1>10, FreeDesc
  <2>2. PICK v : v = Desc(s, i, "read")
    OBVIOUS
  <2>3. v \in DescSet /\ v.refs = 1 /\ v.kind = s /\ v.obj = i /\ s # "PIPE"
    BY <1>2, <2>2 DEF Desc, DescSet, Kinds, Ends, Socks, SockKinds
  <2>4. PICK k1 : k1 = WithDesc(ka, d, v)
    OBVIOUS
  <2>5. /\ k1 \in Tables
        /\ k1.fdt = ka.fdt /\ k1.pipes = ka.pipes /\ k1.socks = ka.socks
        /\ k1.descs[d] = v
        /\ \A x \in Descs \ {d} : k1.descs[x] = ka.descs[x]
    <3>1. ka \in Tables
      BY <1>7
    <3>2. DescPut(k1, ka, d, v)
      BY <2>1, <2>3, <2>4, <3>1, PutDesc
    <3> QED
      BY <1>7, <3>2 DEF DescPut
  <2>6. Backed(k1) /\ UsedRight(k1)
    BY <1>2, <1>3, <1>7, <2>3, <2>5 DEF Backed, UsedRight
  <2>7. \A x \in Pipes, e \in Ends :
          k1.pipes[x].refs[e] = kk.pipes[x].refs[e] + One(d \in EndOf(k1, x, e))
    BY <1>3, <1>7, <2>3, <2>5, TablesParts DEF EndOf, One
  <2>8. \A t \in SockKinds, x \in Socks : d \in SockOf(k1, t, x) <=> (t = s /\ x = i)
    BY <2>1, <2>3, <2>5 DEF SockOf
  <2>9. \A t \in SockKinds, x \in Socks :
          k1.socks[t][x] = kk.socks[t][x] + One(d \in SockOf(k1, t, x))
    BY <1>2, <1>3, <1>7, <2>5, <2>8, TablesParts DEF One
  <2>10. PICK sp \in Slots : sp = Spare1
    BY SlotFacts
  <2>11. /\ k1.descs[d].refs = 1 /\ h[sp] = None
         /\ \A x \in Descs \ {d} : k1.descs[x] = kk.descs[x]
    BY <1>3, <1>7, <2>3, <2>5, <2>10
  <2>12. Counted(k1, [h EXCEPT ![sp] = d]) /\ Keeps(kk, k1, h)
    BY <1>3, <2>1, <2>5, <2>6, <2>7, <2>9, <2>11, NewDescCounted
  <2>13. Agrees(k1, h)
    <3>1. k1.fdt = kk.fdt
      BY <1>7, <2>5
    <3> QED
      BY <1>3, <3>1 DEF Agrees
  <2>14. f = FreeFd(k1, p, 0)
    BY <1>4, <1>7, <2>5 DEF FreeFd
  <2>15. k2 = desc_decref(fd_alloc_into(k1, p, 0, d), d)
    <3>1. k2 = Install(ka, p, 0, d, v)
      BY <1>1, <1>6, <1>8, <1>10, <2>2 DEF SocketInstalled, WithSock
    <3> QED
      BY <2>4, <3>1 DEF Install, WithDesc
  <2>16. /\ Settled(k2, Filled(h, p, f, d))
         /\ Keeps(k1, k2, h)
         /\ \A q \in Procs, g \in Fds :
               k2.fdt[q][g] = IF q = p /\ g = f THEN d ELSE k1.fdt[q][g]
    <3>1. Counted(k1, Holding(h, Spare1, d))
      BY <2>10, <2>12 DEF Holding
    <3> QED
      BY <1>3, <2>1, <2>13, <2>14, <2>15, <3>1, InstallSettles
  <2>17. Keeps(kk, k2, h)
    BY <2>12, <2>16 DEF Keeps, SameObject
  <2> QED
    BY <1>4, <1>7, <2>1, <2>5, <2>16, <2>17 DEF Gained
<1> QED
  BY <1>9, <1>10

\* The descriptor a call gained is closed again.
LEMMA CloseBack ==
    ASSUME FdAssumption, NEW kk, NEW h, Settled(kk, h), NEW p \in Procs, NEW f \in Fds,
           kk.fdt[p][f] = None, NEW v \in Descs \cup {None},
           NEW k1, Settled(k1, Filled(h, p, f, v)), Keeps(kk, k1, h),
           NEW k2, k2 = fd_close(k1, p, f)
    PROVE  Settled(k2, h) /\ Keeps(kk, k2, h)
<1>1. /\ Agrees(kk, h) /\ h \in Holds /\ h[Spare1] = None /\ h[Spare2] = None
  BY SettledParts
<1>2. PICK h1 : h1 = Filled(h, p, f, v)
  OBVIOUS
<1>3. PICK s \in Slots : s = <<p, f>>
  BY SlotFacts
<1>4. f # None
  BY NoneIsNone
<1>5. h1 = [h EXCEPT ![s] = v]
  BY <1>2, <1>3, <1>4 DEF Filled, Holding
<1>6. Counted(k1, h1) /\ Agrees(k1, h1)
  BY <1>2, SettledParts
<1>7. /\ Counted(k2, [h1 EXCEPT ![s] = None])
      /\ Agrees(k2, [h1 EXCEPT ![s] = None])
      /\ Keeps(k1, k2, [h1 EXCEPT ![s] = None])
  BY <1>3, <1>6, CloseFd
<1>8. h[s] = None
  BY <1>1, <1>3 DEF Agrees
<1>9. [h1 EXCEPT ![s] = None] = h
  BY <1>1, <1>5, <1>8 DEF Holds
<1>10. Counted(k2, h) /\ Agrees(k2, h) /\ Keeps(k1, k2, h)
  BY <1>7, <1>9
<1>11. Keeps(kk, k2, h)
  BY <1>10 DEF Keeps, SameObject
<1> QED
  BY <1>1, <1>10, <1>11 DEF Settled

\* The pipe of pipe2 when it has its first description, and its second.
OpenPipe(n) == [used |-> TRUE, refs |-> [e \in Ends |-> IF e = "read" THEN 1 ELSE n]]

\* The tables of pipe2 before it looks for descriptors.
PipeMade(kk, i, r, w) ==
    WithDesc(WithDesc(WithPipe(kk, i, OpenPipe(1)), r, Desc("PIPE", i, "read")),
             w, Desc("PIPE", i, "write"))

LEMMA PipeMadeCounted ==
    ASSUME FdAssumption, NEW kk, NEW h, Settled(kk, h),
           NEW i \in Pipes, ~kk.pipes[i].used,
           NEW r \in Descs, NEW w \in Descs, r # w,
           kk.descs[r].refs = 0, kk.descs[w].refs = 0,
           NEW k2, k2 = PipeMade(kk, i, r, w)
    PROVE  /\ Counted(k2, Holding(Holding(h, Spare1, r), Spare2, w))
           /\ k2.fdt = kk.fdt
           /\ Keeps(kk, k2, h)
<1>1. /\ Counted(kk, h) /\ h \in Holds /\ h[Spare1] = None /\ h[Spare2] = None
      /\ kk \in Tables /\ Backed(kk) /\ UsedRight(kk)
  BY SettledParts
<1>2. PICK dr, dw : dr = Desc("PIPE", i, "read") /\ dw = Desc("PIPE", i, "write")
  OBVIOUS
<1>3. /\ dr \in DescSet /\ dr.refs = 1 /\ dr.kind = "PIPE" /\ dr.obj = i /\ dr.end = "read"
      /\ dw \in DescSet /\ dw.refs = 1 /\ dw.kind = "PIPE" /\ dw.obj = i /\ dw.end = "write"
  BY <1>2 DEF Desc, DescSet, Kinds, Ends, Pipes
<1>4. PICK o0, o1 : o0 = OpenPipe(0) /\ o1 = OpenPipe(1)
  OBVIOUS
<1>5. /\ o0 \in PipeSet /\ o0.used /\ o0.refs["read"] = 1 /\ o0.refs["write"] = 0
      /\ o1 \in PipeSet /\ o1.used /\ o1.refs["read"] = 1 /\ o1.refs["write"] = 1
  BY <1>4 DEF OpenPipe, PipeSet, Ends
<1>6. \A e \in Ends : kk.pipes[i].refs[e] = 0
  BY <1>1 DEF UsedRight
<1>7. PICK ka : ka = WithPipe(kk, i, o0)
  OBVIOUS
<1>8. /\ ka \in Tables /\ ka.fdt = kk.fdt /\ ka.descs = kk.descs /\ ka.socks = kk.socks
      /\ ka.pipes[i] = o0 /\ \A x \in Pipes \ {i} : ka.pipes[x] = kk.pipes[x]
  <2>1. PipePut(ka, kk, i, o0)
    BY <1>1, <1>5, <1>7, PutPipe
  <2> QED
    BY <1>1, <1>5, <1>7, <2>1 DEF PipePut
<1>9. PICK k1 : k1 = WithDesc(ka, r, dr)
  OBVIOUS
<1>10. /\ k1 \in Tables /\ k1.fdt = kk.fdt /\ k1.pipes = ka.pipes /\ k1.socks = kk.socks
       /\ k1.descs[r] = dr /\ \A x \in Descs \ {r} : k1.descs[x] = kk.descs[x]
  <2>1. /\ k1 \in Tables /\ k1.fdt = ka.fdt /\ k1.pipes = ka.pipes /\ k1.socks = ka.socks
        /\ k1.descs[r] = dr /\ \A x \in Descs \ {r} : k1.descs[x] = ka.descs[x]
    <3>1. ka \in Tables
      BY <1>8
    <3>2. DescPut(k1, ka, r, dr)
      BY <1>3, <1>9, <3>1, PutDesc
    <3> QED
      BY <1>8, <3>2 DEF DescPut
  <2> QED
    BY <1>8, <2>1
<1>11. /\ Backed(k1)
       /\ \A x \in Pipes, e \in Ends : r \in EndOf(k1, x, e) <=> (x = i /\ e = "read")
       /\ \A t \in SockKinds, x \in Socks : r \notin SockOf(k1, t, x)
  BY <1>1, <1>3, <1>10 DEF Backed, EndOf, SockOf, SockKinds
<1>12. ASSUME NEW x \in Pipes
       PROVE  /\ k1.pipes[x].used <=> \E e \in Ends : k1.pipes[x].refs[e] # 0
              /\ \A e \in Ends : k1.pipes[x].refs[e] = kk.pipes[x].refs[e] + One(r \in EndOf(k1, x, e))
  <2>1. CASE x = i
    BY <1>5, <1>6, <1>8, <1>10, <1>11, <2>1 DEF One, Ends
  <2>2. CASE x # i
    BY <1>1, <1>8, <1>10, <1>11, <2>2, TablesParts DEF One, UsedRight
  <2> QED
    BY <2>1, <2>2
<1>13. \A t \in SockKinds, x \in Socks :
          k1.socks[t][x] = kk.socks[t][x] + One(r \in SockOf(k1, t, x))
  BY <1>1, <1>10, <1>11, TablesParts DEF One
<1>14. PICK sp \in Slots : sp = Spare1
  BY SlotFacts
<1>15. PICK h1 : h1 = [h EXCEPT ![sp] = r]
  OBVIOUS
<1>16. Counted(k1, h1) /\ Keeps(kk, k1, h)
  <2>1. UsedRight(k1) /\ k1.descs[r].refs = 1 /\ h[sp] = None
    BY <1>1, <1>3, <1>10, <1>12, <1>14 DEF UsedRight
  <2> QED
    <3>1. Counted(k1, [h EXCEPT ![sp] = r]) /\ Keeps(kk, k1, h)
      BY <1>1, <1>10, <1>11, <1>12, <1>13, <2>1, NewDescCounted
    <3> QED
      BY <1>15, <3>1
<1>17. /\ h1 \in Holds /\ h1[Spare2] = None
       /\ \A s \in Slots : h[s] \in Descs => h1[s] = h[s]
  BY <1>1, <1>14, <1>15, SlotFacts, NoneIsNone DEF Holds
<1>18. PICK kb : kb = WithPipe(k1, i, o1)
  OBVIOUS
<1>19. /\ kb \in Tables /\ kb.fdt = kk.fdt /\ kb.descs = k1.descs /\ kb.socks = k1.socks
       /\ kb.pipes[i] = o1 /\ \A x \in Pipes \ {i} : kb.pipes[x] = k1.pipes[x]
  <2>1. k1 \in Tables
    BY <1>10
  <2>2. PipePut(kb, k1, i, o1)
    BY <1>5, <1>18, <2>1, PutPipe
  <2> QED
    BY <1>10, <2>2 DEF PipePut
<1>20. PICK k3 : k3 = WithDesc(kb, w, dw)
  OBVIOUS
<1>21. /\ k3 \in Tables /\ k3.fdt = kk.fdt /\ k3.pipes = kb.pipes /\ k3.socks = k1.socks
       /\ k3.descs[w] = dw /\ \A x \in Descs \ {w} : k3.descs[x] = k1.descs[x]
  <2>1. /\ k3 \in Tables /\ k3.fdt = kb.fdt /\ k3.pipes = kb.pipes /\ k3.socks = kb.socks
        /\ k3.descs[w] = dw /\ \A x \in Descs \ {w} : k3.descs[x] = kb.descs[x]
    <3>1. kb \in Tables
      BY <1>19
    <3>2. DescPut(k3, kb, w, dw)
      BY <1>3, <1>20, <3>1, PutDesc
    <3> QED
      BY <1>19, <3>2 DEF DescPut
  <2> QED
    BY <1>19, <2>1
<1>22. /\ Backed(k3)
       /\ \A x \in Pipes, e \in Ends : w \in EndOf(k3, x, e) <=> (x = i /\ e = "write")
       /\ \A t \in SockKinds, x \in Socks : w \notin SockOf(k3, t, x)
  BY <1>3, <1>11, <1>21 DEF Backed, EndOf, SockOf, SockKinds
<1>23. ASSUME NEW x \in Pipes
       PROVE  /\ k3.pipes[x].used <=> \E e \in Ends : k3.pipes[x].refs[e] # 0
              /\ \A e \in Ends : k3.pipes[x].refs[e] = k1.pipes[x].refs[e] + One(w \in EndOf(k3, x, e))
  <2>1. CASE x = i
    BY <1>5, <1>8, <1>10, <1>19, <1>21, <1>22, <2>1 DEF One, Ends
  <2>2. CASE x # i
    BY <1>10, <1>12, <1>19, <1>21, <1>22, <2>2, TablesParts DEF One
  <2> QED
    BY <2>1, <2>2
<1>24. \A t \in SockKinds, x \in Socks :
          k3.socks[t][x] = k1.socks[t][x] + One(w \in SockOf(k3, t, x))
  BY <1>10, <1>21, <1>22, TablesParts DEF One
<1>25. PICK sq \in Slots : sq = Spare2
  BY SlotFacts
<1>26. PICK h2 : h2 = [h1 EXCEPT ![sq] = w]
  OBVIOUS
<1>27. Counted(k3, h2) /\ Keeps(k1, k3, h1)
  <2>1. UsedRight(k3) /\ k3.descs[w].refs = 1 /\ h1[sq] = None /\ k1.descs[w].refs = 0
    BY <1>3, <1>10, <1>17, <1>21, <1>23, <1>25 DEF UsedRight
  <2> QED
    <3>1. Counted(k3, [h1 EXCEPT ![sq] = w]) /\ Keeps(k1, k3, h1)
      BY <1>16, <1>21, <1>22, <1>23, <1>24, <2>1, NewDescCounted
    <3> QED
      BY <1>26, <3>1
<1>28. Keeps(kk, k3, h)
  BY <1>16, <1>17, <1>27 DEF Keeps, SameObject
<1>29. k3 = k2
  <2>1. PICK kc : kc = WithPipe(kk, i, o1)
    OBVIOUS
  <2>2. /\ kc \in Tables /\ kc.fdt = kk.fdt /\ kc.descs = kk.descs /\ kc.socks = kk.socks
        /\ kc.pipes[i] = o1 /\ \A x \in Pipes \ {i} : kc.pipes[x] = kk.pipes[x]
    <3>1. PipePut(kc, kk, i, o1)
      BY <1>1, <1>5, <2>1, PutPipe
    <3> QED
      BY <1>1, <1>5, <2>1, <3>1 DEF PipePut
  <2>3. PICK kd : kd = WithDesc(kc, r, dr)
    OBVIOUS
  <2>4. /\ kd \in Tables /\ kd.fdt = kk.fdt /\ kd.pipes = kc.pipes /\ kd.socks = kk.socks
        /\ kd.descs[r] = dr /\ \A x \in Descs \ {r} : kd.descs[x] = kk.descs[x]
    <3>1. /\ kd \in Tables /\ kd.fdt = kc.fdt /\ kd.pipes = kc.pipes /\ kd.socks = kc.socks
          /\ kd.descs[r] = dr /\ \A x \in Descs \ {r} : kd.descs[x] = kc.descs[x]
      <4>1. kc \in Tables
        BY <2>2
      <4>2. DescPut(kd, kc, r, dr)
        BY <1>3, <2>3, <4>1, PutDesc
      <4> QED
        BY <2>2, <4>2 DEF DescPut
    <3> QED
      BY <2>2, <3>1
  <2>5. k2 = WithDesc(kd, w, dw)
    BY <1>2, <1>4, <2>1, <2>3 DEF PipeMade
  <2>6. /\ k2 \in Tables /\ k2.fdt = kk.fdt /\ k2.pipes = kc.pipes /\ k2.socks = kk.socks
        /\ k2.descs[w] = dw /\ \A x \in Descs \ {w} : k2.descs[x] = kd.descs[x]
    <3>1. /\ k2 \in Tables /\ k2.fdt = kd.fdt /\ k2.pipes = kd.pipes /\ k2.socks = kd.socks
          /\ k2.descs[w] = dw /\ \A x \in Descs \ {w} : k2.descs[x] = kd.descs[x]
      <4>1. kd \in Tables /\ dw \in DescSet
        BY <1>3, <2>4
      <4>2. DescPut(k2, kd, w, dw)
        BY <2>5, <4>1, PutDesc
      <4> QED
        BY <1>3, <2>4, <4>2 DEF DescPut
    <3> QED
      BY <2>4, <3>1
  <2>7. \A x \in Pipes : k2.pipes[x] = k3.pipes[x]
    BY <1>8, <1>10, <1>19, <1>21, <2>2, <2>6
  <2>8. k2.pipes = k3.pipes
    BY <1>21, <2>6, <2>7, TablesParts
  <2>9. \A x \in Descs : k2.descs[x] = k3.descs[x]
    BY <1>10, <1>21, <2>4, <2>6
  <2>10. k2.descs = k3.descs
    BY <1>21, <2>6, <2>9, TablesParts
  <2> QED
    BY <1>10, <1>21, <2>6, <2>8, <2>10, TablesEqual
<1> QED
  BY <1>14, <1>15, <1>21, <1>25, <1>26, <1>27, <1>28, <1>29 DEF Holding

LEMMA BumpRefs ==
    ASSUME NEW pp \in PipeSet, NEW e \in Ends
    PROVE  [pp EXCEPT !.refs[e] = @ + 1] =
           [used |-> pp.used, refs |-> [pp.refs EXCEPT ![e] = @ + 1]]
BY DEF PipeSet

\* A pipe that gains a reference.
LEMMA IncrefPipe ==
    ASSUME NEW kk \in Tables, NEW i \in Pipes, NEW e \in Ends, kk.pipes[i].used,
           NEW q \in PipeSet, q.used,
           \A x \in Ends : q.refs[x] = kk.pipes[i].refs[x] + One(x = e)
    PROVE  pipe_on_desc_incref(kk, i, e) = WithPipe(kk, i, q)
<1> DEFINE pp == kk.pipes[i]
           pe == [pp EXCEPT !.refs[e] = @ + 1]
<1>1. pp \in PipeSet /\ pp.refs \in [Ends -> Nat] /\ pp.refs[e] + 1 \in Nat
  BY TablesParts DEF PipeSet
<1>2. pe = [used |-> pp.used, refs |-> [pp.refs EXCEPT ![e] = @ + 1]]
  BY <1>1, BumpRefs
<1>3. pp.used = TRUE /\ q.used = TRUE
  BY <1>1 DEF PipeSet
<1>4. q.refs = [pp.refs EXCEPT ![e] = @ + 1]
  <2>1. q.refs \in [Ends -> Nat]
    BY DEF PipeSet
  <2>2. \A x \in Ends : q.refs[x] = [pp.refs EXCEPT ![e] = @ + 1][x]
    BY <1>1 DEF One
  <2>3. [pp.refs EXCEPT ![e] = @ + 1] \in [Ends -> Nat]
    BY <1>1
  <2> HIDE DEF pp
  <2> QED
    BY <2>1, <2>2, <2>3
<1>5. q = [used |-> q.used, refs |-> q.refs]
  BY DEF PipeSet
<1>6. pe = q
  BY <1>2, <1>3, <1>4, <1>5
<1>7. pipe_on_desc_incref(kk, i, e) = [kk EXCEPT !.pipes[i].refs[e] = @ + 1]
  BY DEF pipe_on_desc_incref
<1>8. [kk EXCEPT !.pipes[i].refs[e] = @ + 1] = [kk EXCEPT !.pipes[i] = pe]
  OBVIOUS
<1> QED
  BY <1>6, <1>7, <1>8 DEF WithPipe

\* PipeInstalled looks for descriptors in the tables of PipeMade.
LEMMA PipeInstalledMade ==
    ASSUME NEW kk \in Tables, NEW p, NEW i \in Pipes,
           NEW r \in Descs, NEW w \in Descs, r # w
    PROVE  PipeInstalled(kk, p, i, r, w) =
           desc_decref(desc_decref(fd_alloc_into(
              fd_alloc_into(PipeMade(kk, i, r, w), p, 0, r), p, 0, w), r), w)
<1>1. PICK dr, dw : dr = Desc("PIPE", i, "read") /\ dw = Desc("PIPE", i, "write")
  OBVIOUS
<1>2. dr \in DescSet /\ dw \in DescSet
  BY <1>1 DEF Desc, DescSet, Kinds, Ends, Pipes
<1>3. PICK oz, o0, o1 :
        oz = [FreePipe EXCEPT !.used = TRUE] /\ o0 = OpenPipe(0) /\ o1 = OpenPipe(1)
  OBVIOUS
<1>4. oz \in PipeSet /\ o0 \in PipeSet /\ o1 \in PipeSet
  BY <1>3 DEF FreePipe, OpenPipe, PipeSet
<1>4a. oz.used /\ o0.used /\ o1.used
  BY <1>3 DEF FreePipe, OpenPipe
<1>4b. \A x \in Ends : /\ o0.refs[x] = oz.refs[x] + One(x = "read")
                      /\ o1.refs[x] = o0.refs[x] + One(x = "write")
  BY <1>3 DEF FreePipe, OpenPipe, Ends, One
<1>5. PICK ka : ka = WithPipe(kk, i, oz)
  OBVIOUS
<1>6. /\ ka \in Tables /\ ka.fdt = kk.fdt /\ ka.descs = kk.descs /\ ka.socks = kk.socks
      /\ ka.pipes[i] = oz /\ \A x \in Pipes \ {i} : ka.pipes[x] = kk.pipes[x]
  <2>1. PipePut(ka, kk, i, oz)
    BY <1>4, <1>5, PutPipe
  <2> QED
    BY <1>4, <1>5, <2>1 DEF PipePut
<1>7. PICK kb : kb = WithDesc(ka, r, dr)
  OBVIOUS
<1>8. /\ kb \in Tables /\ kb.fdt = ka.fdt /\ kb.pipes = ka.pipes /\ kb.socks = ka.socks
      /\ kb.descs[r] = dr /\ \A x \in Descs \ {r} : kb.descs[x] = ka.descs[x]
  <2>1. ka \in Tables
    BY <1>6
  <2>2. DescPut(kb, ka, r, dr)
    BY <1>2, <1>7, <2>1, PutDesc
  <2> QED
    BY <1>6, <2>2 DEF DescPut
<1>9. PICK kc : kc = WithDesc(kb, w, dw)
  OBVIOUS
<1>10. /\ kc \in Tables /\ kc.fdt = kb.fdt /\ kc.pipes = kb.pipes /\ kc.socks = kb.socks
       /\ kc.descs[w] = dw /\ \A x \in Descs \ {w} : kc.descs[x] = kb.descs[x]
  <2>1. kb \in Tables
    BY <1>8
  <2>2. DescPut(kc, kb, w, dw)
    BY <1>2, <1>9, <2>1, PutDesc
  <2> QED
    BY <1>8, <2>2 DEF DescPut
<1>11. kc = [kk EXCEPT !.pipes[i] = [FreePipe EXCEPT !.used = TRUE],
                       !.descs[r] = Desc("PIPE", i, "read"),
                       !.descs[w] = Desc("PIPE", i, "write")]
  BY <1>1, <1>3, <1>5, <1>7, <1>9 DEF WithPipe, WithDesc
<1>12. PICK kd : kd = WithPipe(kc, i, o0)
  OBVIOUS
<1>13. kc.pipes[i] = oz
  BY <1>6, <1>8, <1>10
<1>14. pipe_on_desc_incref(kc, i, "read") = kd
  BY <1>4, <1>4a, <1>4b, <1>10, <1>12, <1>13, IncrefPipe DEF Ends
<1>15. /\ kd \in Tables /\ kd.fdt = kc.fdt /\ kd.descs = kc.descs /\ kd.socks = kc.socks
       /\ kd.pipes[i] = o0 /\ \A x \in Pipes \ {i} : kd.pipes[x] = kc.pipes[x]
  <2>1. kc \in Tables
    BY <1>10
  <2>2. PipePut(kd, kc, i, o0)
    BY <1>4, <1>12, <2>1, PutPipe
  <2> QED
    BY <1>10, <2>2 DEF PipePut
<1>16. PICK ke : ke = WithPipe(kd, i, o1)
  OBVIOUS
<1>17. pipe_on_desc_incref(kd, i, "write") = ke
  BY <1>4, <1>4a, <1>4b, <1>15, <1>16, IncrefPipe DEF Ends
<1>18. /\ ke \in Tables /\ ke.fdt = kd.fdt /\ ke.descs = kd.descs /\ ke.socks = kd.socks
       /\ ke.pipes[i] = o1 /\ \A x \in Pipes \ {i} : ke.pipes[x] = kd.pipes[x]
  <2>1. kd \in Tables
    BY <1>15
  <2>2. PipePut(ke, kd, i, o1)
    BY <1>4, <1>16, <2>1, PutPipe
  <2> QED
    BY <1>15, <2>2 DEF PipePut
<1>19. ke = PipeMade(kk, i, r, w)
  <2>1. PICK kf : kf = WithPipe(kk, i, o1)
    OBVIOUS
  <2>2. /\ kf \in Tables /\ kf.fdt = kk.fdt /\ kf.descs = kk.descs /\ kf.socks = kk.socks
        /\ kf.pipes[i] = o1 /\ \A x \in Pipes \ {i} : kf.pipes[x] = kk.pipes[x]
    <3>1. PipePut(kf, kk, i, o1)
      BY <1>4, <2>1, PutPipe
    <3> QED
      BY <1>4, <2>1, <3>1 DEF PipePut
  <2>3. PICK kg : kg = WithDesc(kf, r, dr)
    OBVIOUS
  <2>4. /\ kg \in Tables /\ kg.fdt = kf.fdt /\ kg.pipes = kf.pipes /\ kg.socks = kf.socks
        /\ kg.descs[r] = dr /\ \A x \in Descs \ {r} : kg.descs[x] = kf.descs[x]
    <3>1. kf \in Tables
      BY <2>2
    <3>2. DescPut(kg, kf, r, dr)
      BY <1>2, <2>3, <3>1, PutDesc
    <3> QED
      BY <2>2, <3>2 DEF DescPut
  <2>5. PICK kh : kh = WithDesc(kg, w, dw)
    OBVIOUS
  <2>6. /\ kh \in Tables /\ kh.fdt = kg.fdt /\ kh.pipes = kg.pipes /\ kh.socks = kg.socks
        /\ kh.descs[w] = dw /\ \A x \in Descs \ {w} : kh.descs[x] = kg.descs[x]
    <3>1. kg \in Tables
      BY <2>4
    <3>2. DescPut(kh, kg, w, dw)
      BY <1>2, <2>5, <3>1, PutDesc
    <3> QED
      BY <2>4, <3>2 DEF DescPut
  <2>7. kh = PipeMade(kk, i, r, w)
    BY <1>1, <1>3, <2>1, <2>3, <2>5 DEF PipeMade
  <2>8. \A x \in Pipes : kh.pipes[x] = ke.pipes[x]
    BY <1>6, <1>8, <1>10, <1>15, <1>18, <2>2, <2>4, <2>6
  <2>9. kh.pipes = ke.pipes
    BY <1>18, <2>6, <2>8, TablesParts
  <2>10. \A x \in Descs : kh.descs[x] = ke.descs[x]
    BY <1>6, <1>8, <1>10, <1>15, <1>18, <2>2, <2>4, <2>6
  <2>11. kh.descs = ke.descs
    BY <1>18, <2>6, <2>10, TablesParts
  <2>12. kh.fdt = ke.fdt /\ kh.socks = ke.socks
    BY <1>6, <1>8, <1>10, <1>15, <1>18, <2>2, <2>4, <2>6
  <2> QED
    BY <1>18, <2>6, <2>7, <2>9, <2>11, <2>12, TablesEqual
<1> QED
  BY <1>11, <1>14, <1>17, <1>19 DEF PipeInstalled

LEMMA SlotKinds ==
    ASSUME NEW s \in Slots
    PROVE  s = Spare1 \/ s = Spare2 \/ \E q \in Procs, g \in Fds : s = <<q, g>>
BY DEF Slots

\* The descriptor tables say who holds what between calls.
LEMMA SameHolds ==
    ASSUME NEW kk, NEW h \in Holds, NEW h2 \in Holds, Agrees(kk, h), Agrees(kk, h2),
           h[Spare1] = h2[Spare1], h[Spare2] = h2[Spare2]
    PROVE  h2 = h
<1>1. ASSUME NEW s \in Slots PROVE h[s] = h2[s]
  BY SlotKinds DEF Agrees
<1> QED
  BY <1>1 DEF Holds

\* p has at most one free descriptor.
FewFds(kk, p) == Cardinality({x \in Fds : kk.fdt[p][x] = None}) < 2

LEMMA TwoFree ==
    ASSUME FdAssumption, NEW kk, NEW p, NEW f \in Fds, NEW g \in Fds, f # g,
           kk.fdt[p][f] = None, kk.fdt[p][g] = None
    PROVE  ~FewFds(kk, p)
<1> DEFINE S == {x \in Fds : kk.fdt[p][x] = None}
<1>1. IsFiniteSet(Fds)
  BY FS_Interval DEF Fds, FdAssumption
<1>2. IsFiniteSet(S)
  BY <1>1, FS_Subset
<1>3. {f, g} \in SUBSET S
  OBVIOUS
<1>4. Cardinality({f, g}) = 2
  <2>1. IsFiniteSet({f}) /\ Cardinality({f}) = 1
    BY FS_Singleton
  <2>2. {f, g} = {f} \cup {g} /\ g \notin {f}
    OBVIOUS
  <2> QED
    BY <2>1, <2>2, FS_AddElement
<1>5. Cardinality({f, g}) <= Cardinality(S)
  BY <1>2, <1>3, FS_Subset
<1>6. Cardinality(S) \in Nat
  BY <1>2, FS_CardinalityType
<1> QED
  BY <1>4, <1>5, <1>6 DEF FewFds

\* pipe2 up to its two descriptors, of which it may find only one, or none.
LEMMA PipeGains ==
    ASSUME FdAssumption, NEW kk, NEW h, Settled(kk, h), NEW p \in Procs,
           NEW i \in Pipes, ~kk.pipes[i].used,
           NEW r \in Descs, NEW w \in Descs, r # w,
           kk.descs[r].refs = 0, kk.descs[w].refs = 0,
           NEW k5, k5 = PipeInstalled(kk, p, i, r, w),
           NEW f, f = FreeFd(kk, p, 0)
    PROVE  \E h5 \in Holds :
              /\ Settled(k5, h5)
              /\ Keeps(kk, k5, h)
              /\ \A q \in Procs \ {p}, g \in Fds : k5.fdt[q][g] = kk.fdt[q][g]
              /\ FewFds(kk, p) => h5 = Filled(h, p, f, r)
<1>1. /\ Counted(kk, h) /\ Agrees(kk, h) /\ h \in Holds /\ h[Spare1] = None /\ h[Spare2] = None
      /\ kk \in Tables
  BY SettledParts
<1>2. PICK k0 : k0 = PipeMade(kk, i, r, w)
  OBVIOUS
<1>3. PICK h0 : h0 = Holding(Holding(h, Spare1, r), Spare2, w)
  OBVIOUS
<1>4. Counted(k0, h0) /\ k0.fdt = kk.fdt /\ Keeps(kk, k0, h)
  BY <1>2, <1>3, PipeMadeCounted
<1>5. h0 \in Holds /\ h0[Spare1] = r /\ h0[Spare2] = w
  BY <1>1, <1>3, <1>4, CountedParts, SlotFacts DEF Holding, Holds
<1>6. Agrees(k0, h0)
  <2>1. PICK h1 : h1 = [h EXCEPT ![Spare1] = r]
    OBVIOUS
  <2>2. h1 \in Holds
    BY <1>1, <2>1, SlotFacts DEF Holds
  <2>3. Agrees(kk, h1)
    <3>1. Agrees(kk, [h EXCEPT ![Spare1] = r])
      BY <1>1, AgreesSpare
    <3> QED
      BY <2>1, <3>1
  <2>4. Agrees(kk, [h1 EXCEPT ![Spare2] = w])
    BY <2>2, <2>3, AgreesSpare
  <2>5. Agrees(kk, h0)
    BY <1>3, <2>1, <2>4 DEF Holding
  <2> QED
    BY <1>4, <2>5 DEF Agrees
<1>7. PICK k1 : k1 = fd_alloc_into(k0, p, 0, r)
  OBVIOUS
<1>8. PICK h1 : h1 = Given(k0, h0, p, 0, r)
  OBVIOUS
<1>9. f = FreeFd(k0, p, 0)
  BY <1>4 DEF FreeFd
<1>10. f = None \/ (f \in Fds /\ kk.fdt[p][f] = None /\ f # None)
  BY FreeFdFree
<1>11. /\ Counted(k1, h1) /\ Agrees(k1, h1)
       /\ \A x \in Descs : SameObject(k0, k1, x)
       /\ \A q \in Procs, g \in Fds :
             k1.fdt[q][g] = IF q = p /\ g = f THEN r ELSE kk.fdt[q][g]
  <2>1. k0.descs[r].refs # 0
    BY <1>4, <1>5, CountAndHolder, SlotFacts
  <2>2. /\ Counted(k1, h1) /\ Agrees(k1, h1)
        /\ \A x \in Descs : SameObject(k0, k1, x)
        /\ \A q \in Procs, g \in Fds :
             k1.fdt[q][g] = IF q = p /\ g = f THEN r ELSE k0.fdt[q][g]
    BY <1>4, <1>6, <1>7, <1>8, <1>9, <2>1, AllocFd
  <2> QED
    BY <1>4, <2>2
<1>12. h1[Spare1] = r /\ h1[Spare2] = w
  BY <1>5, <1>8, <1>9, <1>10, SlotFacts DEF Given, Holds
<1>13. PICK k3 : k3 = fd_alloc_into(k1, p, 0, w)
  OBVIOUS
<1>14. PICK h3 : h3 = Given(k1, h1, p, 0, w)
  OBVIOUS
<1>15. PICK f2 : f2 = FreeFd(k1, p, 0)
  OBVIOUS
<1>16. f2 = None \/ (f2 \in Fds /\ k1.fdt[p][f2] = None /\ f2 # None)
  BY <1>15, FreeFdFree
<1>17. /\ Counted(k3, h3) /\ Agrees(k3, h3)
       /\ \A x \in Descs : SameObject(k1, k3, x)
       /\ \A q \in Procs, g \in Fds :
             k3.fdt[q][g] = IF q = p /\ g = f2 THEN w ELSE k1.fdt[q][g]
  <2>1. k1.descs[w].refs # 0
    BY <1>11, <1>12, CountAndHolder, SlotFacts
  <2> QED
    BY <1>11, <1>13, <1>14, <1>15, <2>1, AllocFd
<1>18. h3[Spare1] = r /\ h3[Spare2] = w
  <2>1. h1 \in Holds
    BY <1>11, CountedParts
  <2> QED
    BY <1>12, <1>14, <1>15, <1>16, <2>1, SlotFacts DEF Given, Holds
<1>19. PICK k4 : k4 = desc_decref(k3, r)
  OBVIOUS
<1>20. PICK h4 : h4 = [h3 EXCEPT ![Spare1] = None]
  OBVIOUS
<1>21. /\ Counted(k4, h4) /\ Agrees(k4, h4) /\ k4.fdt = k3.fdt /\ Keeps(k3, k4, h4)
  <2>1. PICK sp : sp = Spare1
    OBVIOUS
  <2>2. h3[sp] = r
    BY <1>18, <2>1
  <2>3. /\ Counted(k4, [h3 EXCEPT ![sp] = None])
        /\ Agrees(k4, [h3 EXCEPT ![sp] = None])
        /\ k4.fdt = k3.fdt
        /\ Keeps(k3, k4, [h3 EXCEPT ![sp] = None])
    BY <1>17, <1>19, <2>1, <2>2, DropSpare
  <2> QED
    BY <1>20, <2>1, <2>3
<1>22. h4[Spare1] = None /\ h4[Spare2] = w
  BY <1>17, <1>18, <1>20, CountedParts, SlotFacts DEF Holds
<1>23. PICK h5 : h5 = [h4 EXCEPT ![Spare2] = None]
  OBVIOUS
<1>24. /\ Counted(k5, h5) /\ Agrees(k5, h5) /\ k5.fdt = k4.fdt /\ Keeps(k4, k5, h5)
  <2>1. PICK sp : sp = Spare2
    OBVIOUS
  <2>2. h4[sp] = w /\ k5 = desc_decref(k4, w)
    BY <1>1, <1>2, <1>7, <1>13, <1>19, <1>22, <2>1, PipeInstalledMade
  <2>3. /\ Counted(k5, [h4 EXCEPT ![sp] = None])
        /\ Agrees(k5, [h4 EXCEPT ![sp] = None])
        /\ k5.fdt = k4.fdt
        /\ Keeps(k4, k5, [h4 EXCEPT ![sp] = None])
    BY <1>21, <2>1, <2>2, DropSpare
  <2> QED
    BY <1>23, <2>1, <2>3
<1>25. h4 \in Holds /\ h5 \in Holds
  BY <1>21, <1>24, CountedParts
<1>26. h5[Spare1] = None /\ h5[Spare2] = None
  BY <1>22, <1>23, <1>25, SlotFacts DEF Holds
<1>27. Settled(k5, h5)
  BY <1>24, <1>26 DEF Settled
<1>28. \A q \in Procs, g \in Fds :
          k5.fdt[q][g] = IF q = p /\ g = f2 THEN w
                         ELSE IF q = p /\ g = f THEN r ELSE kk.fdt[q][g]
  BY <1>11, <1>17, <1>21, <1>24
<1>29. Keeps(kk, k5, h)
  <2>1. ASSUME NEW s \in Slots, h[s] \in Descs PROVE SameObject(kk, k5, h[s])
    <3>1. PICK q \in Procs, g \in Fds : s = <<q, g>>
      BY <1>1, <2>1, SlotKinds, NoneIsNone
    <3>2. h[s] = kk.fdt[q][g] /\ kk.fdt[q][g] # None
      BY <1>1, <2>1, <3>1, NoneIsNone DEF Agrees
    <3>3. ~(q = p /\ g = f) /\ ~(q = p /\ g = f2)
      BY <1>10, <1>11, <1>16, <3>2, NoneIsNone
    <3>4. h4[s] = h[s] /\ h5[s] = h[s]
      BY <1>21, <1>24, <1>28, <3>1, <3>2, <3>3 DEF Agrees
    <3>5. /\ SameObject(kk, k0, h[s]) /\ SameObject(k0, k1, h[s]) /\ SameObject(k1, k3, h[s])
          /\ SameObject(k3, k4, h[s]) /\ SameObject(k4, k5, h[s])
      BY <1>4, <1>11, <1>17, <1>21, <1>24, <2>1, <3>4 DEF Keeps
    <3> QED
      BY <3>5 DEF SameObject
  <2> QED
    BY <2>1 DEF Keeps
<1>30. ASSUME FewFds(kk, p)
       PROVE  h5 = Filled(h, p, f, r)
  <2>1. f2 = None
    <3> SUFFICES ASSUME f2 # None PROVE FALSE
      OBVIOUS
    <3>1. f2 \in Fds /\ k1.fdt[p][f2] = None
      BY <1>16
    <3>2. f2 # f /\ kk.fdt[p][f2] = None
      BY <1>11, <3>1, NoneIsNone
    <3>3. CASE f = None
      <4>1. FreeFd(k1, p, 0) = FreeFd(k0, p, 0)
        BY <1>7, <1>9, <3>3 DEF fd_alloc_into
      <4> QED
        BY <1>9, <1>15, <3>3, <4>1
    <3>4. CASE f \in Fds /\ kk.fdt[p][f] = None
      BY <1>30, <3>1, <3>2, <3>4, TwoFree
    <3> QED
      BY <1>10, <3>3, <3>4
  <2>2. PICK hf : hf = Filled(h, p, f, r)
    OBVIOUS
  <2>3. hf \in Holds /\ hf[Spare1] = None /\ hf[Spare2] = None
    BY <1>1, <1>10, <2>2, SlotFacts DEF Filled, Holding, Holds
  <2>4. ASSUME NEW q \in Procs, NEW g \in Fds PROVE hf[<<q, g>>] = k5.fdt[q][g]
    <3>1. <<q, g>> \in Slots /\ h[<<q, g>>] = kk.fdt[q][g]
      BY <1>1, SlotFacts DEF Agrees
    <3>2. k5.fdt[q][g] = IF q = p /\ g = f THEN r ELSE kk.fdt[q][g]
      BY <1>28, <2>1, NoneIsNone
    <3>3. CASE f = None
      BY <2>2, <3>1, <3>2, <3>3, NoneIsNone DEF Filled
    <3>4. CASE f # None
      BY <1>1, <2>2, <3>1, <3>2, <3>4 DEF Filled, Holding, Holds
    <3> QED
      BY <3>3, <3>4
  <2>5. Agrees(k5, hf)
    BY <2>4 DEF Agrees
  <2> QED
    BY <1>24, <1>25, <1>26, <2>2, <2>3, <2>5, SameHolds
<1>31. \A q \in Procs \ {p}, g \in Fds : k5.fdt[q][g] = kk.fdt[q][g]
  BY <1>28
<1> QED
  BY <1>25, <1>27, <1>29, <1>30, <1>31

\* pipe2 without two descriptors leaves nothing behind.
LEMMA PipeLost ==
    ASSUME FdAssumption, NEW kk, NEW h, Settled(kk, h), NEW p \in Procs,
           NEW i \in Pipes, ~kk.pipes[i].used,
           NEW r \in Descs, NEW w \in Descs, r # w,
           kk.descs[r].refs = 0, kk.descs[w].refs = 0,
           NEW k5, k5 = PipeInstalled(kk, p, i, r, w),
           NEW f, f = FreeFd(kk, p, 0),
           FewFds(kk, p),
           NEW k7, k7 = PipeUndone(k5, p, i, f)
    PROVE  Settled(k7, h) /\ Keeps(kk, k7, h)
<1>1. /\ Counted(kk, h) /\ Agrees(kk, h) /\ h \in Holds /\ UsedRight(kk) /\ kk \in Tables
      /\ h[Spare1] = None /\ h[Spare2] = None
  BY SettledParts
<1>2. Settled(k5, Filled(h, p, f, r)) /\ Keeps(kk, k5, h)
  BY PipeGains
<1>3. f = None \/ (f \in Fds /\ kk.fdt[p][f] = None /\ f # None)
  BY FreeFdFree
<1>4. PICK k6 : k6 = IF f = None THEN k5 ELSE fd_close(k5, p, f)
  OBVIOUS
<1>5. Settled(k6, h) /\ Keeps(kk, k6, h)
  <2>1. CASE f = None
    BY <1>2, <1>4, <2>1 DEF Filled
  <2>2. CASE f \in Fds /\ kk.fdt[p][f] = None /\ f # None
    <3>1. k6 = fd_close(k5, p, f) /\ r \in Descs \cup {None}
      BY <1>4, <2>2
    <3> QED
      BY <1>2, <2>2, <3>1, CloseBack
  <2> QED
    BY <1>3, <2>1, <2>2
<1>6. Counted(k6, h) /\ UsedRight(k6) /\ k6 \in Tables
  BY <1>5, SettledParts
<1>7. ASSUME NEW e \in Ends PROVE k6.pipes[i].refs[e] = 0
  <2>1. kk.pipes[i].refs[e] = 0
    BY <1>1 DEF UsedRight
  <2>2. EndOf(kk, i, e) \in SUBSET Descs /\ Num(h, EndOf(kk, i, e)) = 0
    BY <1>1, <2>1, CountedParts
  <2>3. \A s \in Slots : h[s] \notin EndOf(kk, i, e)
    BY <1>1, <2>2, NumFacts
  <2>4. \A s \in Slots : h[s] \notin EndOf(k6, i, e)
    BY <1>5, <2>3 DEF Keeps, SameObject, EndOf
  <2>5. EndOf(k6, i, e) \in SUBSET Descs
    BY DEF EndOf
  <2>6. Num(h, EndOf(k6, i, e)) = 0
    BY <1>1, <2>4, <2>5, NumFacts
  <2> QED
    BY <1>6, <2>6, CountedParts
<1>8. k6.pipes[i] = FreePipe
  <2>1. k6.pipes[i].used = FALSE
    BY <1>6, <1>7, TablesParts DEF UsedRight, PipeSet
  <2>2. k6.pipes[i] \in PipeSet
    BY <1>6, TablesParts
  <2>3. k6.pipes[i].refs = [e \in Ends |-> 0]
    BY <1>7, <2>2 DEF PipeSet
  <2> QED
    BY <2>1, <2>2, <2>3 DEF PipeSet, FreePipe
<1>9. k7 = k6
  <2>1. k7 = WithPipe(k6, i, FreePipe)
    BY <1>4 DEF PipeUndone, WithPipe
  <2>2. FreePipe \in PipeSet
    BY DEF FreePipe, PipeSet
  <2>3. /\ k7 \in Tables /\ k7.fdt = k6.fdt /\ k7.descs = k6.descs /\ k7.socks = k6.socks
        /\ k7.pipes[i] = FreePipe /\ \A x \in Pipes \ {i} : k7.pipes[x] = k6.pipes[x]
    <3>1. k6 \in Tables
      BY <1>6
    <3>2. PipePut(k7, k6, i, FreePipe)
      BY <2>1, <2>2, <3>1, PutPipe
    <3> QED
      BY <1>6, <3>2 DEF PipePut
  <2>4. \A x \in Pipes : k7.pipes[x] = k6.pipes[x]
    BY <1>8, <2>3
  <2>5. k7.pipes = k6.pipes
    BY <1>6, <2>3, <2>4, TablesParts
  <2> QED
    BY <1>6, <2>3, <2>5, TablesEqual
<1> QED
  BY <1>5, <1>9

-----------------------------------------------------------------------------
(* The effect of a call.                                                   *)

\* A descriptor that is still what it was denotes the object it denoted.
FdsKeep(kk, k2) ==
    \A q \in Procs, g \in Fds :
       kk.fdt[q][g] # None /\ k2.fdt[q][g] = kk.fdt[q][g] => SameObject(kk, k2, kk.fdt[q][g])

\* A call of p that leaves the tables k2 is right.
Call(kk, k2, p) ==
    /\ \E h2 \in Holds : Settled(k2, h2)
    /\ FdsKeep(kk, k2)
    /\ \A q \in Procs \ {p}, g \in Fds : k2.fdt[q][g] = kk.fdt[q][g]

LEMMA FdsKeepBy ==
    ASSUME FdAssumption, NEW kk, NEW h, Settled(kk, h), NEW k2, NEW h2, Settled(k2, h2),
           Keeps(kk, k2, h) \/ Keeps(kk, k2, h2)
    PROVE  FdsKeep(kk, k2)
<1>1. /\ Agrees(kk, h) /\ kk \in Tables /\ Agrees(k2, h2) /\ k2 \in Tables
  BY SettledParts
<1>2. ASSUME NEW q \in Procs, NEW g \in Fds,
             kk.fdt[q][g] # None, k2.fdt[q][g] = kk.fdt[q][g]
      PROVE  SameObject(kk, k2, kk.fdt[q][g])
  <2>1. PICK s \in Slots : s = <<q, g>>
    BY SlotFacts
  <2>2. h[s] = kk.fdt[q][g] /\ h2[s] = h[s] /\ h[s] \in Descs
    BY <1>1, <1>2, <2>1, TablesParts DEF Agrees
  <2> QED
    BY <2>2 DEF Keeps
<1> QED
  BY <1>2 DEF FdsKeep

LEMMA SettledSame ==
    ASSUME FdAssumption, NEW kk, NEW h, Settled(kk, h), NEW k2, Settled(k2, h),
           Keeps(kk, k2, h), NEW p
    PROVE  Call(kk, k2, p)
<1>1. /\ Agrees(kk, h) /\ Agrees(k2, h) /\ h \in Holds
  BY SettledParts
<1>2. FdsKeep(kk, k2)
  BY FdsKeepBy
<1>3. \A q \in Procs, g \in Fds : k2.fdt[q][g] = kk.fdt[q][g]
  BY <1>1 DEF Agrees
<1> QED
  BY <1>1, <1>2, <1>3 DEF Call

LEMMA GainedCall ==
    ASSUME FdAssumption, NEW kk, NEW h, Settled(kk, h), NEW k2,
           NEW p \in Procs, NEW f, Gained(kk, k2, h, p, f)
    PROVE  Call(kk, k2, p)
<1>1. PICK v \in Descs \cup {None} :
        /\ Settled(k2, Filled(h, p, f, v))
        /\ Keeps(kk, k2, h)
        /\ \A q \in Procs, g \in Fds : q # p \/ g # f => k2.fdt[q][g] = kk.fdt[q][g]
  BY DEF Gained
<1>2. PICK h2 : h2 = Filled(h, p, f, v)
  OBVIOUS
<1>3. Settled(k2, h2) /\ h2 \in Holds
  BY <1>1, <1>2, SettledParts
<1>4. FdsKeep(kk, k2)
  BY <1>1, <1>3, FdsKeepBy
<1> QED
  BY <1>1, <1>3, <1>4 DEF Call

LEMMA PipeCall ==
    ASSUME FdAssumption, NEW kk, NEW h, Settled(kk, h), NEW p \in Procs,
           NEW i \in Pipes, ~kk.pipes[i].used,
           NEW r \in Descs, NEW w \in Descs, r # w,
           kk.descs[r].refs = 0, kk.descs[w].refs = 0,
           NEW k5, k5 = PipeInstalled(kk, p, i, r, w), NEW room \in BOOLEAN,
           room \/ FewFds(kk, p),
           NEW k7, k7 = IF room THEN k5 ELSE PipeUndone(k5, p, i, FreeFd(kk, p, 0))
    PROVE  Call(kk, k7, p)
<1>1. CASE room
  <2>1. PICK f : f = FreeFd(kk, p, 0)
    OBVIOUS
  <2>2. PICK h5 \in Holds :
          /\ Settled(k5, h5)
          /\ Keeps(kk, k5, h)
          /\ \A q \in Procs \ {p}, g \in Fds : k5.fdt[q][g] = kk.fdt[q][g]
          /\ FewFds(kk, p) => h5 = Filled(h, p, f, r)
    BY <2>1, PipeGains
  <2>3. FdsKeep(kk, k5)
    BY <2>2, FdsKeepBy
  <2> QED
    BY <1>1, <2>2, <2>3 DEF Call
<1>2. CASE ~room
  <2>1. PICK f : f = FreeFd(kk, p, 0)
    OBVIOUS
  <2>2. k7 = PipeUndone(k5, p, i, f)
    BY <1>2, <2>1
  <2>3. Settled(k7, h) /\ Keeps(kk, k7, h)
    BY <1>2, <2>1, <2>2, PipeLost
  <2> QED
    BY <2>3, SettledSame
<1> QED
  BY <1>1, <1>2

LEMMA CloseCall ==
    ASSUME FdAssumption, NEW kk, NEW h, Settled(kk, h), NEW p \in Procs, NEW f \in Fds,
           NEW k2, k2 = fd_close(kk, p, f)
    PROVE  Call(kk, k2, p)
<1>1. Counted(kk, h) /\ Agrees(kk, h) /\ h \in Holds /\ h[Spare1] = None /\ h[Spare2] = None
  BY SettledParts
<1>2. PICK h2 : h2 = [h EXCEPT ![<<p, f>>] = None]
  OBVIOUS
<1>3. Counted(k2, h2) /\ Agrees(k2, h2) /\ Keeps(kk, k2, h2)
  <2>1. /\ Counted(k2, [h EXCEPT ![<<p, f>>] = None])
        /\ Agrees(k2, [h EXCEPT ![<<p, f>>] = None])
        /\ Keeps(kk, k2, [h EXCEPT ![<<p, f>>] = None])
    BY <1>1, CloseFd
  <2> QED
    BY <1>2, <2>1
<1>4. h2[Spare1] = None /\ h2[Spare2] = None
  BY <1>1, <1>2, SlotFacts DEF Holds
<1>5. Settled(k2, h2) /\ h2 \in Holds
  BY <1>3, <1>4, CountedParts DEF Settled
<1>6. FdsKeep(kk, k2)
  BY <1>3, <1>5, FdsKeepBy
<1>7. ASSUME NEW q \in Procs \ {p}, NEW g \in Fds PROVE k2.fdt[q][g] = kk.fdt[q][g]
  <2>1. <<q, g>> \in Slots
    BY SlotFacts
  <2>2. h2[<<q, g>>] = k2.fdt[q][g] /\ h[<<q, g>>] = kk.fdt[q][g]
    BY <1>1, <1>3 DEF Agrees
  <2> QED
    BY <1>1, <1>2, <2>1, <2>2 DEF Holds
<1> QED
  BY <1>5, <1>6, <1>7 DEF Call

LEMMA ConnectCall ==
    ASSUME FdAssumption, NEW kk, NEW h, Settled(kk, h), NEW p \in Procs,
           \E j \in Socks : kk.socks["TCP6"][j] = 0,
           NEW k1, k1 = SocketInstalled(kk, p, "TCP6"),
           NEW f, f = FreeFd(kk, p, 0), NEW established \in BOOLEAN,
           NEW k2, k2 = IF established \/ f = None THEN k1 ELSE fd_close(k1, p, f)
    PROVE  Call(kk, k2, p)
<1>1. Gained(kk, k1, h, p, f)
  BY SocketGains DEF SockKinds
<1>2. CASE established \/ f = None
  <2>1. k2 = k1
    BY <1>2
  <2>2. Call(kk, k1, p)
    BY <1>1, GainedCall
  <2> QED
    BY <2>1, <2>2
<1>3. CASE ~established /\ f # None
  <2>1. f \in Fds /\ kk.fdt[p][f] = None
    BY <1>3, FreeFdFree
  <2>2. PICK v \in Descs \cup {None} :
          /\ Settled(k1, Filled(h, p, f, v))
          /\ Keeps(kk, k1, h)
          /\ \A q \in Procs, g \in Fds : q # p \/ g # f => k1.fdt[q][g] = kk.fdt[q][g]
    BY <1>1 DEF Gained
  <2>3. k2 = fd_close(k1, p, f)
    BY <1>3
  <2>4. Settled(k2, h) /\ Keeps(kk, k2, h)
    BY <2>1, <2>2, <2>3, CloseBack
  <2> QED
    BY <2>4, SettledSame
<1> QED
  BY <1>2, <1>3

LEMMA DupCall ==
    ASSUME FdAssumption, NEW kk, NEW h, Settled(kk, h), NEW p \in Procs,
           NEW old \in Fds, NEW new \in Fds, old # new, kk.fdt[p][old] # None,
           NEW k3, k3 = AfterDup3(kk, p, old, new)
    PROVE  Call(kk, k3, p)
<1>1. /\ Counted(kk, h) /\ Agrees(kk, h) /\ h \in Holds /\ kk \in Tables
      /\ h[Spare1] = None /\ h[Spare2] = None
  BY SettledParts
<1>2. PICK d \in Descs : d = kk.fdt[p][old]
  BY <1>1, TablesParts
<1>3. PICK s, t \in Slots : s = <<p, new>> /\ t = <<p, old>> /\ s # t
                            /\ s # Spare1 /\ s # Spare2
  BY SlotFacts
<1>4. PICK k1 : k1 = fd_close(kk, p, new)
  OBVIOUS
<1>5. PICK h1 : h1 = [h EXCEPT ![s] = None]
  OBVIOUS
<1>6. Counted(k1, h1) /\ Agrees(k1, h1) /\ Keeps(kk, k1, h1)
  <2>1. /\ Counted(k1, [h EXCEPT ![<<p, new>>] = None])
        /\ Agrees(k1, [h EXCEPT ![<<p, new>>] = None])
        /\ Keeps(kk, k1, [h EXCEPT ![<<p, new>>] = None])
    BY <1>1, <1>4, CloseFd
  <2> QED
    BY <1>3, <1>5, <2>1
<1>7. k1 \in Tables /\ h1 \in Holds
  BY <1>6, CountedParts
<1>8. h1[s] = None /\ h1[t] = d /\ h1[Spare1] = None /\ h1[Spare2] = None
  BY <1>1, <1>2, <1>3, <1>5, SlotFacts DEF Holds, Agrees
<1>9. k1.descs[d].refs # 0
  BY <1>6, <1>8, CountAndHolder
<1>10. PICK k2 : k2 = WithFd(k1, p, new, d)
  OBVIOUS
<1>11. /\ k2 \in Tables
       /\ k2.descs = k1.descs /\ k2.pipes = k1.pipes /\ k2.socks = k1.socks
       /\ k2.fdt[p][new] = d
       /\ \A q \in Procs, g \in Fds : q # p \/ g # new => k2.fdt[q][g] = k1.fdt[q][g]
  <2>1. k1 \in Tables
    BY <1>7
  <2>2. FdPut(k2, k1, p, new, d)
    BY <1>10, <2>1, PutFd
  <2> QED
    BY <1>7, <2>2 DEF FdPut
<1>12. Counted(k2, h1) /\ \A x \in Descs : SameObject(k1, k2, x)
  BY <1>6, <1>11, FdsDoNotCount
<1>13. k3 = desc_incref(k2, d)
  BY <1>2, <1>4, <1>10 DEF AfterDup3, WithFd
<1>14. PICK h2 : h2 = [h1 EXCEPT ![s] = d]
  OBVIOUS
<1>15. Counted(k3, h2) /\ k3.fdt = k2.fdt /\ \A x \in Descs : SameObject(k2, k3, x)
  <2>1. /\ Counted(k3, [h1 EXCEPT ![s] = d])
        /\ k3.fdt = k2.fdt
        /\ \A x \in Descs : SameObject(k2, k3, x)
    BY <1>8, <1>9, <1>11, <1>12, <1>13, IncrefCounted
  <2> QED
    BY <1>14, <2>1
<1>16. h2 \in Holds /\ h2[Spare1] = None /\ h2[Spare2] = None
  BY <1>3, <1>7, <1>8, <1>14, SlotFacts DEF Holds
<1>17. ASSUME NEW q \in Procs, NEW g \in Fds PROVE h2[<<q, g>>] = k3.fdt[q][g]
  <2>1. <<q, g>> \in Slots /\ h1[<<q, g>>] = k1.fdt[q][g]
    BY <1>6, SlotFacts DEF Agrees
  <2>2. CASE q = p /\ g = new
    BY <1>3, <1>7, <1>11, <1>14, <1>15, <2>1, <2>2 DEF Holds
  <2>3. CASE q # p \/ g # new
    BY <1>3, <1>7, <1>11, <1>14, <1>15, <2>1, <2>3 DEF Holds
  <2> QED
    BY <2>2, <2>3
<1>18. Settled(k3, h2)
  BY <1>15, <1>16, <1>17 DEF Settled, Agrees
<1>19. Keeps(kk, k3, h2)
  <2>1. ASSUME NEW x \in Slots, h2[x] \in Descs PROVE SameObject(kk, k3, h2[x])
    <3>1. PICK y \in Slots : h1[y] = h2[x]
      BY <1>3, <1>7, <1>8, <1>14 DEF Holds
    <3>2. SameObject(kk, k1, h2[x]) /\ SameObject(k1, k2, h2[x]) /\ SameObject(k2, k3, h2[x])
      BY <1>6, <1>12, <1>15, <2>1, <3>1 DEF Keeps
    <3> QED
      BY <3>2 DEF SameObject
  <2> QED
    BY <2>1 DEF Keeps
<1>20. FdsKeep(kk, k3)
  BY <1>18, <1>19, FdsKeepBy
<1>21. ASSUME NEW q \in Procs \ {p}, NEW g \in Fds PROVE k3.fdt[q][g] = kk.fdt[q][g]
  <2>1. <<q, g>> \in Slots /\ <<q, g>> # s
    BY <1>3, SlotFacts
  <2>2. h2[<<q, g>>] = h[<<q, g>>]
    BY <1>1, <1>5, <1>14, <2>1 DEF Holds
  <2> QED
    BY <1>1, <1>17, <2>2 DEF Agrees
<1> QED
  BY <1>16, <1>18, <1>20, <1>21 DEF Call

-----------------------------------------------------------------------------
(* Loops over the descriptors of a process.                                *)

IsCloses(kk, p, g) ==
    g = [n \in 0 .. MAX_FDS |-> IF n = 0 THEN kk ELSE fd_close(g[n - 1], p, n - 1)]

\* What is held when the descriptors of p below n are closed.
HeldAfterCloses(h, p, n) ==
    [s \in Slots |-> IF s[1] = p /\ s[2] < n THEN None ELSE h[s]]

\* The loop has a value: the one of n turns extends to n + 1 turns.
LEMMA ClosesExist ==
    ASSUME FdAssumption, NEW kk, NEW p
    PROVE  \E g : IsCloses(kk, p, g)
<1> DEFINE Up(n, g) == g = [m \in 0 .. n |-> IF m = 0 THEN kk ELSE fd_close(g[m - 1], p, m - 1)]
           S == {n \in 0 .. MAX_FDS : \E g : Up(n, g)}
<1>1. MAX_FDS \in Nat
  BY DEF FdAssumption
<1>2. 0 \in S
  <2>1. PICK g : g = [m \in 0 .. 0 |-> kk]
    OBVIOUS
  <2>2. Up(0, g)
    BY <2>1
  <2> QED
    BY <1>1, <2>2
<1>3. ASSUME NEW n \in 0 .. MAX_FDS - 1, n \in S PROVE n + 1 \in S
  <2>1. PICK g : Up(n, g)
    BY <1>3
  <2>2. PICK g2 : g2 = [m \in 0 .. n + 1 |-> IF m <= n THEN g[m] ELSE fd_close(g[n], p, n)]
    OBVIOUS
  <2>3. ASSUME NEW m \in 0 .. n + 1
        PROVE  g2[m] = IF m = 0 THEN kk ELSE fd_close(g2[m - 1], p, m - 1)
    <3>1. CASE m = 0
      BY <1>1, <2>1, <2>2, <3>1
    <3>2. CASE m # 0 /\ m <= n
      <4>1. g[m] = fd_close(g[m - 1], p, m - 1)
        BY <2>1, <3>2
      <4>2. g2[m] = g[m] /\ g2[m - 1] = g[m - 1]
        BY <2>2, <3>2
      <4> QED
        BY <3>2, <4>1, <4>2
    <3>3. CASE m = n + 1
      <4>1. g2[m] = fd_close(g[n], p, n) /\ g2[n] = g[n] /\ m - 1 = n /\ m # 0
        BY <2>2, <3>3
      <4> QED
        BY <4>1
    <3> QED
      BY <3>1, <3>2, <3>3
  <2>4. Up(n + 1, g2)
    BY <2>2, <2>3
  <2> QED
    BY <1>1, <2>4
<1> HIDE DEF S
<1>4. 0 .. MAX_FDS \subseteq S
  BY <1>1, <1>2, <1>3, CountsUp
<1>5. MAX_FDS \in S
  BY <1>1, <1>4
<1> QED
  BY <1>5 DEF S, IsCloses

\* proc_close_all_fds is what the loop has after all its turns.
LEMMA ClosesLoop ==
    ASSUME FdAssumption, NEW kk, NEW p
    PROVE  \E g : IsCloses(kk, p, g) /\ proc_close_all_fds(kk, p) = g[MAX_FDS]
<1>1. PICK g : g = CHOOSE x : IsCloses(kk, p, x)
  OBVIOUS
<1>2. IsCloses(kk, p, g)
  BY <1>1, ClosesExist
<1>3. g[MAX_FDS] = proc_close_all_fds(kk, p)
  BY <1>1 DEF proc_close_all_fds, IsCloses
<1> QED
  BY <1>2, <1>3

LEMMA ClosesCounted ==
    ASSUME FdAssumption, NEW kk, NEW h, Settled(kk, h), NEW p \in Procs,
           NEW g, IsCloses(kk, p, g)
    PROVE  \A n \in 0 .. MAX_FDS : /\ Counted(g[n], HeldAfterCloses(h, p, n))
                                   /\ Agrees(g[n], HeldAfterCloses(h, p, n))
                                   /\ Keeps(kk, g[n], HeldAfterCloses(h, p, n))
<1> DEFINE P(n) == /\ Counted(g[n], HeldAfterCloses(h, p, n))
                   /\ Agrees(g[n], HeldAfterCloses(h, p, n))
                   /\ Keeps(kk, g[n], HeldAfterCloses(h, p, n))
           S == {n \in 0 .. MAX_FDS : P(n)}
<1>1. /\ Counted(kk, h) /\ Agrees(kk, h) /\ h \in Holds
  BY SettledParts
<1>2. MAX_FDS \in Nat /\ MaxProcs \in Nat
  BY DEF FdAssumption
<1>3. P(0)
  <2>1. g[0] = kk
    BY <1>2 DEF IsCloses
  <2>2. ASSUME NEW s \in Slots PROVE HeldAfterCloses(h, p, 0)[s] = h[s]
    <3>1. ~(s[1] = p /\ s[2] < 0)
      BY <1>2 DEF Slots, Fds, Spare1, Spare2
    <3> QED
      BY <3>1 DEF HeldAfterCloses
  <2>3. HeldAfterCloses(h, p, 0) = h
    BY <1>1, <2>2 DEF HeldAfterCloses, Holds
  <2> QED
    BY <1>1, <2>1, <2>3 DEF Keeps, SameObject
<1>4. ASSUME NEW n \in 0 .. MAX_FDS - 1, P(n) PROVE P(n + 1)
  <2>1. n \in Fds /\ n \in 0 .. MAX_FDS /\ n + 1 \in 0 .. MAX_FDS /\ n + 1 # 0 /\ (n + 1) - 1 = n
    BY <1>2 DEF Fds
  <2>2. g[n + 1] = fd_close(g[n], p, n)
    BY <2>1 DEF IsCloses
  <2>3. PICK ka, kb, ha, hb : /\ ka = g[n] /\ kb = g[n + 1]
                              /\ ha = HeldAfterCloses(h, p, n)
                              /\ hb = HeldAfterCloses(h, p, n + 1)
    OBVIOUS
  <2>4. Counted(ka, ha) /\ Agrees(ka, ha) /\ Keeps(kk, ka, ha) /\ kb = fd_close(ka, p, n)
    BY <1>4, <2>2, <2>3
  <2>5. /\ Counted(kb, [ha EXCEPT ![<<p, n>>] = None])
        /\ Agrees(kb, [ha EXCEPT ![<<p, n>>] = None])
        /\ Keeps(ka, kb, [ha EXCEPT ![<<p, n>>] = None])
    BY <2>1, <2>4, CloseFd
  <2>6. ha \in Holds
    BY <2>4, CountedParts
  <2>7. ASSUME NEW s \in Slots PROVE [ha EXCEPT ![<<p, n>>] = None][s] = hb[s]
    <3>1. CASE s = <<p, n>>
      BY <2>1, <2>3, <2>6, <3>1 DEF HeldAfterCloses, Holds
    <3>2. CASE s # <<p, n>>
      <4>1. [ha EXCEPT ![<<p, n>>] = None][s] = ha[s]
        BY <2>6, <3>2 DEF Holds
      <4>2. s[1] = p /\ s[2] < n + 1 <=> s[1] = p /\ s[2] < n
        BY <1>2, <2>1, <3>2 DEF Slots, Fds, Spare1, Spare2, Procs
      <4> QED
        BY <2>3, <4>1, <4>2 DEF HeldAfterCloses
    <3> QED
      BY <3>1, <3>2
  <2>8. [ha EXCEPT ![<<p, n>>] = None] = hb
    <3>1. hb = [s \in Slots |-> hb[s]]
      BY <2>3 DEF HeldAfterCloses
    <3>2. [ha EXCEPT ![<<p, n>>] = None] = [s \in Slots |-> [ha EXCEPT ![<<p, n>>] = None][s]]
      BY <2>6 DEF Holds
    <3> QED
      BY <2>7, <3>1, <3>2
  <2>9. Counted(kb, hb) /\ Agrees(kb, hb) /\ Keeps(ka, kb, hb)
    BY <2>5, <2>8
  <2>10. Keeps(kk, kb, hb)
    <3>1. ASSUME NEW s \in Slots, hb[s] \in Descs PROVE SameObject(kk, kb, hb[s])
      <4>1. ha[s] = hb[s]
        <5>1. s # <<p, n>>
          BY <2>6, <2>7, <3>1, NoneIsNone DEF Holds
        <5> QED
          BY <2>6, <2>7, <5>1 DEF Holds
      <4>2. SameObject(kk, ka, hb[s]) /\ SameObject(ka, kb, hb[s])
        BY <2>4, <2>9, <3>1, <4>1 DEF Keeps
      <4> QED
        BY <4>2 DEF SameObject
    <3> QED
      BY <3>1 DEF Keeps
  <2> QED
    BY <2>3, <2>9, <2>10
<1> HIDE DEF P
<1>5. 0 \in S /\ \A n \in 0 .. MAX_FDS - 1 : n \in S => n + 1 \in S
  BY <1>2, <1>3, <1>4
<1> HIDE DEF S
<1>6. 0 .. MAX_FDS \subseteq S
  BY <1>2, <1>5, CountsUp
<1> QED
  BY <1>6 DEF S, P

LEMMA ExitCall ==
    ASSUME FdAssumption, NEW kk, NEW h, Settled(kk, h), NEW p \in Procs,
           NEW k2, k2 = proc_close_all_fds(kk, p)
    PROVE  Call(kk, k2, p) /\ \A f \in Fds : k2.fdt[p][f] = None
<1>1. PICK g : IsCloses(kk, p, g) /\ k2 = g[MAX_FDS]
  BY ClosesLoop
<1>2. MAX_FDS \in 0 .. MAX_FDS
  BY DEF FdAssumption
<1>3. PICK h2 : h2 = HeldAfterCloses(h, p, MAX_FDS)
  OBVIOUS
<1>4. Counted(k2, h2) /\ Agrees(k2, h2) /\ Keeps(kk, k2, h2)
  BY <1>1, <1>2, <1>3, ClosesCounted
<1>5. Agrees(kk, h) /\ h[Spare1] = None /\ h[Spare2] = None
  BY SettledParts
<1>6. h2[Spare1] = None /\ h2[Spare2] = None
  BY <1>3, <1>5, SlotFacts DEF HeldAfterCloses
<1>7. h2 \in Holds /\ Settled(k2, h2)
  BY <1>4, <1>6, CountedParts DEF Settled
<1>8. FdsKeep(kk, k2)
  BY <1>4, <1>7, FdsKeepBy
<1>9. ASSUME NEW q \in Procs, NEW f \in Fds
      PROVE  k2.fdt[q][f] = IF q = p THEN None ELSE kk.fdt[q][f]
  <2>1. <<q, f>> \in Slots /\ h2[<<q, f>>] = k2.fdt[q][f] /\ h[<<q, f>>] = kk.fdt[q][f]
    BY <1>4, <1>5, SlotFacts DEF Agrees
  <2>2. f < MAX_FDS
    BY DEF Fds, FdAssumption
  <2>3. h2[<<q, f>>] = IF q = p THEN None ELSE h[<<q, f>>]
    BY <1>3, <2>1, <2>2 DEF HeldAfterCloses
  <2> QED
    BY <2>1, <2>3
<1>10. /\ \A q \in Procs \ {p}, f \in Fds : k2.fdt[q][f] = kk.fdt[q][f]
       /\ \A f \in Fds : k2.fdt[p][f] = None
  BY <1>9
<1> QED
  BY <1>7, <1>8, <1>10 DEF Call

IsCounts(kk, p, c, g) ==
    g = [n \in 0 .. MAX_FDS |->
           IF n = 0 THEN [kk EXCEPT !.fdt[c] = kk.fdt[p]]
           ELSE IF kk.fdt[p][n - 1] = None THEN g[n - 1]
           ELSE desc_incref(g[n - 1], kk.fdt[p][n - 1])]

\* What is held when the descriptors of the child c below n are counted.
HeldAfterCounts(kk, h, p, c, n) ==
    [s \in Slots |-> IF s[1] = c /\ s[2] < n THEN kk.fdt[p][s[2]] ELSE h[s]]

LEMMA CountsExist ==
    ASSUME FdAssumption, NEW kk, NEW p, NEW c
    PROVE  \E g : IsCounts(kk, p, c, g)
<1> DEFINE Next1(x, m) == IF kk.fdt[p][m] = None THEN x ELSE desc_incref(x, kk.fdt[p][m])
           k0 == [kk EXCEPT !.fdt[c] = kk.fdt[p]]
           Up(n, g) == g = [m \in 0 .. n |-> IF m = 0 THEN k0 ELSE Next1(g[m - 1], m - 1)]
           S == {n \in 0 .. MAX_FDS : \E g : Up(n, g)}
<1>1. MAX_FDS \in Nat
  BY DEF FdAssumption
<1>2. ASSUME NEW g, Up(MAX_FDS, g) PROVE IsCounts(kk, p, c, g)
  BY <1>2 DEF IsCounts
<1> HIDE DEF Next1, k0
<1>3. 0 \in S
  <2>1. PICK g : g = [m \in 0 .. 0 |-> k0]
    OBVIOUS
  <2>2. Up(0, g)
    BY <2>1
  <2> QED
    BY <1>1, <2>2
<1>4. ASSUME NEW n \in 0 .. MAX_FDS - 1, n \in S PROVE n + 1 \in S
  <2>1. PICK g : Up(n, g)
    BY <1>4
  <2>2. PICK g2 : g2 = [m \in 0 .. n + 1 |-> IF m <= n THEN g[m] ELSE Next1(g[n], n)]
    OBVIOUS
  <2>3. ASSUME NEW m \in 0 .. n + 1
        PROVE  g2[m] = IF m = 0 THEN k0 ELSE Next1(g2[m - 1], m - 1)
    <3>1. CASE m = 0
      BY <1>1, <2>1, <2>2, <3>1
    <3>2. CASE m # 0 /\ m <= n
      <4>1. g[m] = Next1(g[m - 1], m - 1)
        BY <2>1, <3>2
      <4>2. g2[m] = g[m] /\ g2[m - 1] = g[m - 1]
        BY <2>2, <3>2
      <4> QED
        BY <3>2, <4>1, <4>2
    <3>3. CASE m = n + 1
      <4>1. g2[m] = Next1(g[n], n) /\ g2[n] = g[n] /\ m - 1 = n /\ m # 0
        BY <2>2, <3>3
      <4> QED
        BY <4>1
    <3> QED
      BY <3>1, <3>2, <3>3
  <2>4. Up(n + 1, g2)
    BY <2>2, <2>3
  <2> QED
    BY <1>1, <2>4
<1> HIDE DEF S
<1>5. 0 .. MAX_FDS \subseteq S
  BY <1>1, <1>3, <1>4, CountsUp
<1>6. MAX_FDS \in S
  BY <1>1, <1>5
<1> QED
  BY <1>2, <1>6 DEF S

\* Inherited is what the loop has after all its turns.
LEMMA CountsLoop ==
    ASSUME FdAssumption, NEW kk, NEW p, NEW c
    PROVE  \E g : IsCounts(kk, p, c, g) /\ Inherited(kk, p, c) = g[MAX_FDS]
<1>1. PICK g : g = CHOOSE x : IsCounts(kk, p, c, x)
  OBVIOUS
<1>2. IsCounts(kk, p, c, g)
  BY <1>1, CountsExist
<1>3. g[MAX_FDS] = Inherited(kk, p, c)
  BY <1>1 DEF Inherited, IsCounts
<1> QED
  BY <1>2, <1>3

LEMMA CountsCounted ==
    ASSUME FdAssumption, NEW kk, NEW h, Settled(kk, h), NEW p \in Procs, NEW c \in Procs,
           c # p, \A f \in Fds : kk.fdt[c][f] = None,
           NEW g, IsCounts(kk, p, c, g)
    PROVE  \A n \in 0 .. MAX_FDS :
              /\ Counted(g[n], HeldAfterCounts(kk, h, p, c, n))
              /\ \A q \in Procs, f \in Fds :
                    g[n].fdt[q][f] = IF q = c THEN kk.fdt[p][f] ELSE kk.fdt[q][f]
              /\ \A x \in Descs : SameObject(kk, g[n], x)
<1> DEFINE Fdt(kx) == \A q \in Procs, f \in Fds :
                         kx.fdt[q][f] = IF q = c THEN kk.fdt[p][f] ELSE kk.fdt[q][f]
           P(n) == /\ Counted(g[n], HeldAfterCounts(kk, h, p, c, n))
                   /\ Fdt(g[n])
                   /\ \A x \in Descs : SameObject(kk, g[n], x)
           S == {n \in 0 .. MAX_FDS : P(n)}
<1>1. /\ Counted(kk, h) /\ Agrees(kk, h) /\ h \in Holds /\ kk \in Tables
  BY SettledParts
<1>2. MAX_FDS \in Nat /\ MaxProcs \in Nat
  BY DEF FdAssumption
<1>3. P(0)
  <2>1. PICK k0 : k0 = [kk EXCEPT !.fdt[c] = kk.fdt[p]]
    OBVIOUS
  <2>2. g[0] = k0
    BY <1>2, <2>1 DEF IsCounts
  <2>3. /\ k0 \in Tables
        /\ k0.descs = kk.descs /\ k0.pipes = kk.pipes /\ k0.socks = kk.socks
        /\ k0.fdt = [kk.fdt EXCEPT ![c] = kk.fdt[p]]
    BY <1>1, <2>1 DEF Tables
  <2>4. Fdt(k0)
    BY <1>1, <2>3, TablesParts
  <2>5. Counted(k0, h) /\ \A x \in Descs : SameObject(kk, k0, x)
    BY <1>1, <2>3, FdsDoNotCount
  <2>6. ASSUME NEW s \in Slots PROVE HeldAfterCounts(kk, h, p, c, 0)[s] = h[s]
    <3>1. ~(s[1] = c /\ s[2] < 0)
      BY <1>2 DEF Slots, Fds, Spare1, Spare2
    <3> QED
      BY <3>1 DEF HeldAfterCounts
  <2>7. HeldAfterCounts(kk, h, p, c, 0) = h
    BY <1>1, <2>6 DEF HeldAfterCounts, Holds
  <2> QED
    BY <2>2, <2>4, <2>5, <2>7
<1>4. ASSUME NEW n \in 0 .. MAX_FDS - 1, P(n) PROVE P(n + 1)
  <2>1. n \in Fds /\ n \in 0 .. MAX_FDS /\ n + 1 \in 0 .. MAX_FDS /\ n + 1 # 0 /\ (n + 1) - 1 = n
    BY <1>2 DEF Fds
  <2>2. PICK d : d = kk.fdt[p][n]
    OBVIOUS
  <2>3. PICK ka, kb, ha, hb : /\ ka = g[n] /\ kb = g[n + 1]
                              /\ ha = HeldAfterCounts(kk, h, p, c, n)
                              /\ hb = HeldAfterCounts(kk, h, p, c, n + 1)
    OBVIOUS
  <2>4. kb = IF d = None THEN ka ELSE desc_incref(ka, d)
    BY <2>1, <2>2, <2>3 DEF IsCounts
  <2>5. Counted(ka, ha) /\ Fdt(ka) /\ \A x \in Descs : SameObject(kk, ka, x)
    BY <1>4, <2>3
  <2> HIDE DEF Fdt
  <2>6. ha \in Holds
    BY <2>5, CountedParts
  <2>7. PICK s, t \in Slots : s = <<c, n>> /\ t = <<p, n>>
    BY <2>1, SlotFacts
  <2>8. ha[s] = None /\ ha[t] = d /\ hb[s] = d
    <3>1. h[s] = None /\ h[t] = d
      BY <1>1, <2>1, <2>2, <2>7 DEF Agrees
    <3> QED
      BY <1>2, <2>1, <2>2, <2>3, <2>7, <3>1 DEF HeldAfterCounts
  <2>9. ASSUME NEW x \in Slots, x # s PROVE hb[x] = ha[x]
    <3>1. x[1] = c /\ x[2] < n + 1 <=> x[1] = c /\ x[2] < n
      BY <1>2, <2>1, <2>7, <2>9 DEF Slots, Fds, Spare1, Spare2, Procs
    <3> QED
      BY <2>3, <3>1 DEF HeldAfterCounts
  <2>10. hb = [ha EXCEPT ![s] = d]
    <3>1. hb = [x \in Slots |-> hb[x]]
      BY <2>3 DEF HeldAfterCounts
    <3>2. [ha EXCEPT ![s] = d] = [x \in Slots |-> IF x = s THEN d ELSE ha[x]]
      BY <2>6 DEF Holds
    <3>3. \A x \in Slots : hb[x] = IF x = s THEN d ELSE ha[x]
      BY <2>8, <2>9
    <3> QED
      BY <3>1, <3>2, <3>3
  <2>11. CASE d = None
    <3>1. hb = ha
      BY <2>6, <2>8, <2>10, <2>11 DEF Holds
    <3>2. kb = ka
      BY <2>4, <2>11
    <3> QED
      BY <2>3, <2>5, <3>1, <3>2
  <2>12. CASE d \in Descs
    <3>1. ka.descs[d].refs # 0
      BY <2>5, <2>8, <2>12, CountAndHolder
    <3>2. kb = desc_incref(ka, d)
      BY <2>4, <2>12, NoneIsNone
    <3>3. /\ Counted(kb, [ha EXCEPT ![s] = d])
          /\ kb.fdt = ka.fdt
          /\ \A x \in Descs : SameObject(ka, kb, x)
      BY <2>5, <2>8, <2>12, <3>1, <3>2, IncrefCounted
    <3>4. Counted(kb, hb) /\ Fdt(kb)
      BY <2>5, <2>10, <3>3 DEF Fdt
    <3>5. \A x \in Descs : SameObject(kk, kb, x)
      BY <2>5, <3>3 DEF SameObject
    <3> QED
      BY <2>3, <3>4, <3>5
  <2>13. d \in Descs \cup {None}
    BY <1>1, <2>1, <2>2, TablesParts
  <2> QED
    BY <2>11, <2>12, <2>13
<1> HIDE DEF P
<1>5. 0 \in S /\ \A n \in 0 .. MAX_FDS - 1 : n \in S => n + 1 \in S
  BY <1>2, <1>3, <1>4
<1> HIDE DEF S
<1>6. 0 .. MAX_FDS \subseteq S
  BY <1>2, <1>5, CountsUp
<1> QED
  BY <1>6 DEF S, P

LEMMA CloneCall ==
    ASSUME FdAssumption, NEW kk, NEW h, Settled(kk, h), NEW p \in Procs, NEW c \in Procs,
           c # p, \A f \in Fds : kk.fdt[c][f] = None,
           NEW k2, k2 = Inherited(kk, p, c)
    PROVE  Call(kk, k2, c)
<1>1. PICK g : IsCounts(kk, p, c, g) /\ k2 = g[MAX_FDS]
  BY CountsLoop
<1>2. MAX_FDS \in 0 .. MAX_FDS
  BY DEF FdAssumption
<1>3. PICK h2 : h2 = HeldAfterCounts(kk, h, p, c, MAX_FDS)
  OBVIOUS
<1>4. /\ Counted(k2, h2)
      /\ \A q \in Procs, f \in Fds :
            k2.fdt[q][f] = IF q = c THEN kk.fdt[p][f] ELSE kk.fdt[q][f]
      /\ \A x \in Descs : SameObject(kk, k2, x)
  BY <1>1, <1>2, <1>3, CountsCounted
<1>5. Agrees(kk, h) /\ h[Spare1] = None /\ h[Spare2] = None
  BY SettledParts
<1>6. h2[Spare1] = None /\ h2[Spare2] = None
  <2>1. Spare1[1] = MaxProcs /\ Spare2[1] = MaxProcs /\ c # MaxProcs
    BY DEF Spare1, Spare2, Procs, FdAssumption
  <2> QED
    BY <1>3, <1>5, <2>1, SlotFacts DEF HeldAfterCounts
<1>7. ASSUME NEW q \in Procs, NEW f \in Fds PROVE h2[<<q, f>>] = k2.fdt[q][f]
  <2>1. <<q, f>> \in Slots /\ h[<<q, f>>] = kk.fdt[q][f]
    BY <1>5, SlotFacts DEF Agrees
  <2>2. f < MAX_FDS
    BY DEF Fds, FdAssumption
  <2> QED
    BY <1>3, <1>4, <2>1, <2>2 DEF HeldAfterCounts
<1>8. h2 \in Holds /\ Settled(k2, h2)
  BY <1>4, <1>6, <1>7, CountedParts DEF Settled, Agrees
<1>9. Keeps(kk, k2, h2)
  BY <1>4 DEF Keeps
<1>10. FdsKeep(kk, k2)
  BY <1>8, <1>9, FdsKeepBy
<1> QED
  BY <1>4, <1>8, <1>10 DEF Call

-----------------------------------------------------------------------------
(* The invariant of the file descriptors.                                  *)

FdInv ==
    /\ live \subseteq Procs /\ 0 \in live
    /\ \E h \in Holds : Settled(k, h)
    /\ \A p \in Procs \ live, f \in Fds : k.fdt[p][f] = None

\* The standard descriptors of init are all that is held at first.
LEMMA InitSettled ==
    ASSUME FdAssumption, Init
    PROVE  FdInv
<1>1. /\ MaxProcs \in Nat /\ MaxProcs > 0 /\ MAX_FDS \in Nat /\ StdFds \in Nat
      /\ StdFds <= MAX_FDS /\ MAX_FILEDESCS \in Nat /\ MAX_FILEDESCS > 0
  BY DEF FdAssumption
<1>2. 0 \in Procs /\ 0 \in Descs
  BY <1>1 DEF Procs, Descs
<1> DEFINE std == [Desc("UART", 0, "read") EXCEPT !.refs = StdFds]
           h == [s \in Slots |-> IF s[1] = 0 /\ s[2] < StdFds THEN 0 ELSE None]
<1>3. /\ std \in DescSet /\ std.refs = StdFds /\ std.kind = "UART"
      /\ ClearDesc \in DescSet /\ ClearDesc.refs = 0 /\ ClearDesc.kind = "UNUSED"
  BY <1>1 DEF Desc, DescSet, Kinds, Ends, ClearDesc
<1>4. FreePipe \in PipeSet /\ FreePipe.used = FALSE /\ \A e \in Ends : FreePipe.refs[e] = 0
  BY DEF FreePipe, PipeSet
<1> HIDE DEF std
<1>5. /\ k.fdt = [p \in Procs |-> [f \in Fds |-> IF p = 0 /\ f < StdFds THEN 0 ELSE None]]
      /\ k.descs = [d \in Descs |-> IF d = 0 /\ StdFds > 0 THEN std ELSE ClearDesc]
      /\ k.pipes = [i \in Pipes |-> FreePipe]
      /\ k.socks = [s \in SockKinds |-> [i \in Socks |-> 0]]
      /\ k = [fdt |-> k.fdt, descs |-> k.descs, pipes |-> k.pipes, socks |-> k.socks]
  BY DEF Init, std
<1>6. k \in Tables
  <2>1. k.fdt \in [Procs -> [Fds -> Descs \cup {None}]]
    BY <1>2, <1>5
  <2>2. k.descs \in [Descs -> DescSet] /\ k.pipes \in [Pipes -> PipeSet]
    BY <1>3, <1>4, <1>5
  <2>3. k.socks \in [SockKinds -> [Socks -> Nat]]
    BY <1>5
  <2> QED
    BY <1>5, <2>1, <2>2, <2>3 DEF Tables
<1>7. h \in Holds
  BY <1>2 DEF Holds
<1>8. \A d \in Descs : k.descs[d].kind = "UART" \/ k.descs[d].kind = "UNUSED"
  BY <1>3, <1>5
<1>9. Backed(k)
  BY <1>8 DEF Backed, SockKinds
<1>10. /\ h[Spare1] = None /\ h[Spare2] = None
  BY <1>1, SlotFacts DEF Spare1, Spare2
<1>11. Agrees(k, h)
  <2>1. ASSUME NEW p \in Procs, NEW f \in Fds PROVE h[<<p, f>>] = k.fdt[p][f]
    <3>1. <<p, f>> \in Slots
      BY SlotFacts
    <3> QED
      BY <1>5, <3>1
  <2> QED
    BY <2>1 DEF Agrees
<1>12. ASSUME NEW d \in Descs PROVE k.descs[d].refs = Num(h, {d})
  <2>1. CASE d = 0
    <3>1. Held(h, {d}) = {0} \X (0 .. StdFds - 1)
      <4>1. ASSUME NEW s \in Slots
            PROVE  h[s] = 0 <=> s \in {0} \X (0 .. StdFds - 1)
        <5>1. CASE s = Spare1 \/ s = Spare2
          BY <1>1, <1>10, <5>1, NoneIsNone, <1>2 DEF Spare1, Spare2
        <5>2. CASE \E q \in Procs, g \in Fds : s = <<q, g>>
          BY <1>1, <1>2, <5>2, NoneIsNone DEF Fds
        <5> QED
          BY <5>1, <5>2, SlotKinds
      <4>2. ASSUME NEW s \in {0} \X (0 .. StdFds - 1) PROVE s \in Slots
        BY <1>1, <1>2, <4>2, SlotFacts DEF Fds
      <4> QED
        BY <2>1, <4>1, <4>2 DEF Held
    <3>2. IsFiniteSet(0 .. StdFds - 1) /\ Cardinality(0 .. StdFds - 1) = StdFds
      BY <1>1, FS_Interval
    <3>3. IsFiniteSet({0}) /\ Cardinality({0}) = 1
      BY FS_Singleton
    <3>4. Cardinality({0} \X (0 .. StdFds - 1)) = 1 * StdFds
      BY <3>2, <3>3, FS_Product
    <3>5. Num(h, {d}) = StdFds
      <4>1. Num(h, {d}) = Cardinality({0} \X (0 .. StdFds - 1))
        BY <3>1 DEF Num
      <4> QED
        BY <1>1, <3>4, <4>1
    <3> QED
      BY <1>1, <1>3, <1>5, <2>1, <3>5
  <2>2. CASE d # 0
    <3>1. \A s \in Slots : h[s] \notin {d}
      BY <2>2, NoneIsNone
    <3>2. Num(h, {d}) = 0
      BY <1>7, <3>1, NumFacts
    <3> QED
      BY <1>3, <1>5, <2>2, <3>2
  <2> QED
    BY <2>1, <2>2
<1>13. ASSUME NEW i \in Pipes, NEW e \in Ends
       PROVE  k.pipes[i].refs[e] = Num(h, EndOf(k, i, e)) /\ k.pipes[i].refs[e] = 0
  <2>1. EndOf(k, i, e) \in SUBSET Descs /\ \A s \in Slots : h[s] \notin EndOf(k, i, e)
    BY <1>8 DEF EndOf
  <2>2. Num(h, EndOf(k, i, e)) = 0
    BY <1>7, <2>1, NumFacts
  <2> QED
    BY <1>4, <1>5, <2>2
<1>14. ASSUME NEW t \in SockKinds, NEW i \in Socks
       PROVE  k.socks[t][i] = Num(h, SockOf(k, t, i))
  <2>1. SockOf(k, t, i) \in SUBSET Descs /\ \A s \in Slots : h[s] \notin SockOf(k, t, i)
    BY <1>8 DEF SockOf, SockKinds
  <2>2. Num(h, SockOf(k, t, i)) = 0
    BY <1>7, <2>1, NumFacts
  <2> QED
    BY <1>5, <2>2
<1>15. \A i \in Pipes : k.pipes[i].used = FALSE
  BY <1>4, <1>5
<1> HIDE DEF h
<1>16. Settled(k, h)
  BY <1>6, <1>7, <1>9, <1>10, <1>11, <1>12, <1>13, <1>14, <1>15
  DEF Settled, Counted, DescsCounted, PipesCounted, SocksCounted
<1>17. \A p \in Procs \ {0}, f \in Fds : k.fdt[p][f] = None
  BY <1>5
<1> QED
  BY <1>2, <1>7, <1>16, <1>17 DEF FdInv, Init

\* What pipe2 takes: two descriptions nobody holds.
LEMMA TwoDescs ==
    ASSUME NEW kk \in Tables, Cardinality({d \in Descs : kk.descs[d].refs = 0}) >= 2,
           NEW r, r = desc_alloc(kk), NEW w, w = desc_alloc([kk EXCEPT !.descs[r].refs = 1])
    PROVE  /\ r \in Descs /\ w \in Descs /\ r # w
           /\ kk.descs[r].refs = 0 /\ kk.descs[w].refs = 0
<1> DEFINE S == {d \in Descs : kk.descs[d].refs = 0}
<1>1. S # {}
  <2>1. Cardinality({}) = 0
    BY FS_EmptySet
  <2>2. S = {} => Cardinality(S) = 0
    BY <2>1
  <2> QED
    BY <2>2
<1>2. r # None
  <2>1. S \in SUBSET Nat
    BY DEF Descs
  <2>2. Lowest(S) \in S
    BY <1>1, <2>1, LowestIn
  <2> QED
    BY <1>1, <2>2, NoneIsNone DEF desc_alloc, LowestOrNone
<1>3. r \in Descs /\ kk.descs[r].refs = 0
  BY <1>2, FreeDesc
<1>4. S # {r}
  <2>1. Cardinality({r}) = 1
    BY FS_Singleton
  <2>2. S = {r} => Cardinality(S) = 1
    BY <2>1
  <2> QED
    BY <2>2
<1>5. PICK x \in S : x # r
  BY <1>1, <1>4
<1>6. PICK k1 : k1 = [kk EXCEPT !.descs[r].refs = 1]
  OBVIOUS
<1>7. /\ k1.descs[r].refs = 1
      /\ \A d \in Descs \ {r} : k1.descs[d] = kk.descs[d]
  <2>1. kk.descs \in [Descs -> DescSet] /\ k1.descs = [kk.descs EXCEPT ![r].refs = 1]
    BY <1>6 DEF Tables
  <2> QED
    BY <1>3, <2>1 DEF DescSet
<1>8. w # None
  <2> DEFINE T == {d \in Descs : k1.descs[d].refs = 0}
  <2>1. x \in T
    BY <1>5, <1>7
  <2>2. T \in SUBSET Nat
    BY DEF Descs
  <2>3. Lowest(T) \in T
    BY <2>1, <2>2, LowestIn
  <2> QED
    BY <1>6, <2>1, <2>3, NoneIsNone DEF desc_alloc, LowestOrNone
<1>9. w \in Descs /\ k1.descs[w].refs = 0
  BY <1>6, <1>8, FreeDesc
<1> QED
  BY <1>3, <1>7, <1>9

\* What the invariant says of a process that makes a call.
LEMMA CallKeepsInv ==
    ASSUME FdInv, NEW p \in Procs, Call(k, k', p), live' = live, p \in live
    PROVE  FdInv' /\ FdsKeep(k, k')
<1>1. \E h \in Holds : Settled(k', h)
  BY DEF Call
<1>2. \A q \in Procs \ live, f \in Fds : k'.fdt[q][f] = None
  BY DEF Call, FdInv
<1> QED
  BY <1>1, <1>2 DEF FdInv, Call

LEMMA FdStep ==
    ASSUME FdAssumption, FdInv, Next
    PROVE  FdInv' /\ FdsKeep(k, k')
<1>1. PICK h \in Holds : Settled(k, h)
  BY DEF FdInv
<1>2. PICK p \in live :
        \/ sys_openat(p)
        \/ \E f \in Fds : sys_close(p, f)
        \/ \E old, new \in Fds : sys_dup3(p, old, new)
        \/ sys_pipe2(p)
        \/ sys_mona_udp6_socket(p)
        \/ \E established \in BOOLEAN : sys_mona_tcp6_connect(p, established)
        \/ sys_clone(p)
        \/ proc_exit(p)
  BY DEF Next
<1>3. p \in Procs /\ live \subseteq Procs /\ 0 \in live
  BY DEF FdInv
<1>4. PICK kk, k2 : kk = k /\ k2 = k'
  OBVIOUS
<1>5. kk \in Tables
  BY <1>1, <1>4, SettledParts
<1>6. ASSUME Call(kk, k2, p), live' = live PROVE FdInv' /\ FdsKeep(k, k')
  BY <1>3, <1>4, <1>6, CallKeepsInv
<1>7. CASE sys_openat(p)
  <2>1. PICK d : d = desc_alloc(kk)
    OBVIOUS
  <2>2. d # None /\ k2 = Install(kk, p, StdFds, d, Desc("FILE", 0, "read")) /\ live' = live
    BY <1>4, <1>7, <2>1 DEF sys_openat
  <2>3. Gained(kk, k2, h, p, FreeFd(kk, p, StdFds))
    BY <1>1, <1>3, <1>4, <2>1, <2>2, OpenGains
  <2>4. Call(kk, k2, p)
    BY <1>1, <1>3, <1>4, <2>3, GainedCall
  <2> QED
    BY <1>6, <2>2, <2>4
<1>8. CASE \E f \in Fds : sys_close(p, f)
  <2>1. PICK f \in Fds : sys_close(p, f)
    BY <1>8
  <2>2. k2 = fd_close(kk, p, f) /\ live' = live
    BY <1>4, <2>1 DEF sys_close
  <2>3. Call(kk, k2, p)
    BY <1>1, <1>3, <1>4, <2>2, CloseCall
  <2> QED
    BY <1>6, <2>2, <2>3
<1>9. CASE \E old, new \in Fds : sys_dup3(p, old, new)
  <2>1. PICK old, new \in Fds : sys_dup3(p, old, new)
    BY <1>9
  <2>2. /\ kk.fdt[p][old] # None /\ old # new
        /\ k2 = AfterDup3(kk, p, old, new) /\ live' = live
    BY <1>4, <2>1 DEF sys_dup3
  <2>3. Call(kk, k2, p)
    BY <1>1, <1>3, <1>4, <2>2, DupCall
  <2> QED
    BY <1>6, <2>2, <2>3
<1>10. CASE sys_pipe2(p)
  <2>1. PICK i, r, w, k5 :
          /\ i = Lowest({x \in Pipes : ~kk.pipes[x].used})
          /\ r = desc_alloc(kk)
          /\ w = desc_alloc([kk EXCEPT !.descs[r].refs = 1])
          /\ k5 = PipeInstalled(kk, p, i, r, w)
    OBVIOUS
  <2>2. PICK room \in BOOLEAN : room <=> Cardinality({f \in Fds : kk.fdt[p][f] = None}) >= 2
    OBVIOUS
  <2>3. /\ {x \in Pipes : ~kk.pipes[x].used} # {}
        /\ Cardinality({d \in Descs : kk.descs[d].refs = 0}) >= 2
        /\ k2 = IF room THEN k5 ELSE PipeUndone(k5, p, i, FreeFd(kk, p, 0))
        /\ live' = live
    BY <1>4, <1>10, <2>1, <2>2 DEF sys_pipe2, FreePipes
  <2>4. i \in Pipes /\ ~kk.pipes[i].used
    <3>1. {x \in Pipes : ~kk.pipes[x].used} \in SUBSET Nat
      BY DEF Pipes
    <3>2. i \in {x \in Pipes : ~kk.pipes[x].used}
      BY <2>1, <2>3, <3>1, LowestIn
    <3> QED
      BY <3>2
  <2>5. r \in Descs /\ w \in Descs /\ r # w /\ kk.descs[r].refs = 0 /\ kk.descs[w].refs = 0
    BY <1>5, <2>1, <2>3, TwoDescs
  <2>6. room \/ FewFds(kk, p)
    <3>1. IsFiniteSet({f \in Fds : kk.fdt[p][f] = None})
      <4>1. IsFiniteSet(Fds)
        BY FS_Interval DEF Fds, FdAssumption
      <4> QED
        BY <4>1, FS_Subset
    <3>2. Cardinality({f \in Fds : kk.fdt[p][f] = None}) \in Nat
      BY <3>1, FS_CardinalityType
    <3> QED
      BY <2>2, <3>2 DEF FewFds
  <2>7. Call(kk, k2, p)
    <3>1. Settled(kk, h) /\ k5 = PipeInstalled(kk, p, i, r, w)
      BY <1>1, <1>4, <2>1
    <3>2. k2 = IF room THEN k5 ELSE PipeUndone(k5, p, i, FreeFd(kk, p, 0))
      BY <2>3
    <3> QED
      BY <1>3, <2>4, <2>5, <2>6, <3>1, <3>2, PipeCall
  <2> QED
    BY <1>6, <2>3, <2>7
<1>11. CASE sys_mona_udp6_socket(p)
  <2>1. /\ \E j \in Socks : kk.socks["UDP6"][j] = 0
        /\ k2 = SocketInstalled(kk, p, "UDP6") /\ live' = live
    BY <1>4, <1>11 DEF sys_mona_udp6_socket
  <2>2. Gained(kk, k2, h, p, FreeFd(kk, p, 0))
    BY <1>1, <1>3, <1>4, <2>1, SocketGains DEF SockKinds
  <2>3. Call(kk, k2, p)
    BY <1>1, <1>3, <1>4, <2>2, GainedCall
  <2> QED
    BY <1>6, <2>1, <2>3
<1>12. CASE \E established \in BOOLEAN : sys_mona_tcp6_connect(p, established)
  <2>1. PICK established \in BOOLEAN : sys_mona_tcp6_connect(p, established)
    BY <1>12
  <2>2. PICK f, k1 : f = FreeFd(kk, p, 0) /\ k1 = SocketInstalled(kk, p, "TCP6")
    OBVIOUS
  <2>3. /\ \E j \in Socks : kk.socks["TCP6"][j] = 0
        /\ k2 = IF established \/ f = None THEN k1 ELSE fd_close(k1, p, f)
        /\ live' = live
    BY <1>4, <2>1, <2>2 DEF sys_mona_tcp6_connect
  <2>4. Call(kk, k2, p)
    BY <1>1, <1>3, <1>4, <2>2, <2>3, ConnectCall
  <2> QED
    BY <1>6, <2>3, <2>4
<1>13. CASE sys_clone(p)
  <2>1. PICK c : c = Lowest(Procs \ live)
    OBVIOUS
  <2>2. live # Procs /\ k2 = Inherited(kk, p, c) /\ live' = live \cup {c}
    BY <1>4, <1>13, <2>1 DEF sys_clone
  <2>3. c \in Procs /\ c \notin live
    <3>1. Procs \ live # {}
      BY <1>3, <2>2
    <3>2. Procs \ live \in SUBSET Nat
      BY DEF Procs
    <3> QED
      BY <2>1, <3>1, <3>2, LowestIn
  <2>4. \A f \in Fds : kk.fdt[c][f] = None
    BY <1>4, <2>3 DEF FdInv
  <2>5. Call(kk, k2, c)
    BY <1>1, <1>3, <1>4, <2>2, <2>3, <2>4, CloneCall
  <2>6. \A q \in Procs \ live', f \in Fds : k'.fdt[q][f] = None
    BY <1>4, <2>2, <2>5 DEF FdInv, Call
  <2> QED
    BY <1>3, <1>4, <2>2, <2>3, <2>5, <2>6 DEF FdInv, Call
<1>14. CASE proc_exit(p)
  <2>1. p # 0 /\ k2 = proc_close_all_fds(kk, p) /\ live' = live \ {p}
    BY <1>4, <1>14 DEF proc_exit
  <2>2. Call(kk, k2, p) /\ \A f \in Fds : k2.fdt[p][f] = None
    BY <1>1, <1>3, <1>4, <2>1, ExitCall
  <2>3. \A q \in Procs \ live', f \in Fds : k'.fdt[q][f] = None
    BY <1>4, <2>1, <2>2 DEF FdInv, Call
  <2> QED
    BY <1>3, <1>4, <2>1, <2>2, <2>3 DEF FdInv, Call
<1> QED
  BY <1>2, <1>7, <1>8, <1>9, <1>10, <1>11, <1>12, <1>13, <1>14

\* fd.c and the calls that use it keep the tables consistent: there is always
\* an assignment of references to descriptors that every count agrees with.
THEOREM FdInvariant ==
    ASSUME FdAssumption
    PROVE  Spec => []FdInv
<1>1. Init => FdInv
  BY InitSettled
<1>2. FdInv /\ [Next]_vars => FdInv'
  <2> SUFFICES ASSUME FdInv, [Next]_vars PROVE FdInv'
    OBVIOUS
  <2>1. CASE Next
    BY <2>1, FdStep
  <2>2. CASE UNCHANGED vars
    BY <2>2 DEF vars, FdInv
  <2> QED
    BY <2>1, <2>2
<1> QED
  BY <1>1, <1>2, PTL DEF Spec

-----------------------------------------------------------------------------
(* What follows from the invariant.                                        *)

\* The descriptors of the living that are open on D are the slots that hold it.
LEMMA HoldersNum ==
    ASSUME FdAssumption, FdInv, NEW h \in Holds, Settled(k, h), NEW D \in SUBSET Descs
    PROVE  Holders(D) = Num(h, D)
<1>1. Agrees(k, h) /\ h[Spare1] = None /\ h[Spare2] = None
  BY SettledParts
<1>2. ASSUME NEW s \in Slots, h[s] \in D
      PROVE  s \in live \X Fds /\ k.fdt[s[1]][s[2]] \in D
  <2>1. PICK q \in Procs, f \in Fds : s = <<q, f>>
    BY <1>1, <1>2, SlotKinds, NoneIsNone
  <2>2. k.fdt[q][f] \in D
    BY <1>1, <1>2, <2>1 DEF Agrees
  <2>3. q \in live
    BY <2>2, NoneIsNone DEF FdInv
  <2> QED
    BY <2>1, <2>2, <2>3
<1>3. ASSUME NEW s \in live \X Fds, k.fdt[s[1]][s[2]] \in D
      PROVE  s \in Slots /\ h[s] \in D
  <2>1. PICK q \in live, f \in Fds : s = <<q, f>>
    OBVIOUS
  <2>2. q \in Procs
    BY DEF FdInv
  <2> QED
    BY <1>1, <1>3, <2>1, <2>2, SlotFacts DEF Agrees
<1>4. {pf \in live \X Fds : k.fdt[pf[1]][pf[2]] \in D} = Held(h, D)
  BY <1>2, <1>3 DEF Held
<1> QED
  BY <1>4 DEF Holders, Num

LEMMA InvCounts ==
    ASSUME FdAssumption, FdInv
    PROVE  CountsExact
<1>1. PICK h \in Holds : Settled(k, h)
  BY DEF FdInv
<1>2. Counted(k, h)
  BY <1>1, SettledParts
<1>3. ASSUME NEW d \in Descs PROVE k.descs[d].refs = Holders({d})
  <2>1. {d} \in SUBSET Descs
    OBVIOUS
  <2>2. Holders({d}) = Num(h, {d})
    BY <1>1, <2>1, HoldersNum
  <2> QED
    BY <1>2, <2>2, CountedParts
<1>4. ASSUME NEW i \in Pipes, NEW e \in Ends
      PROVE  k.pipes[i].refs[e] = Holders(PipeDescs(i, e))
  <2>1. PipeDescs(i, e) = EndOf(k, i, e) /\ EndOf(k, i, e) \in SUBSET Descs
    BY DEF PipeDescs, EndOf
  <2>2. Holders(PipeDescs(i, e)) = Num(h, EndOf(k, i, e))
    BY <1>1, <2>1, HoldersNum
  <2> QED
    BY <1>2, <2>2, CountedParts
<1>5. ASSUME NEW s \in SockKinds, NEW i \in Socks
      PROVE  k.socks[s][i] = Holders(SockDescs(s, i))
  <2>1. SockDescs(s, i) = SockOf(k, s, i) /\ SockOf(k, s, i) \in SUBSET Descs
    BY DEF SockDescs, SockOf
  <2>2. Holders(SockDescs(s, i)) = Num(h, SockOf(k, s, i))
    BY <1>1, <2>1, HoldersNum
  <2> QED
    BY <1>2, <2>2, CountedParts
<1>6. \A i \in Pipes : k.pipes[i].used <=> \E e \in Ends : k.pipes[i].refs[e] # 0
  BY <1>2, CountedParts DEF UsedRight
<1> QED
  BY <1>3, <1>4, <1>5, <1>6 DEF CountsExact, DescRefsExact, BackingExact

\* Every reference count of fd.c, pipe.c and the socket tables is the number
\* of descriptors open on it, after every call of any process.
THEOREM CountsStayExact ==
    ASSUME FdAssumption
    PROVE  Spec => []CountsExact
<1>1. FdInv => CountsExact
  BY InvCounts
<1> QED
  BY <1>1, FdInvariant, PTL

\* No call of any process changes the object behind a descriptor it leaves
\* open.
THEOREM DescriptorsKeepObjects ==
    ASSUME FdAssumption
    PROVE  Spec => ObjectsKept
<1>1. FdInv /\ [Next]_vars => [KeepsObjects]_vars
  <2> SUFFICES ASSUME FdInv, Next PROVE KeepsObjects
    OBVIOUS
  <2>1. FdsKeep(k, k')
    BY FdStep
  <2> SUFFICES ASSUME NEW p \in live \cap live', NEW f \in Fds,
                      k.fdt[p][f] # None, k'.fdt[p][f] = k.fdt[p][f]
               PROVE  Object(k.fdt[p][f])' = Object(k.fdt[p][f])
    BY DEF KeepsObjects
  <2>2. p \in Procs
    BY DEF FdInv
  <2>3. SameObject(k, k', k.fdt[p][f])
    BY <2>1, <2>2 DEF FdsKeep
  <2> QED
    BY <2>3 DEF SameObject, Object
<1> QED
  BY <1>1, FdInvariant, PTL DEF Spec, ObjectsKept

\* There are only so many descriptors to be open on anything.
LEMMA HoldersBounded ==
    ASSUME FdAssumption, FdInv, NEW D
    PROVE  Holders(D) \in 0 .. MaxProcs * MAX_FDS
<1> DEFINE H == {pf \in live \X Fds : k.fdt[pf[1]][pf[2]] \in D}
<1>1. MaxProcs \in Nat /\ MAX_FDS \in Nat
  BY DEF FdAssumption
<1>2. /\ IsFiniteSet(Procs) /\ Cardinality(Procs) = MaxProcs
      /\ IsFiniteSet(Fds) /\ Cardinality(Fds) = MAX_FDS
  <2>1. ASSUME NEW n \in Nat
        PROVE  IsFiniteSet(0 .. n - 1) /\ Cardinality(0 .. n - 1) = n
    <3>1. PICK m \in Int : m = n - 1
      OBVIOUS
    <3>2. /\ IsFiniteSet(0 .. m)
          /\ Cardinality(0 .. m) = IF 0 > m THEN 0 ELSE m - 0 + 1
      BY FS_Interval
    <3> QED
      BY <3>1, <3>2
  <2> QED
    BY <1>1, <2>1 DEF Procs, Fds
<1>3. IsFiniteSet(Procs \X Fds) /\ Cardinality(Procs \X Fds) = MaxProcs * MAX_FDS
  BY <1>2, FS_Product
<1>4. H \in SUBSET (Procs \X Fds)
  BY DEF FdInv
<1>5. IsFiniteSet(H) /\ Cardinality(H) <= Cardinality(Procs \X Fds)
  BY <1>3, <1>4, FS_Subset
<1>6. Cardinality(H) \in Nat
  BY <1>5, FS_CardinalityType
<1>7. Holders(D) = Cardinality(H)
  BY DEF Holders
<1> HIDE DEF H
<1>8. PICK m \in Nat : m = MaxProcs * MAX_FDS
  BY <1>1
<1> QED
  BY <1>3, <1>5, <1>6, <1>7, <1>8

\* No count exceeds the number of descriptors there are: the uint32 counts
\* cannot wrap.
THEOREM CountsStayBounded ==
    ASSUME FdAssumption
    PROVE  Spec => []TypeOK
<1>1. FdInv => TypeOK
  <2> SUFFICES ASSUME FdInv PROVE TypeOK
    OBVIOUS
  <2>1. PICK h \in Holds : Settled(k, h)
    BY DEF FdInv
  <2>2. k \in Tables
    BY <2>1, SettledParts
  <2>3. CountsExact
    BY InvCounts
  <2>4. \A p \in Procs, f \in Fds : k.fdt[p][f] \in Descs \cup {None}
    BY <2>2, TablesParts
  <2>5. \A d \in Descs : k.descs[d].refs \in 0 .. MaxProcs * MAX_FDS
    BY <2>3, HoldersBounded DEF CountsExact, DescRefsExact
  <2>6. \A d \in Descs : k.descs[d].kind \in SockKinds \cup {"UNUSED", "UART", "FILE", "PIPE"}
    BY <2>2, TablesParts DEF DescSet, Kinds
  <2>7. /\ \A i \in Pipes, e \in Ends : k.pipes[i].refs[e] \in 0 .. MaxProcs * MAX_FDS
        /\ \A s \in SockKinds, i \in Socks : k.socks[s][i] \in 0 .. MaxProcs * MAX_FDS
    BY <2>3, HoldersBounded DEF CountsExact, BackingExact
  <2> QED
    BY <2>4, <2>5, <2>6, <2>7 DEF TypeOK, FdInv
<1> QED
  BY <1>1, FdInvariant, PTL
=============================================================================
