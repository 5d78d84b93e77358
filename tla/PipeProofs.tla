----------------------------- MODULE PipeProofs -----------------------------
(***************************************************************************)
(* The ring buffer of module Pipe implements the FIFO of module PipeFifo,  *)
(* for every buffer size and every length of transfer; two programs joined *)
(* by one (module Pipeline) hand over every byte, for every size of pipe,  *)
(* write and output and every interleaving of the three processes; and the *)
(* shell's line editor (module LineEdit) keeps its line and what the       *)
(* terminal shows of it together whatever is typed.                        *)
(***************************************************************************)
EXTENDS Pipe, Pipeline, LineEdit, FiniteSetTheorems, SequenceTheorems, WellFoundedInduction, TLAPS

\* Contents for a given buffer, read position and count.
SliceOf(b, p, n) == [k \in 1 .. n |-> b[Advance(p, k - 1)]]

\* The buffer after the n first bytes of src are stored from position w on.
StoredIn(b, w, src, n) ==
    [i \in Indices |-> IF (i + PIPE_BUF - w) % PIPE_BUF < n
                       THEN src[((i + PIPE_BUF - w) % PIPE_BUF) + 1]
                       ELSE b[i]]

-----------------------------------------------------------------------------
(* Arithmetic modulo the buffer size.                                      *)

\* A number below twice the modulus wraps around at most once.
LEMMA ModOnce ==
    ASSUME NEW n \in Nat \ {0}, NEW a \in 0 .. 2 * n - 1
    PROVE  a % n = IF a < n THEN a ELSE a - n
<1>1. CASE a < n
  BY <1>1
<1>2. CASE a >= n
  BY <1>2
<1> QED
  BY <1>1, <1>2

\* A position advanced by at most the buffer size.
LEMMA AdvanceOnce ==
    ASSUME NEW p \in Indices, NEW n \in 0 .. PIPE_BUF
    PROVE  /\ Advance(p, n) = IF p + n < PIPE_BUF THEN p + n ELSE p + n - PIPE_BUF
           /\ Advance(p, n) \in Indices
<1> USE PipeAssumption
<1> DEFINE a == p + n
<1>1. a \in 0 .. 2 * PIPE_BUF - 1
  BY DEF Indices
<1> HIDE DEF a
<1>2. a % PIPE_BUF = IF a < PIPE_BUF THEN a ELSE a - PIPE_BUF
  BY <1>1, ModOnce
<1>3. Advance(p, n) = IF p + n < PIPE_BUF THEN p + n ELSE p + n - PIPE_BUF
  BY <1>2 DEF Advance, a, Indices
<1> QED
  BY <1>3 DEF Indices

\* Two advances are one.
LEMMA AdvanceTwice ==
    ASSUME NEW p \in Indices, NEW m \in Nat, NEW n \in Nat, m + n <= PIPE_BUF
    PROVE  Advance(Advance(p, m), n) = Advance(p, m + n)
<1> USE PipeAssumption
<1>1. m \in 0 .. PIPE_BUF /\ n \in 0 .. PIPE_BUF /\ m + n \in 0 .. PIPE_BUF
  OBVIOUS
<1> DEFINE q == Advance(p, m)
<1>2. q \in Indices /\ q = IF p + m < PIPE_BUF THEN p + m ELSE p + m - PIPE_BUF
  BY <1>1, AdvanceOnce
<1> HIDE DEF q
<1>3. Advance(q, n) = IF q + n < PIPE_BUF THEN q + n ELSE q + n - PIPE_BUF
  BY <1>1, <1>2, AdvanceOnce
<1>4. Advance(p, m + n) = IF p + (m + n) < PIPE_BUF
                          THEN p + (m + n) ELSE p + (m + n) - PIPE_BUF
  BY <1>1, AdvanceOnce
<1>5. Advance(q, n) = Advance(p, m + n)
  BY <1>1, <1>2, <1>3, <1>4 DEF Indices
<1> QED
  BY <1>5 DEF q

\* How far the position j after p lies from the position c after p.
LEMMA OffsetOf ==
    ASSUME NEW p \in Indices, NEW c \in 0 .. PIPE_BUF,
           NEW j \in 0 .. PIPE_BUF - 1
    PROVE  (Advance(p, j) + PIPE_BUF - Advance(p, c)) % PIPE_BUF
               = IF j >= c THEN j - c ELSE j - c + PIPE_BUF
<1> USE PipeAssumption
<1> DEFINE x == Advance(p, j)
           y == Advance(p, c)
<1>1. j \in 0 .. PIPE_BUF
  OBVIOUS
<1>2. x = IF p + j < PIPE_BUF THEN p + j ELSE p + j - PIPE_BUF
  BY <1>1, AdvanceOnce
<1>3. y = IF p + c < PIPE_BUF THEN p + c ELSE p + c - PIPE_BUF
  BY AdvanceOnce
<1> HIDE DEF x, y
<1>4. x + PIPE_BUF - y \in 0 .. 2 * PIPE_BUF - 1
  BY <1>2, <1>3 DEF Indices
<1> DEFINE d == x + PIPE_BUF - y
<1> HIDE DEF d
<1>5. d \in 0 .. 2 * PIPE_BUF - 1
  BY <1>4 DEF d
<1>6. d % PIPE_BUF = IF d < PIPE_BUF THEN d ELSE d - PIPE_BUF
  BY <1>5, ModOnce
<1>7. (IF d < PIPE_BUF THEN d ELSE d - PIPE_BUF)
          = IF j >= c THEN j - c ELSE j - c + PIPE_BUF
  BY <1>2, <1>3 DEF d, Indices
<1> QED
  BY <1>6, <1>7 DEF d, x, y

-----------------------------------------------------------------------------
(* Slices of the ring as sequences.                                        *)

\* A slice is a sequence of bytes.
LEMMA SliceSeq ==
    ASSUME NEW b \in [Indices -> Bytes], NEW p \in Indices,
           NEW n \in 0 .. PIPE_BUF
    PROVE  /\ SliceOf(b, p, n) \in Seq(Bytes)
           /\ Len(SliceOf(b, p, n)) = n
           /\ \A k \in 1 .. n : SliceOf(b, p, n)[k] = b[Advance(p, k - 1)]
<1> USE PipeAssumption
<1>1. \A k \in 1 .. n : b[Advance(p, k - 1)] \in Bytes
  BY AdvanceOnce
<1>2. SliceOf(b, p, n) \in [1 .. n -> Bytes]
  BY <1>1 DEF SliceOf
<1>3. n \in Nat
  OBVIOUS
<1>4. SliceOf(b, p, n) \in Seq(Bytes)
  BY <1>2, <1>3, SeqDef
<1>5. Len(SliceOf(b, p, n)) = n
  BY <1>2, <1>3, <1>4, LenProperties
<1> QED
  BY <1>4, <1>5 DEF SliceOf

\* Reading m bytes splits the contents in two.
LEMMA SliceSplit ==
    ASSUME NEW b \in [Indices -> Bytes], NEW p \in Indices,
           NEW n \in 0 .. PIPE_BUF, NEW m \in 0 .. n
    PROVE  /\ SliceOf(b, p, m) = SubSeq(SliceOf(b, p, n), 1, m)
           /\ SliceOf(b, Advance(p, m), n - m)
                  = SubSeq(SliceOf(b, p, n), m + 1, n)
<1> USE PipeAssumption
<1> DEFINE s == SliceOf(b, p, n)
<1> HIDE DEF s
<1>1. /\ m \in 0 .. PIPE_BUF /\ n - m \in 0 .. PIPE_BUF
      /\ m \in Nat /\ n \in Nat /\ n - m \in Nat
  OBVIOUS
<1>2. /\ s \in Seq(Bytes) /\ Len(s) = n
      /\ \A k \in 1 .. n : s[k] = b[Advance(p, k - 1)]
  BY SliceSeq DEF s
<1>3. \A k \in 1 .. n : s[k] \in Bytes
  BY <1>2, ElementOfSeq
<1>4. SliceOf(b, p, m) = SubSeq(s, 1, m)
  <2>1. /\ SubSeq(s, 1, m) \in Seq(Bytes) /\ Len(SubSeq(s, 1, m)) = m
        /\ \A k \in 1 .. m : SubSeq(s, 1, m)[k] = s[k]
    BY <1>1, <1>3, SubSeqProperties
  <2>2. /\ SliceOf(b, p, m) \in Seq(Bytes) /\ Len(SliceOf(b, p, m)) = m
        /\ \A k \in 1 .. m : SliceOf(b, p, m)[k] = b[Advance(p, k - 1)]
    BY <1>1, SliceSeq
  <2>3. ASSUME NEW k \in 1 .. m
        PROVE  SliceOf(b, p, m)[k] = SubSeq(s, 1, m)[k]
    <3>1. k \in 1 .. n
      BY <1>1
    <3> QED
      BY <3>1, <1>2, <2>1, <2>2
  <2> QED
    BY <2>1, <2>2, <2>3, SeqEqual
<1>5. SliceOf(b, Advance(p, m), n - m) = SubSeq(s, m + 1, n)
  <2>1. /\ SubSeq(s, m + 1, n) \in Seq(Bytes)
        /\ Len(SubSeq(s, m + 1, n)) = n - m
        /\ \A k \in 1 .. n - m : SubSeq(s, m + 1, n)[k] = s[m + k]
    BY <1>1, <1>3, SubSeqProperties
  <2>2. Advance(p, m) \in Indices
    BY <1>1, AdvanceOnce
  <2>3. /\ SliceOf(b, Advance(p, m), n - m) \in Seq(Bytes)
        /\ Len(SliceOf(b, Advance(p, m), n - m)) = n - m
        /\ \A k \in 1 .. n - m : SliceOf(b, Advance(p, m), n - m)[k]
                                    = b[Advance(Advance(p, m), k - 1)]
    BY <1>1, <2>2, SliceSeq
  <2>4. ASSUME NEW k \in 1 .. n - m
        PROVE  Advance(Advance(p, m), k - 1) = Advance(p, (m + k) - 1)
    BY <1>1, AdvanceTwice
  <2>5. ASSUME NEW k \in 1 .. n - m
        PROVE  SliceOf(b, Advance(p, m), n - m)[k] = SubSeq(s, m + 1, n)[k]
    <3>1. m + k \in 1 .. n
      BY <1>1
    <3>2. s[m + k] = b[Advance(p, (m + k) - 1)]
      BY <3>1, <1>2
    <3> QED
      BY <3>2, <2>1, <2>3, <2>4
  <2> QED
    BY <2>1, <2>3, <2>5, SeqEqual
<1> QED
  BY <1>4, <1>5 DEF s

\* Storing n bytes where there is room for them appends them to the contents.
LEMMA SliceAppend ==
    ASSUME NEW b \in [Indices -> Bytes], NEW p \in Indices,
           NEW c \in 0 .. PIPE_BUF, NEW n \in 0 .. PIPE_BUF - c,
           NEW src \in Seq(Bytes), n <= Len(src)
    PROVE  /\ StoredIn(b, Advance(p, c), src, n) \in [Indices -> Bytes]
           /\ SliceOf(StoredIn(b, Advance(p, c), src, n), p, c + n)
                  = SliceOf(b, p, c) \o SubSeq(src, 1, n)
<1> USE PipeAssumption
<1> DEFINE w == Advance(p, c)
           off(i) == (i + PIPE_BUF - w) % PIPE_BUF
           b2 == StoredIn(b, w, src, n)
<1>1. /\ c + n \in 0 .. PIPE_BUF /\ n \in Nat /\ c \in Nat
      /\ w \in Indices
  BY AdvanceOnce
<1>2. \A i \in Indices : off(i) \in Nat
  <2> SUFFICES ASSUME NEW i \in Indices PROVE off(i) \in Nat
    OBVIOUS
  <2> DEFINE a == i + PIPE_BUF - w
  <2> HIDE DEF w
  <2>1. a \in 0 .. 2 * PIPE_BUF - 1
    BY <1>1 DEF Indices
  <2> HIDE DEF a
  <2>2. a % PIPE_BUF \in Nat
    BY <2>1, ModOnce
  <2> QED
    BY <2>2 DEF a
<1> HIDE DEF w
<1>3. \A k \in 1 .. n : src[k] \in Bytes
  BY <1>1, LenProperties, ElementOfSeq
<1>4. b2 \in [Indices -> Bytes]
  <2>1. \A i \in Indices : off(i) < n => src[off(i) + 1] \in Bytes
    BY <1>1, <1>2, <1>3
  <2> QED
    BY <2>1 DEF StoredIn
<1>5. /\ SliceOf(b2, p, c + n) \in Seq(Bytes)
      /\ Len(SliceOf(b2, p, c + n)) = c + n
      /\ \A k \in 1 .. c + n : SliceOf(b2, p, c + n)[k] = b2[Advance(p, k - 1)]
  BY <1>1, <1>4, SliceSeq
<1>6. /\ SliceOf(b, p, c) \in Seq(Bytes) /\ Len(SliceOf(b, p, c)) = c
      /\ \A k \in 1 .. c : SliceOf(b, p, c)[k] = b[Advance(p, k - 1)]
  BY SliceSeq
<1>7. /\ SubSeq(src, 1, n) \in Seq(Bytes) /\ Len(SubSeq(src, 1, n)) = n
      /\ \A k \in 1 .. n : SubSeq(src, 1, n)[k] = src[k]
  BY <1>1, <1>3, SubSeqProperties
<1>8. ASSUME NEW k \in 1 .. c + n
      PROVE  b2[Advance(p, k - 1)] = IF k <= c THEN b[Advance(p, k - 1)]
                                               ELSE src[k - c]
  <2>1. k - 1 \in 0 .. PIPE_BUF - 1 /\ k - 1 \in 0 .. PIPE_BUF
    BY <1>1
  <2>2. Advance(p, k - 1) \in Indices
    BY <2>1, AdvanceOnce
  <2>3. off(Advance(p, k - 1))
            = IF k - 1 >= c THEN (k - 1) - c ELSE (k - 1) - c + PIPE_BUF
    BY <2>1, OffsetOf DEF w
  <2>4. CASE k <= c
    <3>1. ~(off(Advance(p, k - 1)) < n)
      BY <2>3, <2>4, <1>1
    <3> QED
      BY <3>1, <2>2, <2>4 DEF StoredIn
  <2>5. CASE k > c
    <3>1. off(Advance(p, k - 1)) = k - 1 - c /\ k - 1 - c < n
      BY <2>3, <2>5, <1>1
    <3>2. b2[Advance(p, k - 1)] = src[(k - 1 - c) + 1]
      BY <3>1, <2>2 DEF StoredIn
    <3> QED
      BY <3>2, <2>5, <1>1
  <2> QED
    BY <2>4, <2>5, <1>1
<1> HIDE DEF b2
<1>9. \A k \in 1 .. c + n :
         SliceOf(b2, p, c + n)[k] = (SliceOf(b, p, c) \o SubSeq(src, 1, n))[k]
  <2> SUFFICES ASSUME NEW k \in 1 .. c + n
               PROVE  SliceOf(b2, p, c + n)[k]
                          = (SliceOf(b, p, c) \o SubSeq(src, 1, n))[k]
    OBVIOUS
  <2>1. (SliceOf(b, p, c) \o SubSeq(src, 1, n))[k]
            = IF k <= c THEN SliceOf(b, p, c)[k] ELSE SubSeq(src, 1, n)[k - c]
    BY <1>6, <1>7, ConcatProperties
  <2>2. SliceOf(b2, p, c + n)[k] = IF k <= c THEN b[Advance(p, k - 1)]
                                             ELSE src[k - c]
    BY <1>5, <1>8
  <2>3. CASE k <= c
    <3>1. k \in 1 .. c
      BY <2>3, <1>1
    <3>2. SliceOf(b, p, c)[k] = b[Advance(p, k - 1)]
      BY <3>1, <1>6
    <3> QED
      BY <2>1, <2>2, <2>3, <3>2
  <2>4. CASE ~(k <= c)
    <3>1. k - c \in 1 .. n
      BY <2>4, <1>1
    <3>2. SubSeq(src, 1, n)[k - c] = src[k - c]
      BY <3>1, <1>7
    <3> QED
      BY <2>1, <2>2, <2>4, <3>2
  <2> QED
    BY <2>3, <2>4
<1>10. /\ SliceOf(b, p, c) \o SubSeq(src, 1, n) \in Seq(Bytes)
       /\ Len(SliceOf(b, p, c) \o SubSeq(src, 1, n)) = c + n
  BY <1>6, <1>7, ConcatProperties
<1>11. SliceOf(b2, p, c + n) = SliceOf(b, p, c) \o SubSeq(src, 1, n)
  BY <1>5, <1>9, <1>10, SeqEqual
<1> QED
  BY <1>4, <1>11 DEF b2, w
-----------------------------------------------------------------------------
(* The invariant.                                                          *)

\* A transfer moves at least one byte and at most what there is (or room for).
LEMMA LeastFacts ==
    ASSUME NEW a \in Nat \ {0}, NEW b \in Nat
    PROVE  Least(a, b) \in 0 .. b /\ Least(a, b) <= a
BY DEF Least

\* The sources of a write are sequences of bytes.
LEMMA SourceFacts ==
    ASSUME NEW src \in Sources
    PROVE  src \in Seq(Bytes) /\ Len(src) \in Nat \ {0}
<1>1. PICK n \in 1 .. MaxLen : src \in [1 .. n -> Bytes]
  BY DEF Sources
<1>2. n \in Nat
  BY PipeAssumption
<1>3. src \in Seq(Bytes)
  BY <1>1, <1>2, SeqDef
<1> QED
  BY <1>1, <1>2, <1>3, LenProperties

\* pipe_init establishes the invariant.
LEMMA InitInv == Init => PipeInv
<1> SUFFICES ASSUME Init PROVE PipeInv
  OBVIOUS
<1> USE PipeAssumption
<1>1. 0 \in Indices
  BY DEF Indices
<1>2. Advance(0, 0) = 0
  BY <1>1, AdvanceOnce
<1> QED
  BY <1>1, <1>2 DEF Init, PipeInv, TypeOK, PositionsAgree, UsedWhileHeld

\* A read preserves the invariant: the read position follows the count.
LEMMA ReadInv ==
    ASSUME PipeInv, NEW len \in 1 .. MaxLen, pipe_read(len)
    PROVE  PipeInv'
<1> USE PipeAssumption DEF PipeInv
<1> DEFINE n == Least(len, count)
<1>1. len \in Nat \ {0} /\ count \in Nat /\ count \in 0 .. PIPE_BUF /\ rpos \in Indices
  BY DEF TypeOK
<1>2. n \in 0 .. count
  BY <1>1, LeastFacts
<1> HIDE DEF n
<1>3. CASE /\ count # 0
           /\ rpos' = Advance(rpos, n)
           /\ count' = count - n
  <2>1. rpos' \in Indices /\ count' \in 0 .. PIPE_BUF
    BY <1>1, <1>2, <1>3, AdvanceOnce
  <2>2. Advance(Advance(rpos, n), count - n) = Advance(rpos, n + (count - n))
    BY <1>1, <1>2, AdvanceTwice
  <2>3. wpos' = Advance(rpos', count')
    BY <1>1, <1>2, <1>3, <2>2 DEF pipe_read, PositionsAgree
  <2> QED
    BY <2>1, <2>3 DEF pipe_read, TypeOK, PositionsAgree, UsedWhileHeld
<1>4. CASE count = 0 /\ UNCHANGED <<rpos, count>>
  BY <1>4 DEF pipe_read, TypeOK, PositionsAgree, UsedWhileHeld
<1> QED
  BY <1>3, <1>4 DEF pipe_read, n

\* What a write that stores bytes does, in terms of the lemmas above.
LEMMA WriteStep ==
    ASSUME PipeInv, NEW src \in Sources, pipe_write(src),
           read_refs # 0, count # PIPE_BUF
    PROVE  \E n \in 0 .. PIPE_BUF - count :
              /\ n = Least(Len(src), PIPE_BUF - count)
              /\ n <= Len(src)
              /\ buf' = StoredIn(buf, Advance(rpos, count), src, n)
              /\ wpos' = Advance(wpos, n)
              /\ count' = count + n
              /\ result' = Moved(SubSeq(src, 1, n))
<1> USE PipeAssumption DEF PipeInv
<1> DEFINE n == Least(Len(src), PIPE_BUF - count)
<1>1. PIPE_BUF - count \in Nat
  BY DEF TypeOK
<1>2. n \in 0 .. PIPE_BUF - count /\ n <= Len(src)
  BY <1>1, LeastFacts, SourceFacts
<1>3. /\ buf' = Stored(src, n) /\ wpos' = Advance(wpos, n)
      /\ count' = count + n /\ result' = Moved(SubSeq(src, 1, n))
  BY DEF pipe_write, Space
<1>4. Stored(src, n) = StoredIn(buf, Advance(rpos, count), src, n)
  BY DEF Stored, StoredIn, Offset, PositionsAgree
<1> QED
  BY <1>2, <1>3, <1>4

\* A write preserves the invariant: the write position follows the count.
LEMMA WriteInv ==
    ASSUME PipeInv, NEW src \in Sources, pipe_write(src)
    PROVE  PipeInv'
<1> USE PipeAssumption DEF PipeInv
<1>1. rpos \in Indices /\ count \in 0 .. PIPE_BUF /\ wpos \in Indices
  BY DEF TypeOK
<1>2. CASE read_refs # 0 /\ count # PIPE_BUF
  <2>1. PICK n \in 0 .. PIPE_BUF - count :
              /\ n <= Len(src)
              /\ buf' = StoredIn(buf, Advance(rpos, count), src, n)
              /\ wpos' = Advance(wpos, n)
              /\ count' = count + n
    BY <1>2, WriteStep
  <2>2. buf' \in [Indices -> Bytes]
    BY <1>1, <2>1, SliceAppend, SourceFacts DEF TypeOK
  <2>3. n \in 0 .. PIPE_BUF /\ count' \in 0 .. PIPE_BUF
    BY <1>1, <2>1
  <2>4. wpos' \in Indices
    BY <1>1, <2>1, <2>3, AdvanceOnce
  <2>5. Advance(Advance(rpos, count), n) = Advance(rpos, count + n)
    BY <1>1, AdvanceTwice
  <2>6. wpos' = Advance(rpos', count')
    BY <2>1, <2>5 DEF pipe_write, PositionsAgree
  <2> QED
    BY <1>2, <2>2, <2>3, <2>4, <2>6
       DEF pipe_write, TypeOK, PositionsAgree, UsedWhileHeld
<1>3. CASE read_refs = 0 \/ count = PIPE_BUF
  <2>1. UNCHANGED <<used, rpos, read_refs, write_refs, buf, wpos, count>>
    BY <1>3 DEF pipe_write
  <2> QED
    BY <2>1 DEF TypeOK, PositionsAgree, UsedWhileHeld
<1> QED
  BY <1>2, <1>3

\* Dropping a reference preserves the invariant: the slot is reset exactly
\* when the other end has no reference either.
LEMMA DecrefInv ==
    ASSUME PipeInv, decref_read \/ decref_write
    PROVE  PipeInv'
<1> USE PipeAssumption DEF PipeInv
<1>1. 0 \in Indices /\ Advance(0, 0) = 0
  <2>1. 0 \in Indices
    BY DEF Indices
  <2> QED
    BY <2>1, AdvanceOnce
<1>2. read_refs' \in 0 .. MaxRefs /\ write_refs' \in 0 .. MaxRefs /\ buf' = buf
  BY DEF decref_read, decref_write, TypeOK
<1>5. pipe_maybe_free(read_refs', write_refs')
  BY DEF decref_read, decref_write
<1>3. CASE read_refs' = 0 /\ write_refs' = 0
  <2>1. used' = FALSE /\ rpos' = 0 /\ wpos' = 0 /\ count' = 0
    BY <1>5, <1>3 DEF pipe_maybe_free
  <2>2. 0 \in 0 .. PIPE_BUF
    OBVIOUS
  <2> QED
    BY <1>1, <1>2, <1>3, <2>1, <2>2 DEF TypeOK, PositionsAgree, UsedWhileHeld
<1>4. CASE ~(read_refs' = 0 /\ write_refs' = 0)
  <2>1. used' = TRUE /\ rpos' = rpos /\ wpos' = wpos /\ count' = count
    BY <1>5, <1>4 DEF pipe_maybe_free
  <2>2. used
    BY DEF decref_read, decref_write
  <2> QED
    BY <1>2, <1>4, <2>1, <2>2 DEF TypeOK, PositionsAgree, UsedWhileHeld
<1> QED
  BY <1>3, <1>4

\* Creating a pipe and taking a reference preserve the invariant.
LEMMA OpenInv ==
    ASSUME PipeInv, pipe_create \/ incref_read \/ incref_write
    PROVE  PipeInv'
<1> USE PipeAssumption DEF PipeInv
<1>1. CASE pipe_create
  <2>1. 0 \in Indices
    BY DEF Indices
  <2>2. Advance(0, 0) = 0
    BY <2>1, AdvanceOnce
  <2> QED
    BY <1>1, <2>1, <2>2 DEF pipe_create, TypeOK, PositionsAgree, UsedWhileHeld
<1>2. CASE incref_read
  BY <1>2 DEF incref_read, TypeOK, PositionsAgree, UsedWhileHeld
<1>3. CASE incref_write
  BY <1>3 DEF incref_write, TypeOK, PositionsAgree, UsedWhileHeld
<1> QED
  BY <1>1, <1>2, <1>3

\* The ring's invariant (positions, count and references agree) holds after
\* every sequence of pipe operations, for every buffer size.
THEOREM RingInvariant == Spec => []PipeInv
<1>1. ASSUME PipeInv, [Next]_vars PROVE PipeInv'
  <2>1. CASE UNCHANGED vars
    BY <1>1, <2>1
       DEF vars, PipeInv, TypeOK, PositionsAgree, UsedWhileHeld
  <2> QED
    BY <1>1, <2>1, OpenInv, DecrefInv, ReadInv, WriteInv DEF Next
<1> QED
  BY <1>1, InitInv, PTL DEF Spec
-----------------------------------------------------------------------------
(* The refinement.                                                         *)

\* The contents before and after a step, as slices.
LEMMA ContentsIs ==
    /\ Contents = SliceOf(buf, rpos, count)
    /\ Contents' = SliceOf(buf', rpos', count')
BY DEF Contents, Slice, SliceOf

\* The contents are a sequence of count bytes, empty when the count is 0.
LEMMA SliceEmpty ==
    ASSUME NEW b \in [Indices -> Bytes], NEW p \in Indices,
           NEW n \in 0 .. PIPE_BUF
    PROVE  SliceOf(b, p, n) = <<>> <=> n = 0
<1>1. SliceOf(b, p, n) \in Seq(Bytes) /\ Len(SliceOf(b, p, n)) = n
  BY SliceSeq
<1>2. SliceOf(b, p, n) # <<>> => n \in Nat \ {0}
  BY <1>1, EmptySeq
<1>3. SliceOf(b, p, n) = <<>> => n = 0
  BY <1>1, EmptySeq
<1> QED
  BY <1>2, <1>3

\* A read takes the oldest bytes out of the queue.
LEMMA ReadRefines ==
    ASSUME PipeInv, NEW len \in 1 .. MaxLen, pipe_read(len)
    PROVE  Fifo!Read(len)
<1> USE PipeAssumption
<1>1. /\ buf \in [Indices -> Bytes] /\ rpos \in Indices
      /\ count \in 0 .. PIPE_BUF /\ count \in Nat /\ len \in Nat \ {0}
  BY DEF PipeInv, TypeOK
<1>2. Len(Contents) = count /\ (Contents = <<>> <=> count = 0)
  BY <1>1, ContentsIs, SliceSeq, SliceEmpty
<1>3. buf' = buf /\ UNCHANGED <<read_refs, write_refs>> /\ read_refs > 0
  BY DEF pipe_read
<1>4. CASE count # 0
  <2> DEFINE n == Least(len, count)
  <2>1. n \in 0 .. count
    BY <1>1, LeastFacts
  <2>2. /\ result' = Moved(SliceOf(buf, rpos, n))
        /\ rpos' = Advance(rpos, n) /\ count' = count - n
    BY <1>4 DEF pipe_read, Slice, SliceOf
  <2>3. /\ SliceOf(buf, rpos, n) = SubSeq(Contents, 1, n)
        /\ SliceOf(buf, Advance(rpos, n), count - n)
               = SubSeq(Contents, n + 1, count)
    BY <1>1, <2>1, SliceSplit, ContentsIs
  <2>4. Contents' = SubSeq(Contents, n + 1, count)
    BY <1>3, <2>2, <2>3, ContentsIs
  <2>5. n = Fifo!Least(len, Len(Contents))
    BY <1>2 DEF Least, Fifo!Least
  <2> HIDE DEF n
  <2> QED
    BY <1>2, <1>3, <1>4, <2>2, <2>3, <2>4, <2>5
       DEF Fifo!Read, Fifo!Moved, Moved
<1>5. CASE count = 0
  <2>1. /\ result' = Failed(IF write_refs = 0 THEN "EOF" ELSE "EAGAIN")
        /\ rpos' = rpos /\ count' = count
    BY <1>5 DEF pipe_read
  <2>2. Contents' = Contents
    BY <1>3, <2>1, ContentsIs
  <2> QED
    BY <1>2, <1>3, <1>5, <2>1, <2>2 DEF Fifo!Read, Fifo!Failed, Failed
<1> QED
  BY <1>4, <1>5

\* A write appends to the queue what there is room for.
LEMMA WriteRefines ==
    ASSUME PipeInv, NEW src \in Sources, pipe_write(src)
    PROVE  Fifo!Write(src)
<1> USE PipeAssumption
<1>1. /\ buf \in [Indices -> Bytes] /\ rpos \in Indices
      /\ count \in 0 .. PIPE_BUF /\ read_refs \in Nat
  BY DEF PipeInv, TypeOK
<1>2. Len(Contents) = count
  BY <1>1, ContentsIs, SliceSeq
<1>3. /\ rpos' = rpos /\ UNCHANGED <<read_refs, write_refs>>
      /\ write_refs > 0
  BY DEF pipe_write
<1>4. (read_refs > 0 /\ Len(Contents) < PIPE_BUF)
         <=> (read_refs # 0 /\ count # PIPE_BUF)
  BY <1>1, <1>2
<1>5. CASE read_refs # 0 /\ count # PIPE_BUF
  <2>1. PICK n \in 0 .. PIPE_BUF - count :
              /\ n = Least(Len(src), PIPE_BUF - count)
              /\ n <= Len(src)
              /\ buf' = StoredIn(buf, Advance(rpos, count), src, n)
              /\ count' = count + n
              /\ result' = Moved(SubSeq(src, 1, n))
    BY <1>5, WriteStep
  <2>2. SliceOf(buf', rpos, count + n)
            = SliceOf(buf, rpos, count) \o SubSeq(src, 1, n)
    <3>1. src \in Seq(Bytes) /\ n <= Len(src)
      BY <2>1, SourceFacts
    <3>2. SliceOf(StoredIn(buf, Advance(rpos, count), src, n), rpos, count + n)
              = SliceOf(buf, rpos, count) \o SubSeq(src, 1, n)
      BY <1>1, <3>1, SliceAppend
    <3> QED
      BY <2>1, <3>2
  <2>3. Contents' = Contents \o SubSeq(src, 1, n)
    BY <1>3, <2>1, <2>2, ContentsIs
  <2>4. n = Fifo!Least(Len(src), PIPE_BUF - Len(Contents))
    BY <1>2, <2>1 DEF Least, Fifo!Least
  <2> QED
    BY <1>3, <1>4, <1>5, <2>1, <2>3, <2>4 DEF Fifo!Write, Fifo!Moved, Moved
<1>6. CASE read_refs = 0 \/ count = PIPE_BUF
  <2>1. /\ result' = Failed(IF read_refs = 0 THEN "EPIPE" ELSE "EAGAIN")
        /\ buf' = buf /\ count' = count
    BY <1>6 DEF pipe_write
  <2>2. Contents' = Contents
    BY <1>3, <2>1, ContentsIs
  <2> QED
    BY <1>3, <1>4, <1>6, <2>1, <2>2 DEF Fifo!Write, Fifo!Failed, Failed
<1> QED
  BY <1>5, <1>6

\* Dropping a reference closes one end; the last one empties the queue.
LEMMA DecrefRefines ==
    ASSUME PipeInv, PipeInv', decref_read \/ decref_write
    PROVE  Fifo!CloseReader \/ Fifo!CloseWriter
<1> USE PipeAssumption
<1>1. pipe_maybe_free(read_refs', write_refs') /\ buf' = buf /\ result' = result
  BY DEF decref_read, decref_write
<1>2. Contents' = IF read_refs' = 0 /\ write_refs' = 0 THEN <<>> ELSE Contents
  <2>1. CASE read_refs' = 0 /\ write_refs' = 0
    <3>1. count' = 0 /\ buf' \in [Indices -> Bytes] /\ rpos' \in Indices
      BY <1>1, <2>1 DEF pipe_maybe_free, PipeInv, TypeOK
    <3>2. 0 \in 0 .. PIPE_BUF
      OBVIOUS
    <3>3. SliceOf(buf', rpos', 0) = <<>>
      BY <3>1, <3>2, SliceEmpty
    <3> QED
      BY <2>1, <3>1, <3>3, ContentsIs
  <2>2. CASE ~(read_refs' = 0 /\ write_refs' = 0)
    <3>1. rpos' = rpos /\ count' = count
      BY <1>1, <2>2 DEF pipe_maybe_free
    <3> QED
      BY <1>1, <2>2, <3>1, ContentsIs
  <2> QED
    BY <2>1, <2>2
<1>3. CASE decref_read
  BY <1>1, <1>2, <1>3 DEF decref_read, Fifo!CloseReader, Fifo!QueueAfterClose
<1>4. CASE decref_write
  BY <1>1, <1>2, <1>4 DEF decref_write, Fifo!CloseWriter, Fifo!QueueAfterClose
<1> QED
  BY <1>3, <1>4

\* Creating a pipe opens an empty queue.
LEMMA CreateRefines ==
    ASSUME PipeInv, PipeInv', pipe_create
    PROVE  Fifo!Open
<1> USE PipeAssumption
<1>1. /\ buf' \in [Indices -> Bytes] /\ rpos' \in Indices /\ count' = 0
      /\ 0 \in 0 .. PIPE_BUF
  BY DEF pipe_create, PipeInv, TypeOK
<1>2. SliceOf(buf', rpos', 0) = <<>>
  BY <1>1, SliceEmpty
<1>3. Contents' = <<>>
  BY <1>1, <1>2, ContentsIs
<1>4. read_refs = 0 /\ write_refs = 0
  BY DEF pipe_create, PipeInv, UsedWhileHeld
<1> QED
  BY <1>3, <1>4 DEF pipe_create, Fifo!Open

\* Taking a reference leaves the queue alone.
LEMMA IncrefRefines ==
    ASSUME incref_read \/ incref_write
    PROVE  Fifo!DupReader \/ Fifo!DupWriter
<1>1. Contents' = Contents
  <2>1. buf' = buf /\ rpos' = rpos /\ count' = count
    BY DEF incref_read, incref_write
  <2> QED
    BY <2>1, ContentsIs
<1> QED
  BY <1>1 DEF incref_read, incref_write, Fifo!DupReader, Fifo!DupWriter

\* The empty ring is the empty queue.
LEMMA InitRefines == Init => Fifo!Init
<1> SUFFICES ASSUME Init PROVE Fifo!Init
  OBVIOUS
<1> USE PipeAssumption
<1>1. /\ buf \in [Indices -> Bytes] /\ rpos \in Indices /\ count = 0
      /\ 0 \in 0 .. PIPE_BUF
  BY DEF Init, Indices
<1>2. SliceOf(buf, rpos, 0) = <<>>
  BY <1>1, SliceEmpty
<1>3. Contents = <<>>
  BY <1>1, <1>2, ContentsIs
<1> QED
  BY <1>3 DEF Init, Fifo!Init, Moved, Fifo!Moved

\* The ring buffer of pipe.c implements a bounded FIFO with end-of-file and
\* broken-pipe signalling, for every PIPE_BUF and every sequence of partial
\* reads and writes, duplications and closes.
THEOREM RingImplementsFifo == Spec => ImplementsFifo
<1>1. ASSUME PipeInv, PipeInv', [Next]_vars
      PROVE  [Fifo!Next]_(Fifo!vars)
  <2>1. CASE UNCHANGED vars
    <3>1. Contents' = Contents
      BY <2>1, ContentsIs DEF vars
    <3> QED
      BY <2>1, <3>1 DEF vars, Fifo!vars
  <2>2. CASE pipe_create \/ incref_read \/ incref_write
    BY <1>1, <2>2, CreateRefines, IncrefRefines DEF Fifo!Next
  <2>3. CASE decref_read \/ decref_write
    BY <1>1, <2>3, DecrefRefines DEF Fifo!Next
  <2>4. CASE \E len \in 1 .. MaxLen : pipe_read(len)
    BY <1>1, <2>4, ReadRefines DEF Fifo!Next
  <2>5. CASE \E src \in Sources : pipe_write(src)
    BY <1>1, <2>5, WriteRefines DEF Fifo!Next, Fifo!Sources, Sources
  <2> QED
    BY <1>1, <2>1, <2>2, <2>3, <2>4, <2>5 DEF Next
<1> QED
  BY <1>1, InitRefines, RingInvariant, PTL DEF Spec, ImplementsFifo, Fifo!Spec
-----------------------------------------------------------------------------
(* Two programs and a pipe: the inductive invariant.                       *)

ParentPlaces == {"forkLeft", "forkRight", "closeRead", "closeWrite", "read",
                 "waitLeft", "waitRight", "done"}
ChildPlaces  == {"none", "dup2", "close0", "close1", "exec", "run", "zombie", "gone"}
Cells        == 0 .. OutLen + 1

\* Every variable keeps its type, and the pipe holds no more than it can.
PipelineTypes ==
    /\ mode \in {"pipeline", "capture"}
    /\ prog \in Pairs(mode)
    /\ pc \in [Procs -> ParentPlaces \cup ChildPlaces]
    /\ pc["sh"] \in ParentPlaces /\ \A p \in Children : pc[p] \in ChildPlaces
    /\ fds \in [Procs -> SUBSET {"p0", "p1", "std"}]
    /\ bytes \in Seq(Cells) /\ Len(bytes) <= Capacity
    /\ got \in Seq(Cells)
    /\ sent \in 0 .. OutLen
    /\ code \in [Children -> Nat]
    /\ status \in Nat \cup {-1}

\* The descriptors of the pipe that the parent, and a child, hold where it is.
ParentFds == CASE pc["sh"] \in {"forkLeft", "forkRight"} -> {"p0", "p1"}
               [] pc["sh"] = "closeRead"  -> IF mode = "pipeline" THEN {"p0", "p1"} ELSE {"p0"}
               [] pc["sh"] = "closeWrite" -> IF mode = "pipeline" THEN {"p1"} ELSE {"p0", "p1"}
               [] pc["sh"] = "read"       -> {"p0"}
               [] OTHER                   -> {}
ChildFds(p) == CASE pc[p] = "dup2"            -> {"p0", "p1"}
                 [] pc[p] = "close0"          -> {"p0", "p1", "std"}
                 [] pc[p] = "close1"          -> {"p1", "std"}
                 [] pc[p] \in {"exec", "run"} -> {"std"}
                 [] OTHER                     -> {}

FdsAsExpected == /\ fds["sh"] = ParentFds
                 /\ \A p \in Children : fds[p] = ChildFds(p)

\* Where the processes are together: who has been forked and who waited for.
PlacesAgree ==
    /\ mode = "capture" => pc["sh"] \notin {"forkRight", "waitRight"} /\ pc["right"] = "none"
    /\ mode = "pipeline" => pc["sh"] # "read"
    /\ pc["sh"] = "forkLeft" => pc["left"] = "none"
    /\ pc["sh"] \in {"forkLeft", "forkRight"} => pc["right"] = "none"
    /\ pc["sh"] \notin {"forkLeft", "done"} => pc["left"] # "none"
    /\ mode = "pipeline" /\ pc["sh"] \in {"closeRead", "closeWrite", "waitLeft", "waitRight"} =>
         pc["right"] # "none"
    /\ pc["left"] = "gone" <=> pc["sh"] = "waitRight" \/ (pc["sh"] = "done" /\ status # -1)
    /\ pc["right"] = "gone" <=> mode = "pipeline" /\ pc["sh"] = "done" /\ status # -1
    /\ status # -1 => pc["sh"] \in {"waitRight", "done"}
    /\ status = -1 /\ pc["sh"] = "done" => pc["right"] = "none"
    /\ status # -1 /\ mode = "pipeline" /\ pc["sh"] = "done" => status = code["right"]
    /\ prog.left = "missing" => pc["left"] # "run"
    /\ prog.right = "missing" => pc["right"] # "run"

ForkFailed == pc["sh"] = "done" /\ status = -1
LeftEnded  == pc["left"] \in {"zombie", "gone"}
ReaderDone == IF mode = "pipeline" THEN pc["right"] \in {"zombie", "gone"}
                                   ELSE pc["sh"] \in {"closeRead", "waitLeft", "done"}

\* The i-th byte that a left program which does not lose any writes.
Wanted(i) == CASE prog.left = "missing" -> ErrByte
               [] prog.left = "endless" -> SameByte
               [] OTHER                 -> i

\* The bytes of s are those that come after the first k.
Follows(s, k) == \A i \in 1 .. Len(s) : s[i] = Wanted(k + i)

\* A reader that stops early, and one that reads to the end of a program that
\* retries.
Stops == mode = "capture" \/ prog.right = "head"
Good  == prog.left # "once" /\ (Stops \/ prog.right = "patient")

\* What the pipe and the reader have between them of the left program's bytes.
BytesAgree ==
    /\ pc["left"] \notin {"run", "zombie", "gone"} => sent = 0 /\ bytes = <<>> /\ got = <<>>
    /\ prog.left = "endless" => sent = 0
    /\ prog.left = "retry" => Len(got) + Len(bytes) = sent
    /\ prog.left # "once" => Follows(got, 0) /\ Follows(bytes, Len(got))
    /\ Stops => Len(got) <= ReadMax
    /\ Good /\ ~ForkFailed /\ ReaderDone => Len(got) = Stopping
    /\ Good /\ ~ForkFailed /\ LeftEnded /\ ~ReaderDone =>
         prog.left # "endless" /\ Len(got) + Len(bytes) = Len(Output)

PipelineInv == PipelineTypes /\ FdsAsExpected /\ PlacesAgree /\ BytesAgree

-----------------------------------------------------------------------------
(* Who holds the ends.                                                     *)

\* As long as no fork has failed, the pipe has a reader until the reader is
\* done and a writer until the left program has ended: so EPIPE and end of
\* file mean what the programs take them for.
LEMMA EndsHeld ==
    ASSUME PipelineTypes, FdsAsExpected, PlacesAgree, ~ForkFailed
    PROVE  /\ ~ReaderDone => HasReader
           /\ ~LeftEnded => HasWriter
<1> USE DEF Procs, Children
<1>1. /\ mode \in {"pipeline", "capture"} /\ pc["sh"] \in ParentPlaces
      /\ pc["left"] \in ChildPlaces /\ pc["right"] \in ChildPlaces
  BY DEF PipelineTypes
<1>2. /\ fds["sh"] = ParentFds /\ fds["left"] = ChildFds("left")
      /\ fds["right"] = ChildFds("right")
  BY DEF FdsAsExpected
<1>3. ASSUME ~ReaderDone PROVE HasReader
  <2>1. CASE mode = "capture"
    <3>1. pc["sh"] \in {"forkLeft", "closeWrite", "read"}
      BY <1>1, <1>3, <2>1 DEF ReaderDone, PlacesAgree, ParentPlaces
    <3>2. "p0" \in fds["sh"]
      BY <1>2, <2>1, <3>1 DEF ParentFds
    <3> QED
      BY <3>2 DEF HasReader
  <2>2. CASE mode = "pipeline"
    <3>1. CASE pc["right"] = "none"
      <4>1. pc["sh"] \in {"forkLeft", "forkRight"}
        BY <1>1, <2>2, <3>1 DEF PlacesAgree, ParentPlaces, ForkFailed
      <4>2. "p0" \in fds["sh"]
        BY <1>2, <4>1 DEF ParentFds
      <4> QED
        BY <4>2 DEF HasReader
    <3>2. CASE pc["right"] # "none"
      <4>1. pc["right"] \in {"dup2", "close0", "close1", "exec", "run"}
        BY <1>1, <1>3, <2>2, <3>2 DEF ReaderDone, ChildPlaces
      <4>2. "p0" \in fds["right"] \/ "std" \in fds["right"]
        BY <1>2, <4>1 DEF ChildFds
      <4> QED
        BY <4>2 DEF HasReader
    <3> QED
      BY <3>1, <3>2
  <2> QED
    BY <1>1, <2>1, <2>2
<1>4. ASSUME ~LeftEnded PROVE HasWriter
  <2>1. CASE pc["left"] = "none"
    <3>1. pc["sh"] = "forkLeft"
      BY <1>1, <2>1 DEF PlacesAgree, ParentPlaces, ForkFailed
    <3>2. "p1" \in fds["sh"]
      BY <1>2, <3>1 DEF ParentFds
    <3> QED
      BY <3>2 DEF HasWriter
  <2>2. CASE pc["left"] # "none"
    <3>1. pc["left"] \in {"dup2", "close0", "close1", "exec", "run"}
      BY <1>1, <1>4, <2>2 DEF LeftEnded, ChildPlaces
    <3>2. "p1" \in fds["left"] \/ "std" \in fds["left"]
      BY <1>2, <3>1 DEF ChildFds
    <3> QED
      BY <3>2 DEF HasWriter
  <2> QED
    BY <2>1, <2>2
<1> QED
  BY <1>3, <1>4

-----------------------------------------------------------------------------
(* Places and descriptors.                                                 *)

\* Types, descriptors and places: what a step does to them whatever it does
\* to the bytes.
Framed == PipelineTypes /\ FdsAsExpected /\ PlacesAgree

\* A byte of what a write stores, and of what a read takes.
LEMMA AcceptedFacts ==
    ASSUME bytes \in Seq(Cells), Len(bytes) <= Capacity, NEW b \in Seq(Cells)
    PROVE  /\ Accepted(b) \in Seq(Cells) /\ Len(Accepted(b)) \in 0 .. Len(b)
           /\ Len(bytes) + Len(Accepted(b)) <= Capacity
           /\ Len(bytes) < Capacity /\ b # <<>> => Len(Accepted(b)) > 0
           /\ \A i \in 1 .. Len(Accepted(b)) : Accepted(b)[i] = b[i]
<1> DEFINE n == IF Len(b) < Capacity - Len(bytes) THEN Len(b) ELSE Capacity - Len(bytes)
<1>1. Len(b) \in Nat /\ Len(bytes) \in Nat /\ Capacity \in Nat /\ (b # <<>> => Len(b) > 0)
  BY PipelineAssumption, LenProperties, EmptySeq
<1>2. n \in 0 .. Len(b) /\ Len(bytes) + n <= Capacity /\ (Len(bytes) < Capacity /\ Len(b) > 0 => n > 0)
  BY <1>1
<1>3. Accepted(b) = SubSeq(b, 1, n)
  BY DEF Accepted
<1> HIDE DEF n
<1>4. \A i \in 1 .. n : b[i] \in Cells
  BY <1>1, <1>2, ElementOfSeq
<1>5. /\ SubSeq(b, 1, n) \in Seq(Cells) /\ Len(SubSeq(b, 1, n)) = n
      /\ \A i \in 1 .. n : SubSeq(b, 1, n)[i] = b[i]
  BY <1>1, <1>2, <1>4, SubSeqProperties
<1> QED
  BY <1>1, <1>2, <1>3, <1>5

\* What a read takes is what came first, and what stays is what follows it.
LEMMA TakenFacts ==
    ASSUME bytes \in Seq(Cells), NEW n \in Nat
    PROVE  LET k == Len(Taken(n)) IN
           /\ Taken(n) \in Seq(Cells) /\ k \in 0 .. Len(bytes) /\ k <= n
           /\ \A i \in 1 .. k : Taken(n)[i] = bytes[i]
           /\ SubSeq(bytes, k + 1, Len(bytes)) \in Seq(Cells)
           /\ Len(SubSeq(bytes, k + 1, Len(bytes))) = Len(bytes) - k
           /\ \A i \in 1 .. Len(bytes) - k : SubSeq(bytes, k + 1, Len(bytes))[i] = bytes[k + i]
<1> DEFINE k == IF n < Len(bytes) THEN n ELSE Len(bytes)
<1>1. Len(bytes) \in Nat
  BY LenProperties
<1>2. k \in 0 .. Len(bytes) /\ k <= n
  BY <1>1
<1>3. Taken(n) = SubSeq(bytes, 1, k)
  BY DEF Taken
<1> HIDE DEF k
<1>4. \A i \in 1 .. Len(bytes) : bytes[i] \in Cells
  BY <1>1, ElementOfSeq
<1>5. \A i \in 1 .. k : bytes[i] \in Cells
  BY <1>1, <1>2, <1>4
<1>6. /\ SubSeq(bytes, 1, k) \in Seq(Cells) /\ Len(SubSeq(bytes, 1, k)) = k
      /\ \A i \in 1 .. k : SubSeq(bytes, 1, k)[i] = bytes[i]
  BY <1>1, <1>2, <1>5, SubSeqProperties
<1>7. \A i \in k + 1 .. Len(bytes) : bytes[i] \in Cells
  BY <1>1, <1>2, <1>4
<1>8. /\ SubSeq(bytes, k + 1, Len(bytes)) \in Seq(Cells)
      /\ Len(SubSeq(bytes, k + 1, Len(bytes))) = Len(bytes) - k
      /\ \A i \in 1 .. Len(bytes) - k : SubSeq(bytes, k + 1, Len(bytes))[i] = bytes[k + i]
  BY <1>1, <1>2, <1>7, SubSeqProperties
<1> QED
  BY <1>2, <1>3, <1>6, <1>8

\* The bytes that come next in the left program's output.
LEMMA NextFacts ==
    ASSUME sent \in 0 .. OutLen, NEW n \in 1 .. Chunk, sent + n <= OutLen
    PROVE  /\ NextBytes(n) \in Seq(Cells) /\ Len(NextBytes(n)) = n
           /\ \A i \in 1 .. n : NextBytes(n)[i] = IF prog.left = "endless" THEN SameByte ELSE sent + i
<1>1. n \in Nat /\ OutLen \in Nat
  BY PipelineAssumption
<1>2. NextBytes(n) \in [1 .. n -> Cells]
  BY <1>1 DEF NextBytes, Cells, SameByte
<1>3. NextBytes(n) \in Seq(Cells)
  BY <1>1, <1>2, SeqDef
<1>4. Len(NextBytes(n)) = n
  BY <1>1, <1>2, <1>3, LenProperties
<1> QED
  BY <1>3, <1>4 DEF NextBytes

\* The parent starts with both ends, before the first fork.
LEMMA FramedInit == PipelineInit => Framed
<1> SUFFICES ASSUME PipelineInit PROVE Framed
  OBVIOUS
<1> USE DEF PipelineInit, Procs, Children
<1>1. PipelineTypes
  <2>1. <<>> \in Seq(Cells) /\ Len(<<>>) = 0 /\ OutLen \in Nat /\ Capacity \in Nat
    BY PipelineAssumption, EmptySeq
  <2> QED
    BY <2>1 DEF PipelineTypes, ParentPlaces, ChildPlaces
<1>2. FdsAsExpected
  BY DEF FdsAsExpected, ParentFds, ChildFds
<1>3. PlacesAgree
  BY DEF PlacesAgree
<1> QED
  BY <1>1, <1>2, <1>3 DEF Framed

\* A child's way to its execve, and its end.
LEMMA ChildFramed ==
    ASSUME Framed, NEW p \in Children,
           Dup2(p) \/ CloseEnds(p)
    PROVE  Framed'
<1> USE DEF Procs, Children, Framed
<1>1. /\ UNCHANGED <<mode, prog, bytes, sent, got, code, status>>
      /\ pc' = [pc EXCEPT ![p] = pc'[p]]
      /\ \/ pc[p] = "dup2" /\ pc'[p] = "close0" /\ fds' = [fds EXCEPT ![p] = @ \cup {"std"}]
         \/ pc[p] = "close0" /\ pc'[p] = "close1" /\ fds' = [fds EXCEPT ![p] = @ \ {"p0"}]
         \/ pc[p] = "close1" /\ pc'[p] = "exec" /\ fds' = [fds EXCEPT ![p] = @ \ {"p1"}]
  BY DEF Dup2, CloseEnds, Goto, Kept, PipelineTypes
<1>2. PipelineTypes'
  BY <1>1 DEF PipelineTypes, ParentPlaces, ChildPlaces
<1>3. FdsAsExpected'
  <2>1. fds'["sh"] = fds["sh"] /\ pc'["sh"] = pc["sh"] /\ fds'[p] = ChildFds(p)'
    BY <1>1 DEF PipelineTypes, FdsAsExpected, ChildFds
  <2>2. \A q \in Children \ {p} : fds'[q] = fds[q] /\ pc'[q] = pc[q]
    BY <1>1 DEF PipelineTypes
  <2> QED
    BY <1>1, <2>1, <2>2 DEF FdsAsExpected, ParentFds, ChildFds
<1>4. PlacesAgree'
  BY <1>1 DEF PipelineTypes, PlacesAgree
<1> QED
  BY <1>2, <1>3, <1>4

\* The types of the bytes alone, which most steps leave as they are.
BytesTyped == /\ bytes \in Seq(Cells) /\ Len(bytes) <= Capacity /\ got \in Seq(Cells)
              /\ sent \in 0 .. OutLen

\* A child exits: it has every descriptor closed and a status.
LEMMA ExitFramed ==
    ASSUME Framed, NEW p \in Children, NEW c \in Nat,
           pc[p] \in {"exec", "run"}, Exit(p, c), BytesTyped',
           UNCHANGED <<mode, prog, status>>
    PROVE  Framed'
<1> USE DEF Procs, Children, Framed
<1>1. /\ pc' = [pc EXCEPT ![p] = "zombie"] /\ fds' = [fds EXCEPT ![p] = {}]
      /\ code' = [code EXCEPT ![p] = c]
  BY DEF Exit, Goto
<1>2. PipelineTypes'
  BY <1>1 DEF PipelineTypes, BytesTyped, ParentPlaces, ChildPlaces
<1>3. FdsAsExpected'
  BY <1>1 DEF PipelineTypes, FdsAsExpected, ParentFds, ChildFds
<1>4. PlacesAgree'
  BY <1>1 DEF PipelineTypes, PlacesAgree
<1> QED
  BY <1>2, <1>3, <1>4

\* A child goes on, from execve to its program or with its loop.
LEMMA RunFramed ==
    ASSUME Framed, NEW p \in Children, UNCHANGED <<mode, prog, fds, code, status>>, BytesTyped',
           \/ UNCHANGED pc
           \/ pc[p] = "exec" /\ prog[p] # "missing" /\ Goto(p, "run")
    PROVE  Framed'
<1> USE DEF Procs, Children, Framed
<1>1. CASE UNCHANGED pc
  BY <1>1 DEF PipelineTypes, BytesTyped, FdsAsExpected, ParentFds, ChildFds, PlacesAgree
<1>2. CASE pc[p] = "exec" /\ prog[p] # "missing" /\ Goto(p, "run")
  <2>1. pc' = [pc EXCEPT ![p] = "run"]
    BY <1>2 DEF Goto
  <2>2. PipelineTypes'
    BY <2>1 DEF PipelineTypes, BytesTyped, ParentPlaces, ChildPlaces
  <2>3. FdsAsExpected'
    BY <1>2, <2>1 DEF PipelineTypes, FdsAsExpected, ParentFds, ChildFds
  <2>4. PlacesAgree'
    BY <1>2, <2>1 DEF PipelineTypes, PlacesAgree
  <2> QED
    BY <2>2, <2>3, <2>4
<1> QED
  BY <1>1, <1>2

\* The parent forks, closes its ends, and waits.
LEMMA ForkFramed ==
    ASSUME Framed, NEW p \in Children, Fork(p)
    PROVE  Framed'
<1> USE DEF Procs, Children, Framed
<1>1. UNCHANGED <<mode, prog, bytes, sent, got, code, status>>
  BY DEF Fork
<1>2. CASE Child(p)
  <2>1. /\ fds' = [fds EXCEPT ![p] = fds["sh"]]
        /\ pc' = [pc EXCEPT ![p] = "dup2", !["sh"] = IF mode = "capture" THEN "closeWrite"
                                                     ELSE IF p = "left" THEN "forkRight" ELSE "closeRead"]
    BY <1>2 DEF Child
  <2>2. fds["sh"] = {"p0", "p1"}
    BY DEF Fork, FdsAsExpected, ParentFds
  <2>3. PipelineTypes'
    BY <1>1, <2>1, <2>2 DEF PipelineTypes, ParentPlaces, ChildPlaces
  <2>4. /\ pc'[p] = "dup2" /\ fds'[p] = {"p0", "p1"} /\ fds'["sh"] = {"p0", "p1"}
        /\ pc'["sh"] = IF mode = "capture" THEN "closeWrite"
                       ELSE IF p = "left" THEN "forkRight" ELSE "closeRead"
    BY <2>1, <2>2 DEF PipelineTypes
  <2>7. \A q \in Children \ {p} : pc'[q] = pc[q] /\ fds'[q] = fds[q]
    BY <2>1 DEF PipelineTypes
  <2>5. FdsAsExpected'
    <3>1. fds'["sh"] = ParentFds'
      <4>1. mode' = mode /\ mode \in {"pipeline", "capture"} /\ (mode = "capture" => p = "left")
        BY <1>1 DEF PipelineTypes, PlacesAgree, Fork
      <4>2. CASE mode = "capture"
        BY <2>4, <4>1, <4>2 DEF ParentFds
      <4>3. CASE mode = "pipeline"
        BY <2>4, <4>1, <4>3 DEF ParentFds
      <4> QED
        BY <4>1, <4>2, <4>3
    <3>2. ASSUME NEW q \in Children PROVE fds'[q] = ChildFds(q)'
      BY <2>4, <2>7 DEF ChildFds, FdsAsExpected
    <3> QED
      BY <3>1, <3>2 DEF FdsAsExpected
  <2>6. PlacesAgree'
    <3>1. pc["sh"] = (IF p = "left" THEN "forkLeft" ELSE "forkRight")
      BY DEF Fork
    <3>2. /\ mode' = mode /\ mode \in {"pipeline", "capture"} /\ (mode = "capture" => p = "left")
          /\ status' = status /\ code' = code /\ prog' = prog
      BY <1>1, <3>1 DEF PipelineTypes, PlacesAgree
    <3>3. status = -1
      BY <3>1 DEF PlacesAgree
    <3>4. CASE p = "left"
      <4>1. pc'["left"] = "dup2" /\ pc'["right"] = "none" /\ pc'["sh"] \in {"closeWrite", "forkRight"}
            /\ (pc'["sh"] = "closeWrite" <=> mode = "capture")
        <5>1. pc["right"] = "none"
          BY <3>1, <3>4 DEF PlacesAgree
        <5>2. pc'["right"] = "none" /\ pc'["left"] = "dup2"
          BY <2>4, <2>7, <3>4, <5>1
        <5>3. pc'["sh"] = IF mode = "capture" THEN "closeWrite" ELSE "forkRight"
          BY <2>4, <3>2, <3>4
        <5> QED
          BY <3>2, <5>2, <5>3
      <4> QED
        BY <3>2, <3>3, <4>1 DEF PlacesAgree
    <3>5. CASE p = "right"
      <4>1. /\ pc'["left"] = pc["left"] /\ pc'["right"] = "dup2" /\ pc'["sh"] = "closeRead"
            /\ mode = "pipeline"
        BY <2>4, <2>7, <3>1, <3>2, <3>5
      <4>2. pc["left"] \notin {"none", "gone"} /\ (prog.left = "missing" => pc["left"] # "run")
        BY <3>1, <3>3, <3>5 DEF PlacesAgree
      <4> QED
        BY <3>2, <3>3, <4>1, <4>2 DEF PlacesAgree
    <3> QED
      BY <3>4, <3>5
  <2> QED
    BY <2>3, <2>5, <2>6
<1>3. CASE fds' = [fds EXCEPT !["sh"] = {}] /\ Goto("sh", "done")
  <2>1. pc' = [pc EXCEPT !["sh"] = "done"]
    BY <1>3 DEF Goto
  <2>2. PipelineTypes'
    BY <1>1, <1>3, <2>1 DEF PipelineTypes, ParentPlaces, ChildPlaces
  <2>3. FdsAsExpected'
    BY <1>3, <2>1 DEF PipelineTypes, FdsAsExpected, ParentFds, ChildFds
  <2>4. PlacesAgree'
    BY <1>1, <2>1 DEF PipelineTypes, PlacesAgree, Fork
  <2> QED
    BY <2>2, <2>3, <2>4
<1> QED
  BY <1>2, <1>3 DEF Fork

\* A step of the parent alone.
LEMMA ParentFramed ==
    ASSUME Framed, CloseRead \/ CloseWrite
    PROVE  Framed'
<1> USE DEF Procs, Children, Framed
<1>1. /\ UNCHANGED <<mode, prog, bytes, sent, got, code, status>>
      /\ \/ /\ pc["sh"] = "closeRead" /\ fds' = [fds EXCEPT !["sh"] = @ \ {"p0"}]
            /\ pc' = [pc EXCEPT !["sh"] = IF mode = "pipeline" THEN "closeWrite" ELSE "waitLeft"]
         \/ /\ pc["sh"] = "closeWrite" /\ fds' = [fds EXCEPT !["sh"] = @ \ {"p1"}]
            /\ pc' = [pc EXCEPT !["sh"] = IF mode = "pipeline" THEN "waitLeft" ELSE "read"]
  BY DEF CloseRead, CloseWrite, CloseOf, Goto
<1>2. PipelineTypes'
  BY <1>1 DEF PipelineTypes, ParentPlaces, ChildPlaces
<1>3. FdsAsExpected'
  <2>1. /\ \A q \in Children : fds'[q] = fds[q] /\ pc'[q] = pc[q]
        /\ fds["sh"] = ParentFds /\ mode \in {"pipeline", "capture"}
    BY <1>1 DEF PipelineTypes, FdsAsExpected
  <2>2. fds'["sh"] = ParentFds'
    <3>1. CASE pc["sh"] = "closeRead"
      BY <1>1, <2>1, <3>1 DEF PipelineTypes, ParentFds
    <3>2. CASE pc["sh"] = "closeWrite"
      BY <1>1, <2>1, <3>2 DEF PipelineTypes, ParentFds
    <3> QED
      BY <1>1, <3>1, <3>2
  <2> QED
    BY <2>1, <2>2 DEF FdsAsExpected, ChildFds
<1>4. PlacesAgree'
  BY <1>1 DEF PipelineTypes, PlacesAgree
<1> QED
  BY <1>2, <1>3, <1>4

\* run_capture's read leaves the places alone, or ends its loop.
LEMMA CaptureFramed ==
    ASSUME Framed, Capture, BytesTyped'
    PROVE  Framed'
<1> USE DEF Procs, Children, Framed
<1>1. /\ UNCHANGED <<mode, prog, fds, code, status>> /\ pc["sh"] = "read"
      /\ UNCHANGED pc \/ pc' = [pc EXCEPT !["sh"] = "closeRead"]
  BY DEF Capture, Goto
<1>2. PipelineTypes'
  BY <1>1 DEF PipelineTypes, BytesTyped, ParentPlaces, ChildPlaces
<1>3. FdsAsExpected'
  BY <1>1 DEF PipelineTypes, FdsAsExpected, ParentFds, ChildFds, PlacesAgree
<1>4. PlacesAgree'
  BY <1>1 DEF PipelineTypes, PlacesAgree
<1> QED
  BY <1>2, <1>3, <1>4

\* sys_wait4 finds the child a zombie, and takes its status.
LEMMA WaitFramed ==
    ASSUME Framed, NEW p \in Children, Wait(p)
    PROVE  Framed'
<1> USE DEF Procs, Children, Framed
<1>1. /\ UNCHANGED <<mode, prog, fds, bytes, sent, got, code>>
      /\ pc' = [pc EXCEPT ![p] = "gone", !["sh"] = IF p = "left" /\ mode = "pipeline"
                                                    THEN "waitRight" ELSE "done"]
      /\ status' = code[p] /\ pc[p] = "zombie"
      /\ pc["sh"] = IF p = "left" THEN "waitLeft" ELSE "waitRight"
  BY DEF Wait
<1>2. PipelineTypes'
  BY <1>1 DEF PipelineTypes, ParentPlaces, ChildPlaces
<1>3. FdsAsExpected'
  BY <1>1 DEF PipelineTypes, FdsAsExpected, ParentFds, ChildFds
<1>4. PlacesAgree'
  <2>1. status' # -1
    BY <1>1 DEF PipelineTypes
  <2> QED
    BY <1>1, <2>1 DEF PipelineTypes, PlacesAgree
<1> QED
  BY <1>2, <1>3, <1>4

-----------------------------------------------------------------------------
(* The bytes.                                                              *)

\* How much each program has to write, and how much its reader wants of it.
LEMMA OutputFacts ==
    ASSUME PipelineTypes
    PROVE  /\ Len(Output) = CASE prog.left = "missing" -> 1
                              [] prog.left = "endless" -> ReadMax
                              [] OTHER                 -> OutLen
           /\ Len(Output) \in Nat \ {0}
           /\ \A i \in 1 .. Len(Output) : Output[i] = Wanted(i)
           /\ Output \in Seq(Cells)
           /\ Stopping = IF Stops /\ ReadMax < Len(Output) THEN ReadMax ELSE Len(Output)
<1>1. {OutLen, ReadMax} \subseteq Nat \ {0}
  BY PipelineAssumption
<1>2. Stopping = IF Stops /\ ReadMax < Len(Output) THEN ReadMax ELSE Len(Output)
  BY DEF Stopping, Stops
<1>3. CASE prog.left = "missing"
  <2>1. Output = <<ErrByte>> /\ ErrByte = 0
    BY <1>3 DEF Output, ErrByte
  <2>2. Output \in Seq(Cells) /\ Len(Output) = 1 /\ Output[1] = ErrByte
    BY <1>1, <2>1 DEF Cells
  <2> QED
    BY <1>2, <1>3, <2>2 DEF Wanted
<1>4. CASE prog.left = "endless"
  <2>1. Output = [i \in 1 .. ReadMax |-> SameByte]
    BY <1>4 DEF Output
  <2>2. Output \in [1 .. ReadMax -> Cells] /\ ReadMax \in Nat
    BY <1>1, <2>1 DEF Cells, SameByte
  <2>3. Output \in Seq(Cells) /\ Len(Output) = ReadMax
    BY <2>2, SeqDef, LenProperties
  <2> QED
    BY <1>1, <1>2, <1>4, <2>1, <2>3 DEF Wanted
<1>5. CASE prog.left \notin {"missing", "endless"}
  <2>1. Output = [i \in 1 .. OutLen |-> i]
    BY <1>5 DEF Output
  <2>2. Output \in [1 .. OutLen -> Cells] /\ OutLen \in Nat
    BY <1>1, <2>1 DEF Cells
  <2>3. Output \in Seq(Cells) /\ Len(Output) = OutLen
    BY <2>2, SeqDef, LenProperties
  <2> QED
    BY <1>1, <1>2, <1>5, <2>1, <2>3 DEF Wanted
<1> QED
  BY <1>3, <1>4, <1>5

\* A step that moves no byte, starts no left program, and makes neither end
\* come to its end.
LEMMA BytesKept ==
    ASSUME BytesAgree, UNCHANGED <<mode, prog, bytes, sent, got>>,
           pc'["left"] \notin {"run", "zombie", "gone"} => pc["left"] \notin {"run", "zombie", "gone"},
           ~ForkFailed' => ~ForkFailed /\ (ReaderDone' <=> ReaderDone) /\ (LeftEnded' <=> LeftEnded)
    PROVE  BytesAgree'
BY DEF BytesAgree, Follows, Wanted, Stops, Good, Stopping, Output

\* A read of n bytes.
Moves(n) == got' = got \o Taken(n) /\ bytes' = SubSeq(bytes, Len(Taken(n)) + 1, Len(bytes))

\* The byte a reader takes is the one it waits for, and so is the one left.
LEMMA MovedFollows ==
    ASSUME bytes \in Seq(Cells), got \in Seq(Cells), NEW n \in Nat, prog' = prog,
           Moves(n)
    PROVE  /\ got' \in Seq(Cells) /\ bytes' \in Seq(Cells)
           /\ Len(got) \in Nat /\ Len(bytes) \in Nat /\ Len(got') \in Nat /\ Len(bytes') \in Nat
           /\ Len(got') + Len(bytes') = Len(got) + Len(bytes)
           /\ Len(got') <= Len(got) + n /\ Len(bytes') <= Len(bytes)
           /\ Follows(got, 0) /\ Follows(bytes, Len(got)) =>
                Follows(got, 0)' /\ Follows(bytes, Len(got))'
<1>1. PICK t : t = Taken(n)
  OBVIOUS
<1>2. PICK k : k = Len(t)
  OBVIOUS
<1>3. /\ t \in Seq(Cells) /\ k \in 0 .. Len(bytes) /\ k <= n
      /\ \A i \in 1 .. k : t[i] = bytes[i]
      /\ bytes' \in Seq(Cells) /\ Len(bytes') = Len(bytes) - k
      /\ \A i \in 1 .. Len(bytes) - k : bytes'[i] = bytes[k + i]
  BY <1>1, <1>2, TakenFacts DEF Moves
<1>4. /\ got' \in Seq(Cells) /\ Len(got') = Len(got) + k
      /\ \A i \in 1 .. Len(got) + k : got'[i] = IF i <= Len(got) THEN got[i] ELSE t[i - Len(got)]
  BY <1>1, <1>2, <1>3, ConcatProperties DEF Moves
<1>5. Len(got) \in Nat /\ Len(bytes) \in Nat
  BY LenProperties
<1>6. ASSUME Follows(got, 0), Follows(bytes, Len(got))
      PROVE  Follows(got, 0)' /\ Follows(bytes, Len(got))'
  <2>0. \A i : Wanted(i)' = Wanted(i)
    BY DEF Wanted
  <2>1. ASSUME NEW i \in 1 .. Len(got') PROVE got'[i] = Wanted(0 + i)
    <3>1. CASE i <= Len(got)
      BY <1>4, <1>5, <1>6, <2>1, <3>1 DEF Follows
    <3>2. CASE ~(i <= Len(got))
      <4>1. i - Len(got) \in 1 .. k /\ i - Len(got) \in 1 .. Len(bytes)
            /\ Len(got) + (i - Len(got)) = 0 + i
        BY <1>3, <1>4, <1>5, <2>1, <3>2
      <4>2. got'[i] = bytes[i - Len(got)]
        BY <1>3, <1>4, <2>1, <3>2, <4>1
      <4> QED
        BY <1>6, <4>1, <4>2 DEF Follows
    <3> QED
      BY <3>1, <3>2
  <2>2. ASSUME NEW i \in 1 .. Len(bytes') PROVE bytes'[i] = Wanted(Len(got') + i)
    <3>1. k + i \in 1 .. Len(bytes) /\ i \in 1 .. Len(bytes) - k
          /\ Len(got) + (k + i) = Len(got') + i
      BY <1>3, <1>4, <1>5, <2>2
    <3>2. bytes'[i] = bytes[k + i]
      BY <1>3, <3>1
    <3>3. bytes[k + i] = Wanted(Len(got) + (k + i))
      BY <1>6, <3>1 DEF Follows
    <3> QED
      BY <3>1, <3>2, <3>3
  <2> QED
    BY <2>0, <2>1, <2>2 DEF Follows
<1>7. /\ Len(got') \in Nat /\ Len(bytes') \in Nat
      /\ Len(got') + Len(bytes') = Len(got) + Len(bytes)
      /\ Len(got') <= Len(got) + n /\ Len(bytes') <= Len(bytes)
  <2>1. Len(got') = Len(got) + k /\ Len(bytes') = Len(bytes) - k
    BY <1>3, <1>4
  <2>2. k \in 0 .. Len(bytes) /\ k <= n
    BY <1>3
  <2> QED
    BY <1>5, <2>1, <2>2
<1>8. got' \in Seq(Cells) /\ bytes' \in Seq(Cells)
  BY <1>3, <1>4
<1> QED
  BY <1>5, <1>6, <1>7, <1>8

\* What is written follows what the pipe holds.
LEMMA StoredFollows ==
    ASSUME bytes \in Seq(Cells), got \in Seq(Cells), Len(bytes) <= Capacity, prog' = prog, got' = got,
           NEW b \in Seq(Cells), bytes' = bytes \o Accepted(b)
    PROVE  /\ bytes' \in Seq(Cells) /\ Len(bytes') <= Capacity
           /\ Len(got) \in Nat /\ Len(bytes) \in Nat /\ Len(Accepted(b)) \in 0 .. Len(b)
           /\ Len(bytes') = Len(bytes) + Len(Accepted(b))
           /\ (\A i \in 1 .. Len(b) : b[i] = Wanted(Len(got) + Len(bytes) + i))
              /\ Follows(got, 0) /\ Follows(bytes, Len(got)) =>
                Follows(got, 0)' /\ Follows(bytes, Len(got))'
<1>1. PICK t : t = Accepted(b)
  OBVIOUS
<1>3. /\ t \in Seq(Cells) /\ Len(t) \in 0 .. Len(b) /\ Len(bytes) + Len(t) <= Capacity
      /\ \A i \in 1 .. Len(t) : t[i] = b[i]
  BY <1>1, AcceptedFacts
<1>4. /\ bytes' \in Seq(Cells) /\ Len(bytes') = Len(bytes) + Len(t)
      /\ \A i \in 1 .. Len(bytes) + Len(t) : bytes'[i] = IF i <= Len(bytes) THEN bytes[i]
                                                         ELSE t[i - Len(bytes)]
  BY <1>1, <1>3, ConcatProperties
<1>5. Len(got) \in Nat /\ Len(bytes) \in Nat /\ Len(b) \in Nat
  BY LenProperties
<1>6. ASSUME \A i \in 1 .. Len(b) : b[i] = Wanted(Len(got) + Len(bytes) + i),
             Follows(got, 0), Follows(bytes, Len(got))
      PROVE  Follows(got, 0)' /\ Follows(bytes, Len(got))'
  <2>0. \A i : Wanted(i)' = Wanted(i)
    BY DEF Wanted
  <2>1. ASSUME NEW i \in 1 .. Len(bytes') PROVE bytes'[i] = Wanted(Len(got) + i)
    <3>1. CASE i <= Len(bytes)
      <4>1. i \in 1 .. Len(bytes) /\ i \in 1 .. Len(bytes) + Len(t)
        BY <1>3, <1>4, <1>5, <2>1, <3>1
      <4>2. bytes'[i] = bytes[i]
        BY <1>4, <3>1, <4>1
      <4> QED
        BY <1>6, <4>1, <4>2 DEF Follows
    <3>2. CASE ~(i <= Len(bytes))
      <4>1. i - Len(bytes) \in 1 .. Len(t) /\ i - Len(bytes) \in 1 .. Len(b)
            /\ Len(got) + Len(bytes) + (i - Len(bytes)) = Len(got) + i
        BY <1>3, <1>4, <1>5, <2>1, <3>2
      <4>2. bytes'[i] = b[i - Len(bytes)]
        BY <1>3, <1>4, <2>1, <3>2, <4>1
      <4>3. b[i - Len(bytes)] = Wanted(Len(got) + Len(bytes) + (i - Len(bytes)))
        BY <1>6, <4>1
      <4> QED
        BY <4>1, <4>2, <4>3
    <3> QED
      BY <3>1, <3>2
  <2> QED
    BY <1>6, <2>0, <2>1 DEF Follows
<1> QED
  BY <1>1, <1>3, <1>4, <1>5, <1>6

\* The programs a left or right program may be.
LEMMA KindsFacts ==
    ASSUME PipelineTypes
    PROVE  /\ prog.left \in {"retry", "once", "endless", "missing"}
           /\ prog.right \in {"patient", "hasty", "head", "missing"}
           /\ mode = "capture" => prog.right = "missing"
           /\ prog.left = "endless" => Stops
BY PipelineAssumption DEF PipelineTypes, Pairs, Stops

\* The left program writes: what it takes for written is in the pipe.
LEMMA WriteBytes ==
    ASSUME PipelineInv, WriteSome
    PROVE  Framed' /\ BytesAgree'
<1> USE DEF PipelineInv
<1>1. PICK n \in 1 .. Chunk :
        /\ sent + n <= OutLen
        /\ IF HasReader
           THEN /\ bytes' = bytes \o Accepted(NextBytes(n))
                /\ sent' = sent + Progress(n)
                /\ UNCHANGED <<pc, fds, code>>
           ELSE /\ IF prog.left = "once"
                   THEN sent' = sent + n /\ UNCHANGED <<pc, fds, code>>
                   ELSE Exit("left", 1) /\ UNCHANGED sent
                /\ UNCHANGED bytes
  BY DEF WriteSome
<1>2. /\ UNCHANGED <<mode, prog, got, status>> /\ pc["left"] = "run" /\ sent < OutLen
      /\ bytes \in Seq(Cells) /\ Len(bytes) <= Capacity /\ got \in Seq(Cells) /\ sent \in 0 .. OutLen
      /\ n \in Nat /\ OutLen \in Nat \ {0}
  BY PipelineAssumption DEF WriteSome, PipelineTypes
<1>3. prog.left \in {"retry", "once", "endless"}
  BY <1>2, KindsFacts DEF PlacesAgree
<1>4. CASE HasReader
  <2>1. /\ NextBytes(n) \in Seq(Cells) /\ Len(NextBytes(n)) = n
        /\ \A i \in 1 .. n : NextBytes(n)[i] = IF prog.left = "endless" THEN SameByte ELSE sent + i
    BY <1>1, <1>2, NextFacts
  <2>2. PICK t : t = Len(Accepted(NextBytes(n)))
    OBVIOUS
  <2>3. /\ bytes' \in Seq(Cells) /\ Len(bytes') <= Capacity
        /\ Len(got) \in Nat /\ Len(bytes) \in Nat /\ t \in 0 .. n
        /\ Len(bytes') = Len(bytes) + t
        /\ (\A i \in 1 .. n : NextBytes(n)[i] = Wanted(Len(got) + Len(bytes) + i))
           /\ Follows(got, 0) /\ Follows(bytes, Len(got)) =>
             Follows(got, 0)' /\ Follows(bytes, Len(got))'
    BY <1>1, <1>2, <1>4, <2>1, <2>2, StoredFollows
  <2>4. sent' = sent + (IF prog.left = "endless" THEN 0 ELSE IF prog.left = "once" THEN n ELSE t)
    BY <1>1, <1>3, <1>4, <2>2 DEF Progress
  <2>5. sent' \in 0 .. OutLen
    BY <1>1, <1>2, <2>3, <2>4
  <2>6. Framed'
    <3>1. BytesTyped'
      BY <1>2, <2>3, <2>5 DEF BytesTyped
    <3>2. "left" \in Children
      BY DEF Children
    <3> QED
      BY <1>1, <1>2, <1>4, <3>1, <3>2, RunFramed DEF Framed
  <2>7. prog.left # "once" => Follows(got, 0)' /\ Follows(bytes, Len(got))'
    <3>1. SUFFICES ASSUME prog.left # "once" PROVE Follows(got, 0)' /\ Follows(bytes, Len(got))'
      OBVIOUS
    <3>2. Follows(got, 0) /\ Follows(bytes, Len(got))
      BY <3>1 DEF BytesAgree
    <3>3. ASSUME NEW i \in 1 .. n PROVE NextBytes(n)[i] = Wanted(Len(got) + Len(bytes) + i)
      <4>1. CASE prog.left = "endless"
        BY <2>1, <4>1 DEF Wanted
      <4>2. CASE prog.left = "retry"
        <5>1. Len(got) + Len(bytes) = sent
          BY <4>2 DEF BytesAgree
        <5> QED
          BY <2>1, <4>2, <5>1 DEF Wanted
      <4> QED
        BY <1>3, <3>1, <4>1, <4>2
    <3> QED
      BY <2>3, <3>2, <3>3
  <2>8. /\ prog.left = "endless" => sent' = 0
        /\ prog.left = "retry" => Len(got) + Len(bytes') = sent'
    <3>1. CASE prog.left = "endless"
      <4>1. sent = 0
        BY <3>1 DEF BytesAgree
      <4> QED
        BY <2>4, <3>1, <4>1
    <3>2. CASE prog.left = "retry"
      <4>1. Len(got) + Len(bytes) = sent
        BY <3>2 DEF BytesAgree
      <4>2. sent' = sent + t
        BY <2>4, <3>2
      <4> QED
        BY <2>3, <3>2, <4>1, <4>2
    <3> QED
      BY <3>1, <3>2
  <2>9. pc' = pc /\ mode' = mode /\ status' = status /\ prog' = prog /\ got' = got
    BY <1>1, <1>2, <1>4
  <2>10. BytesAgree'
    <3>1. ~LeftEnded' /\ (Stops' <=> Stops) /\ (Good' <=> Good) /\ (ForkFailed' <=> ForkFailed)
          /\ (ReaderDone' <=> ReaderDone) /\ Stopping' = Stopping
      BY <1>2, <2>9 DEF LeftEnded, Stops, Good, ForkFailed, ReaderDone, Stopping, Output
    <3> QED
      BY <1>2, <2>7, <2>8, <2>9, <3>1 DEF BytesAgree
  <2> QED
    BY <2>6, <2>10
<1>5. CASE ~HasReader /\ prog.left = "once"
  <2>1. UNCHANGED <<mode, prog, pc, fds, code, status, got, bytes>> /\ sent' = sent + n
    BY <1>1, <1>2, <1>5
  <2>2. sent' \in 0 .. OutLen
    BY <1>1, <1>2, <2>1
  <2>3. Framed'
    <3>1. BytesTyped'
      BY <1>2, <2>1, <2>2 DEF BytesTyped
    <3>2. "left" \in Children
      BY DEF Children
    <3> QED
      BY <2>1, <3>1, <3>2, RunFramed DEF Framed
  <2>4. BytesAgree'
    <3>1. (Stops' <=> Stops) /\ ~Good'
      BY <1>5, <2>1 DEF Stops, Good
    <3> QED
      BY <1>2, <1>5, <2>1, <3>1 DEF BytesAgree
  <2> QED
    BY <2>3, <2>4
<1>6. CASE ~HasReader /\ prog.left # "once"
  <2>1. Exit("left", 1) /\ UNCHANGED <<mode, prog, status, got, bytes, sent>>
    BY <1>1, <1>2, <1>6
  <2>2. ReaderDone \/ ForkFailed
    BY <1>6, EndsHeld
  <2>3. Framed'
    <3>1. BytesTyped' /\ "left" \in Children /\ 1 \in Nat /\ pc["left"] \in {"exec", "run"}
      BY <1>2, <2>1 DEF BytesTyped, Children
    <3> QED
      BY <2>1, <3>1, ExitFramed DEF Framed
  <2>4. pc'["sh"] = pc["sh"] /\ pc'["right"] = pc["right"] /\ pc'["left"] = "zombie"
    BY <2>1 DEF Exit, Goto, PipelineTypes, Procs, Children
  <2>5. BytesAgree'
    <3>1. /\ Stops' <=> Stops
          /\ Good' <=> Good
          /\ ForkFailed' <=> ForkFailed
          /\ ReaderDone' <=> ReaderDone
          /\ Stopping' = Stopping
          /\ Follows(got, 0)' <=> Follows(got, 0)
          /\ Follows(bytes, Len(got))' <=> Follows(bytes, Len(got))
      BY <2>1, <2>4 DEF Stops, Good, ForkFailed, ReaderDone, Stopping, Output, Follows, Wanted
    <3> QED
      BY <2>1, <2>2, <2>4, <3>1 DEF BytesAgree
  <2> QED
    BY <2>3, <2>5
<1> QED
  BY <1>4, <1>5, <1>6

\* It exits when it is done with its output.
LEMMA EndBytes ==
    ASSUME PipelineInv, WriteEnd
    PROVE  Framed' /\ BytesAgree'
<1> USE DEF PipelineInv
<1>1. /\ UNCHANGED <<mode, prog, bytes, sent, got, status>> /\ Exit("left", 0)
      /\ pc["left"] = "run" /\ sent = OutLen /\ OutLen \in Nat \ {0}
  BY PipelineAssumption DEF WriteEnd
<1>2. Framed'
  <2>1. BytesTyped' /\ "left" \in Children /\ 0 \in Nat /\ pc["left"] \in {"exec", "run"}
    BY <1>1 DEF BytesTyped, PipelineTypes, Children
  <2> QED
    BY <1>1, <2>1, ExitFramed DEF Framed
<1>3. pc'["sh"] = pc["sh"] /\ pc'["right"] = pc["right"] /\ pc'["left"] = "zombie"
  BY <1>1 DEF Exit, Goto, PipelineTypes, Procs, Children
<1>4. prog.left \in {"retry", "once"}
  BY <1>1, KindsFacts DEF PlacesAgree, BytesAgree
<1>5. prog.left = "retry" => Len(got) + Len(bytes) = Len(Output)
  BY <1>1, OutputFacts DEF BytesAgree
<1>6. BytesAgree'
  <2>1. /\ Stops' <=> Stops
        /\ Good' <=> Good
        /\ ForkFailed' <=> ForkFailed
        /\ ReaderDone' <=> ReaderDone
        /\ Stopping' = Stopping /\ Output' = Output
        /\ Follows(got, 0)' <=> Follows(got, 0)
        /\ Follows(bytes, Len(got))' <=> Follows(bytes, Len(got))
    BY <1>1, <1>3 DEF Stops, Good, ForkFailed, ReaderDone, Stopping, Output, Follows, Wanted
  <2>2. Good => prog.left = "retry"
    BY <1>4 DEF Good
  <2> QED
    BY <1>1, <1>3, <1>4, <1>5, <2>1, <2>2 DEF BytesAgree
<1> QED
  BY <1>2, <1>6

\* execve of a child: what a missing program prints is all its output.
LEMMA ExecBytes ==
    ASSUME PipelineInv, NEW p \in Children, exec_argv(p)
    PROVE  Framed' /\ BytesAgree'
<1> USE DEF PipelineInv
<1>1. /\ UNCHANGED <<mode, prog, sent, got, status>> /\ pc[p] = "exec"
      /\ bytes \in Seq(Cells) /\ got \in Seq(Cells) /\ Len(bytes) <= Capacity
      /\ sent \in 0 .. OutLen /\ Capacity \in Nat \ {0} /\ OutLen \in Nat
  BY PipelineAssumption DEF exec_argv, PipelineTypes
<1>2. CASE prog[p] # "missing"
  <2>1. Goto(p, "run") /\ UNCHANGED <<fds, bytes, code>>
    BY <1>2 DEF exec_argv
  <2>2. BytesTyped'
    BY <1>1, <2>1 DEF BytesTyped
  <2>3. Framed'
    BY <1>1, <1>2, <2>1, <2>2, RunFramed DEF Framed
  <2>4. /\ pc'["sh"] = pc["sh"] /\ pc'[p] = "run"
        /\ \A q \in Children \ {p} : pc'[q] = pc[q]
    BY <2>1 DEF Goto, PipelineTypes, Procs, Children
  <2>5. (ReaderDone' <=> ReaderDone) /\ (LeftEnded' <=> LeftEnded) /\ (ForkFailed' <=> ForkFailed)
    BY <1>1, <2>4 DEF ReaderDone, LeftEnded, ForkFailed, Children
  <2>6. pc'["left"] \notin {"run", "zombie", "gone"} => pc["left"] \notin {"run", "zombie", "gone"}
    BY <1>1, <2>4 DEF Children
  <2>7. BytesAgree'
    BY <1>1, <2>1, <2>5, <2>6, BytesKept
  <2> QED
    BY <2>3, <2>7
<1>3. CASE prog[p] = "missing" /\ p = "right"
  <2>1. Exit("right", 127) /\ UNCHANGED bytes
    BY <1>3 DEF exec_argv
  <2>2. BytesTyped' /\ 127 \in Nat
    BY <1>1, <2>1 DEF BytesTyped
  <2>3. Framed'
    BY <1>1, <1>3, <2>1, <2>2, ExitFramed DEF Framed
  <2>4. pc'["sh"] = pc["sh"] /\ pc'["left"] = pc["left"] /\ pc'["right"] = "zombie"
    BY <2>1 DEF Exit, Goto, PipelineTypes, Procs, Children
  <2>5. mode = "pipeline" /\ prog.right = "missing"
    BY <1>1, <1>3 DEF PlacesAgree, PipelineTypes
  <2>6. BytesAgree'
    <3>1. ~Good' /\ (Stops' <=> Stops) /\ (Follows(got, 0)' <=> Follows(got, 0))
          /\ (Follows(bytes, Len(got))' <=> Follows(bytes, Len(got)))
      BY <1>1, <2>1, <2>5 DEF Good, Stops, Follows, Wanted
    <3> QED
      BY <1>1, <2>1, <2>4, <3>1 DEF BytesAgree
  <2> QED
    BY <2>3, <2>6
<1>4. CASE prog[p] = "missing" /\ p = "left"
  <2>1. Exit("left", 127) /\ prog.left = "missing"
        /\ bytes' = IF HasReader THEN bytes \o Accepted(<<ErrByte>>) ELSE bytes
    BY <1>4 DEF exec_argv
  <2>2. sent = 0 /\ bytes = <<>> /\ got = <<>> /\ Len(bytes) = 0 /\ Len(got) = 0
    BY <1>1, <1>4, EmptySeq DEF BytesAgree
  <2>3. <<ErrByte>> \in Seq(Cells) /\ Len(<<ErrByte>>) = 1 /\ <<ErrByte>>[1] = ErrByte /\ <<ErrByte>> # <<>>
    BY <1>1 DEF Cells, ErrByte
  <2>4. /\ bytes' \in Seq(Cells) /\ Len(bytes') <= Capacity
        /\ Follows(got, 0)' /\ Follows(bytes, Len(got))'
        /\ HasReader => Len(bytes') = 1
    <3>1. CASE HasReader
      <4>1. bytes' = bytes \o Accepted(<<ErrByte>>)
        BY <2>1, <3>1
      <4>2. PICK b : b = <<ErrByte>>
        OBVIOUS
      <4>3. b \in Seq(Cells) /\ Len(b) = 1 /\ b[1] = ErrByte /\ bytes' = bytes \o Accepted(b) /\ b # <<>>
        BY <2>3, <4>1, <4>2
      <4>4. Len(Accepted(b)) > 0
        BY <1>1, <2>2, <4>3, AcceptedFacts
      <4>5. \A i \in 1 .. Len(b) : b[i] = Wanted(Len(got) + Len(bytes) + i)
        BY <2>1, <4>3 DEF Wanted
      <4>6. Follows(got, 0) /\ Follows(bytes, Len(got))
        BY <2>1 DEF BytesAgree
      <4>7. /\ bytes' \in Seq(Cells) /\ Len(bytes') <= Capacity
            /\ Follows(got, 0)' /\ Follows(bytes, Len(got))'
            /\ Len(Accepted(b)) \in 0 .. 1 /\ Len(bytes') = 0 + Len(Accepted(b))
        BY <1>1, <2>2, <4>3, <4>5, <4>6, StoredFollows
      <4> QED
        BY <4>4, <4>7
    <3>2. CASE ~HasReader
      <4>1. bytes' = bytes /\ Follows(got, 0) /\ Follows(bytes, Len(got))
        BY <2>1, <3>2 DEF BytesAgree
      <4> QED
        BY <1>1, <3>2, <4>1 DEF Follows, Wanted
    <3> QED
      BY <3>1, <3>2
  <2>5. Framed'
    <3>1. BytesTyped' /\ 127 \in Nat
      BY <1>1, <2>4 DEF BytesTyped
    <3> QED
      BY <1>1, <1>4, <2>1, <3>1, ExitFramed DEF Framed
  <2>6. pc'["sh"] = pc["sh"] /\ pc'["right"] = pc["right"] /\ pc'["left"] = "zombie"
    BY <2>1 DEF Exit, Goto, PipelineTypes, Procs, Children
  <2>7. /\ Stops' <=> Stops
        /\ Good' <=> Good
        /\ ForkFailed' <=> ForkFailed
        /\ ReaderDone' <=> ReaderDone
        /\ Stopping' = Stopping /\ Output' = Output
    BY <1>1, <2>6 DEF Stops, Good, ForkFailed, ReaderDone, Stopping, Output
  <2>8. Good /\ ~ForkFailed => ~ReaderDone
    <3>1. Stopping > 0
      <4>1. Len(Output) \in Nat \ {0} /\ ReadMax \in Nat \ {0}
        BY OutputFacts, PipelineAssumption
      <4> QED
        BY <4>1, OutputFacts
    <3> QED
      BY <2>2, <3>1 DEF BytesAgree
  <2>9. Good /\ ~ForkFailed => HasReader
    BY <2>8, EndsHeld
  <2>10. Len(Output) = 1 /\ ReadMax \in Nat
    BY <2>1, OutputFacts, PipelineAssumption
  <2>11. BytesAgree'
    BY <1>1, <2>1, <2>2, <2>4, <2>6, <2>7, <2>8, <2>9, <2>10 DEF BytesAgree
  <2> QED
    BY <2>5, <2>11
<1> QED
  BY <1>2, <1>3, <1>4 DEF Children

\* The reader that reads on: what it wants, and what it then has.
ReaderWant == IF Stops THEN ReadMax - Len(got) ELSE Chunk

\* What is read keeps the order of the bytes, and their number.
LEMMA ReadBytes ==
    ASSUME PipelineInv, UNCHANGED <<mode, prog, sent, status>>, pc' = pc,
           pc["left"] # "none", ~ReaderDone, bytes # <<>>,
           ReaderWant # 0, Moves(ReaderWant)
    PROVE  BytesTyped' /\ BytesAgree'
<1> USE DEF PipelineInv
<1>1. /\ bytes \in Seq(Cells) /\ got \in Seq(Cells) /\ Len(bytes) <= Capacity
      /\ sent \in 0 .. OutLen /\ ReadMax \in Nat /\ Chunk \in Nat /\ Capacity \in Nat
      /\ Len(got) \in Nat /\ Len(bytes) \in Nat
  BY PipelineAssumption, LenProperties DEF PipelineTypes
<1>2. PICK n \in Nat : n = ReaderWant
  <2>1. Stops => Len(got) <= ReadMax
    BY DEF BytesAgree
  <2>2. ReaderWant \in Nat
    <3>1. CASE Stops
      BY <1>1, <2>1, <3>1 DEF ReaderWant
    <3>2. CASE ~Stops
      BY <1>1, <3>2 DEF ReaderWant
    <3> QED
      BY <3>1, <3>2
  <2> QED
    BY <2>2
<1>3. Moves(n)
  BY <1>2
<1>4. /\ got' \in Seq(Cells) /\ bytes' \in Seq(Cells)
      /\ Len(got') \in Nat /\ Len(bytes') \in Nat
      /\ Len(got') + Len(bytes') = Len(got) + Len(bytes)
      /\ Len(got') <= Len(got) + n /\ Len(bytes') <= Len(bytes)
      /\ Follows(got, 0) /\ Follows(bytes, Len(got)) =>
           Follows(got, 0)' /\ Follows(bytes, Len(got))'
  BY <1>1, <1>3, MovedFollows
<1>5. BytesTyped'
  BY <1>1, <1>4 DEF BytesTyped
<1>6. Stops => Len(got') <= ReadMax
  BY <1>1, <1>2, <1>4 DEF ReaderWant
<1>7. pc["left"] \in {"run", "zombie", "gone"}
  BY DEF BytesAgree
<1>8. /\ Stops' <=> Stops
      /\ Good' <=> Good
      /\ ForkFailed' <=> ForkFailed
      /\ ReaderDone' <=> ReaderDone
      /\ LeftEnded' <=> LeftEnded
      /\ Output' = Output
  BY DEF Stops, Good, ForkFailed, ReaderDone, LeftEnded, Output
<1>9. BytesAgree'
  BY <1>1, <1>4, <1>6, <1>7, <1>8 DEF BytesAgree
<1> QED
  BY <1>5, <1>9

\* The reader that stops has all it was to have.
LEMMA StopBytes ==
    ASSUME PipelineInv, UNCHANGED <<mode, prog, sent, status, got, bytes>>,
           pc'["left"] = pc["left"], pc["sh"] # "done", ~ReaderDone,
           Good => ReaderWant = 0 \/ AtEof
    PROVE  BytesAgree'
<1> USE DEF PipelineInv
<1>1. /\ bytes \in Seq(Cells) /\ got \in Seq(Cells) /\ sent \in 0 .. OutLen
      /\ ReadMax \in Nat \ {0} /\ Chunk \in Nat \ {0} /\ OutLen \in Nat \ {0}
      /\ Len(got) \in Nat /\ Len(bytes) \in Nat /\ ~ForkFailed
  BY PipelineAssumption, LenProperties DEF PipelineTypes, ForkFailed
<1>2. /\ Stops' <=> Stops
      /\ Good' <=> Good
      /\ LeftEnded' <=> LeftEnded
      /\ Stopping' = Stopping /\ Output' = Output
      /\ Follows(got, 0)' <=> Follows(got, 0)
      /\ Follows(bytes, Len(got))' <=> Follows(bytes, Len(got))
  BY DEF Stops, Good, LeftEnded, Stopping, Output, Follows, Wanted
<1>3. ASSUME Good PROVE Len(got) = Stopping
  <2>1. CASE AtEof
    <3>1. LeftEnded /\ Len(bytes) = 0
      BY <1>1, <2>1, EndsHeld, EmptySeq DEF AtEof
    <3>2. Len(got) = Len(Output)
      BY <1>1, <1>3, <3>1 DEF BytesAgree
    <3>3. Stops => Len(got) <= ReadMax
      BY DEF BytesAgree
    <3> QED
      BY <1>1, <3>2, <3>3, OutputFacts
  <2>2. CASE ~AtEof
    <3>1. Stops /\ Len(got) = ReadMax
      BY <1>1, <1>3, <2>2 DEF ReaderWant
    <3>2. ReadMax <= Len(Output)
      <4>1. CASE prog.left = "endless"
        BY <1>1, <4>1, OutputFacts
      <4>2. CASE prog.left = "retry"
        <5>1. Len(got) + Len(bytes) = sent /\ Len(Output) = OutLen
          BY <4>2, OutputFacts DEF BytesAgree
        <5> QED
          BY <1>1, <3>1, <5>1
      <4>3. CASE prog.left = "missing"
        <5>1. LeftEnded
          <6>1. pc["left"] \notin {"run"}
            BY <4>3 DEF PlacesAgree
          <6>2. pc["left"] \in {"zombie", "gone"}
            BY <1>1, <3>1, <6>1, EmptySeq DEF BytesAgree
          <6> QED
            BY <6>2 DEF LeftEnded
        <5>2. Len(got) + Len(bytes) = Len(Output)
          BY <1>1, <1>3, <5>1 DEF BytesAgree
        <5> QED
          BY <1>1, <3>1, <5>2
      <4> QED
        BY <1>3, <4>1, <4>2, <4>3, KindsFacts DEF Good
    <3> QED
      BY <1>1, <3>1, <3>2, OutputFacts
  <2> QED
    BY <2>1, <2>2
<1>4. Good /\ LeftEnded => prog.left # "endless" /\ Len(got) + Len(bytes) = Len(Output)
  BY <1>1 DEF BytesAgree
<1> QED
  BY <1>2, <1>3, <1>4 DEF BytesAgree

\* A read of the right program: at the end of the pipe it exits, on EAGAIN a
\* hasty one does, and what it takes it appends.
LEMMA RightBytes ==
    ASSUME PipelineInv, ReadRight
    PROVE  Framed' /\ BytesAgree'
<1> USE DEF PipelineInv
<1>1. /\ pc["right"] = "run" /\ UNCHANGED <<mode, prog, sent, status>>
      /\ "right" \in Children /\ 0 \in Nat /\ 1 \in Nat /\ Framed
  BY DEF ReadRight, Children, Framed
<1>2. BytesTyped
  BY DEF BytesTyped, PipelineTypes
<1>3. mode = "pipeline" /\ ~ReaderDone /\ pc["sh"] # "done" /\ pc["left"] # "none"
  <2>1. mode = "pipeline" /\ pc["right"] \notin {"none", "zombie", "gone"}
    BY <1>1 DEF PlacesAgree, PipelineTypes
  <2>2. pc["sh"] # "done" /\ pc["sh"] # "forkLeft"
    BY <1>1, <2>1 DEF PlacesAgree
  <2> QED
    BY <2>1, <2>2 DEF ReaderDone, PlacesAgree
<1>4. PICK n : n = IF prog.right = "head" THEN ReadMax - Len(got) ELSE Chunk
  OBVIOUS
<1>5. n = ReaderWant
  BY <1>3, <1>4 DEF ReaderWant, Stops
<1>6. CASE n = 0 \/ AtEof
  <2>1. Exit("right", 0) /\ UNCHANGED <<bytes, got>>
    BY <1>4, <1>6 DEF ReadRight
  <2>2. BytesTyped'
    BY <1>1, <1>2, <2>1 DEF BytesTyped
  <2>3. Framed'
    BY <1>1, <2>1, <2>2, ExitFramed
  <2>4. pc'["left"] = pc["left"]
    BY <2>1 DEF Exit, Goto, PipelineTypes, Procs, Children
  <2>5. BytesAgree'
    BY <1>1, <1>3, <1>5, <1>6, <2>1, <2>4, StopBytes
  <2> QED
    BY <2>3, <2>5
<1>7. CASE ~(n = 0 \/ AtEof) /\ n > 0 /\ bytes = <<>> /\ prog.right = "hasty"
  <2>1. Exit("right", 1) /\ UNCHANGED <<bytes, got>>
    BY <1>4, <1>7 DEF ReadRight
  <2>2. BytesTyped'
    BY <1>1, <1>2, <2>1 DEF BytesTyped
  <2>3. Framed'
    BY <1>1, <2>1, <2>2, ExitFramed
  <2>4. pc'["left"] = pc["left"]
    BY <2>1 DEF Exit, Goto, PipelineTypes, Procs, Children
  <2>5. ~Good
    BY <1>3, <1>7 DEF Good, Stops
  <2>6. BytesAgree'
    BY <1>1, <1>3, <2>1, <2>4, <2>5, StopBytes
  <2> QED
    BY <2>3, <2>6
<1>8. CASE ~(n = 0 \/ AtEof) /\ n > 0 /\ bytes = <<>> /\ prog.right # "hasty"
  <2>1. UNCHANGED <<pc, fds, code, bytes, got>>
    BY <1>4, <1>8 DEF ReadRight
  <2>2. BytesTyped'
    BY <1>1, <1>2, <2>1 DEF BytesTyped
  <2>3. Framed'
    BY <1>1, <2>1, <2>2, RunFramed
  <2>4. (ReaderDone' <=> ReaderDone) /\ (LeftEnded' <=> LeftEnded) /\ (ForkFailed' <=> ForkFailed)
    BY <1>1, <2>1 DEF ReaderDone, LeftEnded, ForkFailed
  <2>5. BytesAgree'
    BY <1>1, <2>1, <2>4, BytesKept
  <2> QED
    BY <2>3, <2>5
<1>9. CASE ~(n = 0 \/ AtEof) /\ ~(n > 0 /\ bytes = <<>>)
  <2>1. Moves(n) /\ UNCHANGED <<pc, fds, code>>
    BY <1>4, <1>9 DEF ReadRight, Moves
  <2>2. bytes # <<>>
    <3>1. n \in Nat
      BY <1>4, PipelineAssumption, <1>2, LenProperties DEF BytesTyped, BytesAgree, Stops
    <3> QED
      BY <1>9, <3>1
  <2>3. BytesTyped' /\ BytesAgree'
    BY <1>1, <1>3, <1>5, <1>9, <2>1, <2>2, ReadBytes
  <2>4. Framed'
    BY <1>1, <2>1, <2>3, RunFramed
  <2> QED
    BY <2>3, <2>4
<1> QED
  BY <1>6, <1>7, <1>8, <1>9

\* A read of run_capture, which leaves its loop where a reader exits.
LEMMA CaptureBytes ==
    ASSUME PipelineInv, Capture
    PROVE  Framed' /\ BytesAgree'
<1> USE DEF PipelineInv
<1>1. /\ pc["sh"] = "read" /\ UNCHANGED <<mode, prog, fds, sent, code, status>> /\ Framed
  BY DEF Capture, Framed
<1>2. BytesTyped
  BY DEF BytesTyped, PipelineTypes
<1>3. mode = "capture" /\ ~ReaderDone /\ pc["left"] # "none"
  BY <1>1 DEF PlacesAgree, PipelineTypes, ReaderDone
<1>4. PICK n : n = ReadMax - Len(got)
  OBVIOUS
<1>5. n = ReaderWant
  BY <1>3, <1>4 DEF ReaderWant, Stops
<1>6. CASE n = 0 \/ AtEof
  <2>1. Goto("sh", "closeRead") /\ UNCHANGED <<bytes, got>>
    BY <1>4, <1>6 DEF Capture
  <2>2. BytesTyped'
    BY <1>1, <1>2, <2>1 DEF BytesTyped
  <2>3. Framed'
    BY <1>1, <2>2, CaptureFramed
  <2>4. pc'["left"] = pc["left"]
    BY <2>1 DEF Goto, PipelineTypes, Procs, Children
  <2>5. BytesAgree'
    BY <1>1, <1>3, <1>5, <1>6, <2>1, <2>4, StopBytes
  <2> QED
    BY <2>3, <2>5
<1>7. CASE ~(n = 0 \/ AtEof) /\ bytes # <<>>
  <2>1. Moves(n) /\ UNCHANGED pc
    BY <1>4, <1>7 DEF Capture, Moves
  <2>2. BytesTyped' /\ BytesAgree'
    BY <1>1, <1>3, <1>5, <1>7, <2>1, ReadBytes
  <2>3. Framed'
    BY <1>1, <2>2, CaptureFramed
  <2> QED
    BY <2>2, <2>3
<1>8. CASE ~(n = 0 \/ AtEof) /\ bytes = <<>>
  <2>1. Moves(n) /\ UNCHANGED pc
    BY <1>4, <1>8 DEF Capture, Moves
  <2>2. n \in Nat
    <3>1. Stops /\ ReadMax \in Nat /\ Len(got) \in Nat
      BY <1>2, <1>3, PipelineAssumption, LenProperties DEF Stops, BytesTyped
    <3>2. Len(got) <= ReadMax
      BY <3>1 DEF BytesAgree
    <3> QED
      BY <1>4, <3>1, <3>2
  <2>3. Taken(n) = <<>> /\ bytes' = <<>> /\ got' = got
    <3>1. PICK t : t = Taken(n)
      OBVIOUS
    <3>2. t \in Seq(Cells) /\ Len(t) \in 0 .. 0 /\ bytes' \in Seq(Cells) /\ Len(bytes') = 0 - Len(t)
      BY <1>2, <1>8, <2>1, <2>2, <3>1, TakenFacts, EmptySeq DEF BytesTyped, Moves
    <3>3. t = <<>> /\ bytes' = <<>>
      BY <3>2, EmptySeq
    <3>4. got' = got \o <<>> /\ got \in Seq(Cells)
      BY <1>2, <2>1, <3>1, <3>3 DEF Moves, BytesTyped
    <3> QED
      BY <3>1, <3>3, <3>4, ConcatEmptySeq
  <2>4. BytesTyped'
    BY <1>1, <1>2, <1>8, <2>3 DEF BytesTyped
  <2>5. Framed'
    BY <1>1, <2>4, CaptureFramed
  <2>6. (ReaderDone' <=> ReaderDone) /\ (LeftEnded' <=> LeftEnded) /\ (ForkFailed' <=> ForkFailed)
    BY <1>1, <2>1 DEF ReaderDone, LeftEnded, ForkFailed
  <2>7. BytesAgree'
    BY <1>1, <1>8, <2>1, <2>3, <2>6, BytesKept
  <2> QED
    BY <2>5, <2>7
<1> QED
  BY <1>6, <1>7, <1>8

\* The parent's and the children's other steps move no byte.
LEMMA OtherBytes ==
    ASSUME PipelineInv, NEW p \in Children,
           \/ Dup2(p) \/ CloseEnds(p) \/ Fork(p) \/ Wait(p) \/ CloseRead \/ CloseWrite
    PROVE  Framed' /\ BytesAgree'
<1> USE DEF PipelineInv
<1>1. Framed /\ p \in {"left", "right"} /\ UNCHANGED <<mode, prog, bytes, sent, got>>
  BY DEF Framed, Children, Dup2, CloseEnds, Fork, Wait, CloseRead, CloseWrite
<1>2. Framed'
  BY <1>1, ChildFramed, ForkFramed, WaitFramed, ParentFramed
<1>3. CASE Dup2(p) \/ CloseEnds(p)
  <2>1. /\ pc[p] \in {"dup2", "close0", "close1"} /\ pc'[p] \in {"close0", "close1", "exec"}
        /\ \A q \in Procs \ {p} : pc'[q] = pc[q]
        /\ status' = status
    BY <1>1, <1>3 DEF Dup2, CloseEnds, Goto, PipelineTypes, Procs, Children
  <2>2. /\ (ReaderDone' <=> ReaderDone) /\ (LeftEnded' <=> LeftEnded) /\ (ForkFailed' <=> ForkFailed)
        /\ pc'["left"] \notin {"run", "zombie", "gone"} => pc["left"] \notin {"run", "zombie", "gone"}
    BY <1>1, <2>1 DEF ReaderDone, LeftEnded, ForkFailed, Procs, Children
  <2> QED
    BY <1>1, <1>2, <2>2, BytesKept
<1>4. CASE Fork(p)
  <2>1. pc["sh"] = (IF p = "left" THEN "forkLeft" ELSE "forkRight") /\ status' = status
    BY <1>4 DEF Fork
  <2>2. status = -1 /\ pc[p] = "none"
    BY <1>1, <2>1 DEF PlacesAgree
  <2>3. CASE Child(p)
    <3>1. /\ pc'[p] = "dup2" /\ pc'["sh"] \in {"closeWrite", "forkRight", "closeRead"}
          /\ pc'["sh"] = "closeRead" => mode # "capture"
          /\ \A q \in Children \ {p} : pc'[q] = pc[q]
      BY <1>1, <2>3 DEF Child, PipelineTypes, Procs, Children
    <3>2. /\ (ReaderDone' <=> ReaderDone) /\ (LeftEnded' <=> LeftEnded) /\ (ForkFailed' <=> ForkFailed)
          /\ pc'["left"] \notin {"run", "zombie", "gone"} => pc["left"] \notin {"run", "zombie", "gone"}
      BY <1>1, <2>1, <2>2, <3>1 DEF ReaderDone, LeftEnded, ForkFailed, Children, PipelineTypes
    <3> QED
      BY <1>1, <1>2, <3>2, BytesKept
  <2>4. CASE Goto("sh", "done")
    <3>1. pc'["sh"] = "done" /\ pc'["left"] = pc["left"]
      BY <2>4 DEF Goto, PipelineTypes, Procs, Children
    <3>2. ForkFailed'
      BY <2>1, <2>2, <3>1 DEF ForkFailed
    <3> QED
      BY <1>1, <1>2, <3>1, <3>2, BytesKept
  <2> QED
    BY <1>4, <2>3, <2>4 DEF Fork
<1>5. CASE Wait(p)
  <2>1. /\ pc["sh"] = (IF p = "left" THEN "waitLeft" ELSE "waitRight") /\ status' = code[p]
        /\ pc[p] = "zombie" /\ pc'[p] = "gone" /\ \A q \in Children \ {p} : pc'[q] = pc[q]
        /\ pc'["sh"] = IF p = "left" /\ mode = "pipeline" THEN "waitRight" ELSE "done"
    BY <1>1, <1>5 DEF Wait, PipelineTypes, Procs, Children
  <2>2. status' # -1
    BY <2>1 DEF PipelineTypes
  <2>3. mode = "capture" => p = "left"
    BY <1>1, <2>1 DEF PlacesAgree
  <2>4. ~ForkFailed /\ ~ForkFailed'
    BY <2>1, <2>2 DEF ForkFailed
  <2>5. /\ (ReaderDone' <=> ReaderDone) /\ (LeftEnded' <=> LeftEnded)
        /\ pc'["left"] \notin {"run", "zombie", "gone"} => pc["left"] \notin {"run", "zombie", "gone"}
    BY <1>1, <2>1, <2>3 DEF ReaderDone, LeftEnded, Children, PipelineTypes
  <2> QED
    BY <1>1, <1>2, <2>4, <2>5, BytesKept
<1>6. CASE CloseRead \/ CloseWrite
  <2>1. /\ pc["sh"] \in {"closeRead", "closeWrite"} /\ status' = status
        /\ pc'["left"] = pc["left"] /\ pc'["right"] = pc["right"]
        /\ pc'["sh"] = IF mode = "pipeline" THEN IF pc["sh"] = "closeRead" THEN "closeWrite" ELSE "waitLeft"
                       ELSE IF pc["sh"] = "closeRead" THEN "waitLeft" ELSE "read"
    BY <1>6 DEF CloseRead, CloseWrite, Goto, PipelineTypes, Procs, Children
  <2>2. (ReaderDone' <=> ReaderDone) /\ (LeftEnded' <=> LeftEnded) /\ (ForkFailed' <=> ForkFailed)
    BY <1>1, <2>1 DEF ReaderDone, LeftEnded, ForkFailed
  <2> QED
    BY <1>1, <1>2, <2>1, <2>2, BytesKept
<1> QED
  BY <1>3, <1>4, <1>5, <1>6

-----------------------------------------------------------------------------
(* The invariant and what it is for.                                       *)

\* Before the first fork there is no byte.
LEMMA PipelineStarts == PipelineInit => PipelineInv
<1> SUFFICES ASSUME PipelineInit PROVE PipelineInv
  OBVIOUS
<1>1. Framed
  BY FramedInit
<1>2. /\ bytes = <<>> /\ got = <<>> /\ sent = 0 /\ pc["left"] = "none" /\ pc["right"] = "none"
      /\ pc["sh"] = "forkLeft" /\ Len(got) = 0 /\ Len(bytes) = 0 /\ ReadMax \in Nat
  BY PipelineAssumption, EmptySeq DEF PipelineInit, Procs, Children
<1>3. ~LeftEnded /\ ~ReaderDone /\ Follows(got, 0) /\ Follows(bytes, Len(got))
  BY <1>2 DEF LeftEnded, ReaderDone, Follows
<1>4. BytesAgree
  BY <1>2, <1>3 DEF BytesAgree
<1> QED
  BY <1>1, <1>4 DEF PipelineInv, Framed

\* Every system call of every process keeps it.
LEMMA PipelineSteps == PipelineInv /\ [PipelineNext]_pipelineVars => PipelineInv'
<1> SUFFICES ASSUME PipelineInv, [PipelineNext]_pipelineVars PROVE PipelineInv'
  OBVIOUS
<1> USE DEF PipelineInv
<1>1. ASSUME UNCHANGED pipelineVars PROVE Framed' /\ BytesAgree'
  <2>1. UNCHANGED <<mode, prog, pc, fds, bytes, sent, got, code, status>>
    BY <1>1 DEF pipelineVars
  <2>2. BytesTyped' /\ "left" \in Children
    BY <2>1 DEF BytesTyped, PipelineTypes, Children
  <2>3. Framed'
    BY <2>1, <2>2, RunFramed DEF Framed
  <2>4. (ReaderDone' <=> ReaderDone) /\ (LeftEnded' <=> LeftEnded) /\ (ForkFailed' <=> ForkFailed)
    BY <2>1 DEF ReaderDone, LeftEnded, ForkFailed
  <2>5. BytesAgree'
    BY <2>1, <2>4, BytesKept
  <2> QED
    BY <2>3, <2>5
<1>2. ASSUME NEW p \in Procs, Step(p) PROVE Framed' /\ BytesAgree'
  <2>1. CASE p \in Children /\ (Dup2(p) \/ CloseEnds(p))
    BY <2>1, OtherBytes
  <2>2. CASE p \in Children /\ exec_argv(p)
    BY <2>2, ExecBytes
  <2>3. CASE WriteSome
    BY <2>3, WriteBytes
  <2>4. CASE WriteEnd
    BY <2>4, EndBytes
  <2>5. CASE ReadRight
    BY <2>5, RightBytes
  <2>6. CASE \E q \in Children : Fork(q) \/ Wait(q)
    BY <2>6, OtherBytes
  <2>7. CASE CloseRead \/ CloseWrite
    <3>1. "left" \in Children
      BY DEF Children
    <3> QED
      BY <2>7, <3>1, OtherBytes
  <2>8. CASE Capture
    BY <2>8, CaptureBytes
  <2> QED
    BY <1>2, <2>1, <2>2, <2>3, <2>4, <2>5, <2>6, <2>7, <2>8 DEF Step
<1> QED
  BY <1>1, <1>2 DEF PipelineNext, Framed

\* What the bytes say when the shell goes on.
LEMMA WholeAtEnd == PipelineInv => PipelineWhole
<1> SUFFICES ASSUME PipelineInv, pc["sh"] = "done", status # -1
             PROVE  /\ \A p \in Children : pc[p] \in {"gone", "none"}
                    /\ mode = "pipeline" => status = code["right"]
                    /\ (prog.left # "once" /\ (mode = "capture" \/ prog.right \in {"patient", "head"})) =>
                         got = SubSeq(Output, 1, Stopping)
  BY DEF PipelineWhole
<1> USE DEF PipelineInv
<1>1. mode \in {"pipeline", "capture"} /\ pc["left"] = "gone" /\ pc["right"] \in {"gone", "none"}
      /\ (mode = "pipeline" => status = code["right"] /\ pc["right"] = "gone")
  BY DEF PipelineTypes, PlacesAgree
<1>2. ASSUME Good PROVE got = SubSeq(Output, 1, Stopping)
  <2>1. Len(got) = Stopping /\ Follows(got, 0)
    BY <1>1, <1>2 DEF BytesAgree, ForkFailed, ReaderDone, Good
  <2>2. PICK k : k = Stopping
    OBVIOUS
  <2>3. /\ Output \in Seq(Cells) /\ k \in 0 .. Len(Output) /\ Len(Output) \in Nat
        /\ \A i \in 1 .. Len(Output) : Output[i] = Wanted(i)
    <3>1. ReadMax \in Nat
      BY PipelineAssumption
    <3> QED
      BY <2>2, <3>1, OutputFacts
  <2>4. \A i \in 1 .. k : Output[i] \in Cells
    BY <2>3, ElementOfSeq
  <2>5. /\ SubSeq(Output, 1, k) \in Seq(Cells) /\ Len(SubSeq(Output, 1, k)) = k
        /\ \A i \in 1 .. k : SubSeq(Output, 1, k)[i] = Output[i]
    BY <2>3, <2>4, SubSeqProperties
  <2>6. \A i \in 1 .. k : got[i] = SubSeq(Output, 1, k)[i]
    BY <2>1, <2>2, <2>3, <2>5 DEF Follows
  <2>7. got \in Seq(Cells)
    BY DEF PipelineTypes
  <2> QED
    BY <2>1, <2>2, <2>5, <2>6, <2>7, SeqEqual
<1> QED
  BY <1>1, <1>2 DEF Children, Good, Stops

\* The descriptors of both ends, the places of the three processes and the
\* bytes between them agree, whatever the interleaving.
THEOREM PipelineInvariant == PipelineSpec => []PipelineInv
<1>1. PipelineInit => PipelineInv
  BY PipelineStarts
<1>2. PipelineInv /\ [PipelineNext]_pipelineVars => PipelineInv'
  BY PipelineSteps
<1> QED
  BY <1>1, <1>2, PTL DEF PipelineSpec

\* When the shell goes on after `cmd1 | cmd2`, and kinit after run_capture,
\* both children are waited for, the status is the right program's, and a
\* reader that reads to the end has all that a program which retries wrote.
THEOREM PipelineStaysWhole == PipelineSpec => []PipelineWhole
<1>1. PipelineSpec => []PipelineInv
  BY PipelineInvariant
<1>2. PipelineInv => PipelineWhole
  BY WholeAtEnd
<1> QED
  BY <1>1, <1>2, PTL

-----------------------------------------------------------------------------
(* Numbers: least and greatest.                                           *)

\* The order of the numbers, as a relation without infinite descent.
LEMMA NatsWellFounded ==
    \E R : IsWellFoundedOn(R, Nat) /\ \A x, y \in Nat : y < x => <<y, x>> \in R
<1>1. ASSUME NEW x \in Nat, NEW y \in Nat, y < x PROVE <<y, x>> \in OpToRel(<, Nat)
  <2>1. <<y, x>> \in Nat \X Nat
    OBVIOUS
  <2>2. <<y, x>>[1] < <<y, x>>[2]
    BY <1>1
  <2> QED
    BY <2>1, <2>2, Zenon DEF OpToRel
<1>2. IsWellFoundedOn(OpToRel(<, Nat), Nat)
  BY NatLessThanWellFounded, Zenon
<1> QED
  BY <1>1, <1>2, Zenon

\* A set of numbers has a least one, which is what a scan finds.
LEMMA LeastNumber ==
    ASSUME NEW S \in SUBSET Nat, S # {}
    PROVE  \E x \in S : \A y \in S : x <= y
<1>1. PICK R : IsWellFoundedOn(R, Nat) /\ \A x, y \in Nat : y < x => <<y, x>> \in R
  BY NatsWellFounded
<1>2. PICK x \in S : \A y \in S : ~(<<y, x>> \in R)
  BY <1>1, WFMin
<1>3. ASSUME NEW y \in S PROVE x <= y
  <2>1. x \in Nat /\ y \in Nat
    OBVIOUS
  <2>2. y < x => <<y, x>> \in R
    BY <1>1, <2>1, Zenon
  <2> QED
    BY <1>2, <2>1, <2>2
<1> QED
  BY <1>3

\* A bounded set of numbers has a greatest one.
LEMMA GreatestOf ==
    ASSUME NEW n \in Nat, NEW S \in SUBSET (0 .. n), S # {}
    PROVE  \E x \in S : \A y \in S : y <= x
<1> DEFINE T == {n - y : y \in S}
<1>1. T \in SUBSET Nat /\ T # {}
  <2>1. ASSUME NEW y \in S PROVE n - y \in Nat
    <3>1. y \in 0 .. n
      OBVIOUS
    <3> QED
      BY <3>1
  <2> QED
    BY <2>1
<1>2. PICK t \in T : \A u \in T : t <= u
  <2> HIDE DEF T
  <2> QED
    BY <1>1, LeastNumber
<1>3. PICK x \in S : t = n - x
  BY <1>2
<1>4. ASSUME NEW y \in S PROVE y <= x
  <2>1. n - y \in T /\ x \in Nat /\ y \in Nat
    OBVIOUS
  <2>2. t <= n - y
    BY <1>2, <2>1
  <2> QED
    BY <1>3, <2>1, <2>2
<1> QED
  BY <1>4

-----------------------------------------------------------------------------
(* The invariant of the line editor.                                       *)

IsLine(s) == s \in Seq(Characters) /\ Len(s) < Cap

\* The line fits its buffer and was drawn in full; past lines do, too.
EditTypes ==
    /\ IsLine(text) /\ pos \in 0 .. Len(text) /\ last_draw_len = Len(text)
    /\ IsLine(saved) /\ row \in Seq(Characters) /\ col \in 0 .. Len(row)
    /\ hist_pos \in 0 .. g_hist_count
    /\ past \in Seq(Seq(Characters)) /\ \A k \in 1 .. Len(past) : IsLine(past[k])
    /\ g_hist \in [0 .. HIST_MAX - 1 -> Seq(Characters)]
    /\ g_hist_next \in 0 .. HIST_MAX - 1

\* s stands before cell c + 1.
Stands(r, c, s) == Len(s) <= c /\ \A i \in 1 .. Len(s) : r[c - Len(s) + i] = s[i]

\* Prompt and line up to the cursor.
Written(line, at) == Prompt \o SubSeq(line, 1, at)

Stood == Stands(row, col, Written(text, pos))

\* The terminal's cells are s and blanks behind it.
Shows(r, s) == r = s \o Blanks(Len(r) - Len(s))

Shown == clean => col = Len(Prompt) + pos /\ Fits(text) /\ Shows(row, Prompt \o text)

\* The ring holds the newest of the past lines.
RingHolds ==
    /\ g_hist_count = IF Len(past) < HIST_MAX THEN Len(past) ELSE HIST_MAX
    /\ \A back \in 0 .. g_hist_count - 1 : hist_get_from_end(back) = past[Len(past) - back]

Recalled == hist_pos > 0 => text = past[Len(past) - hist_pos + 1]

EditInv == EditTypes /\ Stood /\ Shown /\ RingHolds /\ Recalled

-----------------------------------------------------------------------------
(* Lines on the terminal.                                                  *)

LEMMA BlanksFacts ==
    ASSUME NEW n \in Int
    PROVE  /\ Blanks(n) \in Seq(Characters)
           /\ Len(Blanks(n)) = IF n > 0 THEN n ELSE 0
           /\ \A i \in 1 .. Len(Blanks(n)) : Blanks(n)[i] = Blank
<1> DEFINE m == IF n > 0 THEN n ELSE 0
<1>1. m \in Nat /\ 1 .. n = 1 .. m
  OBVIOUS
<1>2. Blanks(n) = [i \in 1 .. m |-> Blank]
  BY <1>1 DEF Blanks
<1>3. Blank \in Characters
  BY LineEditAssumption
<1> HIDE DEF m
<1>4. Blanks(n) \in Seq(Characters)
  BY <1>1, <1>2, <1>3
<1>5. Len(Blanks(n)) = m
  BY <1>1, <1>2
<1> QED
  BY <1>1, <1>2, <1>4, <1>5 DEF m

\* A part of a line, possibly empty.
LEMMA PartFacts ==
    ASSUME NEW s \in Seq(Characters), NEW m \in Nat \ {0}, NEW n \in Int, n <= Len(s)
    PROVE  /\ SubSeq(s, m, n) \in Seq(Characters)
           /\ Len(SubSeq(s, m, n)) = IF m <= n THEN n - m + 1 ELSE 0
           /\ \A i \in 1 .. Len(SubSeq(s, m, n)) : SubSeq(s, m, n)[i] = s[m + i - 1]
<1>1. \A i \in m .. n : s[i] \in Characters
  <2>1. Len(s) \in Nat
    BY LenProperties
  <2>2. ASSUME NEW i \in m .. n PROVE i \in 1 .. Len(s)
    BY <2>1
  <2> QED
    BY <2>2, ElementOfSeq
<1>2. m \in Int
  OBVIOUS
<1>3. /\ SubSeq(s, m, n) \in Seq(Characters)
      /\ Len(SubSeq(s, m, n)) = IF m <= n THEN n - m + 1 ELSE 0
      /\ \A i \in 1 .. n - m + 1 : SubSeq(s, m, n)[i] = s[m + i - 1]
  BY <1>1, <1>2, SubSeqProperties
<1>4. ASSUME NEW i \in 1 .. Len(SubSeq(s, m, n)) PROVE i \in 1 .. n - m + 1
  BY <1>2, <1>3
<1> QED
  BY <1>3, <1>4

\* Two lines, one behind the other.
LEMMA JoinFacts ==
    ASSUME NEW s \in Seq(Characters), NEW t \in Seq(Characters)
    PROVE  /\ s \o t \in Seq(Characters) /\ Len(s \o t) = Len(s) + Len(t)
           /\ Len(s) \in Nat /\ Len(t) \in Nat
           /\ \A i \in 1 .. Len(s) + Len(t) :
                (s \o t)[i] = IF i <= Len(s) THEN s[i] ELSE t[i - Len(s)]
BY ConcatProperties, LenProperties

\* What is written hides as much as it is long.
LEMMA OverwriteFacts ==
    ASSUME NEW r \in Seq(Characters), NEW s \in Seq(Characters), NEW c \in 0 .. Len(r)
    PROVE  /\ Overwrite(r, c, s) \in Seq(Characters)
           /\ Len(Overwrite(r, c, s)) = IF c + Len(s) < Len(r) THEN Len(r) ELSE c + Len(s)
           /\ \A i \in 1 .. Len(Overwrite(r, c, s)) :
                Overwrite(r, c, s)[i] = IF i \in c + 1 .. c + Len(s) THEN s[i - c] ELSE r[i]
<1>1. PICK m, n, d : m = Len(s) /\ n = Len(r) /\ d = c + m + 1
  OBVIOUS
<1>2. m \in Nat /\ n \in Nat /\ c \in Nat /\ c <= n /\ c \in Int /\ d \in Nat \ {0}
      /\ 1 \in Nat \ {0} /\ n \in Int
  BY <1>1, LenProperties
<1>3. PICK h, t, o : /\ h = SubSeq(r, 1, c) /\ t = SubSeq(r, d, n)
                     /\ o = Overwrite(r, c, s)
  OBVIOUS
<1>4. /\ h \in Seq(Characters) /\ Len(h) = c /\ \A i \in 1 .. c : h[i] = r[i]
  <2>1. /\ h \in Seq(Characters) /\ Len(h) = IF 1 <= c THEN c - 1 + 1 ELSE 0
        /\ \A i \in 1 .. Len(h) : h[i] = r[1 + i - 1]
    BY <1>1, <1>2, <1>3, PartFacts
  <2> QED
    BY <1>2, <2>1
<1>5. /\ t \in Seq(Characters) /\ Len(t) = (IF d <= n THEN n - d + 1 ELSE 0)
      /\ \A i \in 1 .. Len(t) : t[i] = r[d + i - 1]
  BY <1>1, <1>2, <1>3, PartFacts
<1>6. o = (h \o s) \o t
  BY <1>1, <1>3 DEF Overwrite
<1>7. PICK u : u = h \o s
  OBVIOUS
<1>8. /\ u \in Seq(Characters) /\ Len(u) = c + m
      /\ \A i \in 1 .. c + m : u[i] = IF i <= c THEN h[i] ELSE s[i - c]
  BY <1>1, <1>4, <1>7, JoinFacts
<1>9. /\ o \in Seq(Characters) /\ Len(o) = (c + m) + Len(t)
      /\ \A i \in 1 .. (c + m) + Len(t) : o[i] = IF i <= c + m THEN u[i] ELSE t[i - (c + m)]
  <2>1. o = u \o t
    BY <1>6, <1>7
  <2>2. /\ u \o t \in Seq(Characters) /\ Len(u \o t) = Len(u) + Len(t)
        /\ \A i \in 1 .. Len(u) + Len(t) :
             (u \o t)[i] = IF i <= Len(u) THEN u[i] ELSE t[i - Len(u)]
    BY <1>5, <1>8, JoinFacts
  <2> QED
    BY <1>8, <2>1, <2>2
<1>10. Len(o) = IF c + m < n THEN n ELSE c + m
  <2>1. CASE d <= n
    BY <1>1, <1>2, <1>5, <1>9, <2>1
  <2>2. CASE ~(d <= n)
    BY <1>1, <1>2, <1>5, <1>9, <2>2
  <2> QED
    BY <2>1, <2>2
<1>11. ASSUME NEW i \in 1 .. Len(o)
       PROVE  o[i] = IF i \in c + 1 .. c + m THEN s[i - c] ELSE r[i]
  <2>1. Len(t) \in Nat /\ i \in Nat \ {0}
    BY <1>5, LenProperties
  <2>2. CASE i <= c + m
    <3>1. i \in 1 .. (c + m) + Len(t) /\ i \in 1 .. c + m
      BY <1>2, <2>1, <2>2
    <3>2. o[i] = IF i <= c THEN h[i] ELSE s[i - c]
      BY <1>8, <1>9, <2>2, <3>1
    <3>3. i <= c => h[i] = r[i]
      BY <1>2, <1>4, <2>1
    <3>4. i \in c + 1 .. c + m <=> ~(i <= c)
      BY <1>2, <2>1, <2>2
    <3> QED
      BY <3>2, <3>3, <3>4
  <2>3. CASE ~(i <= c + m)
    <3>1. i \in 1 .. (c + m) + Len(t) /\ i - (c + m) \in 1 .. Len(t) /\ d + (i - (c + m)) - 1 = i
      BY <1>1, <1>2, <1>9, <2>1, <2>3
    <3>2. o[i] = t[i - (c + m)]
      BY <1>9, <2>3, <3>1
    <3>3. t[i - (c + m)] = r[i]
      BY <1>5, <3>1
    <3>4. ~(i \in c + 1 .. c + m)
      BY <1>2, <2>1, <2>3
    <3> QED
      BY <3>2, <3>3, <3>4
  <2> QED
    BY <2>2, <2>3
<1> QED
  BY <1>1, <1>3, <1>9, <1>10, <1>11

\* The cells that a carriage return leaves in reach.
LEMMA ReachableFacts ==
    ASSUME NEW r \in Seq(Characters), NEW c \in 0 .. Len(r)
    PROVE  /\ Reachable(r, c) \in Seq(Characters)
           /\ c % Width \in 0 .. Len(Reachable(r, c))
           /\ c < Width => Reachable(r, c) = r
<1>1. PICK n, w, m : n = Len(r) /\ w = Width /\ m = c % w
  OBVIOUS
<1>2. n \in Nat /\ w \in Nat \ {0} /\ c \in Nat /\ c <= n
  BY <1>1, LenProperties, LineEditAssumption
<1>3. m \in Nat /\ m <= c /\ (c < w => m = c)
  <2>1. CASE c < w
    BY <1>1, <1>2, <2>1
  <2>2. CASE w <= c
    BY <1>1, <1>2, <2>2
  <2> QED
    BY <1>2, <2>1, <2>2
<1>4. PICK b : b = RowStart(c) + 1
  OBVIOUS
<1>5. b = c - m + 1
  BY <1>1, <1>4 DEF RowStart
<1>6. b \in Nat \ {0} /\ n \in Int /\ n <= Len(r)
  BY <1>1, <1>2, <1>3, <1>5
<1>7. Reachable(r, c) = SubSeq(r, b, n)
  BY <1>1, <1>4 DEF Reachable
<1>8. /\ SubSeq(r, b, n) \in Seq(Characters)
      /\ Len(SubSeq(r, b, n)) = IF b <= n THEN n - b + 1 ELSE 0
  BY <1>6, PartFacts
<1>9. m \in 0 .. Len(SubSeq(r, b, n))
  BY <1>2, <1>3, <1>5, <1>8
<1>10. ASSUME c < w PROVE SubSeq(r, b, n) = r
  <2>1. b = 1
    BY <1>2, <1>3, <1>5, <1>10
  <2> QED
    BY <1>1, <2>1, SubSeqFull
<1> QED
  BY <1>1, <1>7, <1>8, <1>9, <1>10

\* What the terminal shows, cell by cell.
LEMMA ShowsFacts ==
    ASSUME NEW r \in Seq(Characters), NEW line \in Seq(Characters)
    PROVE  Shows(r, line) <=>
             /\ Len(line) <= Len(r)
             /\ \A i \in 1 .. Len(r) : r[i] = IF i <= Len(line) THEN line[i] ELSE Blank
<1>1. PICK m, n : m = Len(line) /\ n = Len(r)
  OBVIOUS
<1>2. m \in Nat /\ n \in Nat
  BY <1>1, LenProperties
<1>3. PICK b : b = Blanks(n - m)
  OBVIOUS
<1>4. /\ b \in Seq(Characters) /\ Len(b) = IF n - m > 0 THEN n - m ELSE 0
      /\ \A i \in 1 .. Len(b) : b[i] = Blank
  <2>1. PICK e : e = n - m
    OBVIOUS
  <2>2. e \in Int
    BY <1>2, <2>1
  <2> QED
    BY <1>3, <2>1, <2>2, BlanksFacts
<1>5. PICK s : s = line \o b
  OBVIOUS
<1>6. /\ s \in Seq(Characters) /\ Len(s) = m + Len(b)
      /\ \A i \in 1 .. m + Len(b) : s[i] = IF i <= m THEN line[i] ELSE b[i - m]
  BY <1>1, <1>4, <1>5, ConcatProperties
<1>7. Len(b) \in Nat
  BY <1>4, LenProperties
<1>8. \A i \in 1 .. m + Len(b) : s[i] = IF i <= m THEN line[i] ELSE Blank
  <2>1. ASSUME NEW i \in 1 .. m + Len(b), ~(i <= m) PROVE b[i - m] = Blank
    <3>1. i - m \in 1 .. Len(b)
      BY <1>2, <1>7, <2>1
    <3> QED
      BY <1>4, <3>1
  <2> QED
    BY <1>6, <2>1
<1>9. Shows(r, line) <=> r = s
  BY <1>1, <1>3, <1>5 DEF Shows
<1>10. ASSUME r = s PROVE m <= n /\ \A i \in 1 .. n : r[i] = IF i <= m THEN line[i] ELSE Blank
  <2>1. n = m + Len(b)
    BY <1>1, <1>6, <1>10
  <2> QED
    BY <1>2, <1>7, <1>8, <1>10, <2>1
<1>11. ASSUME m <= n, \A i \in 1 .. n : r[i] = IF i <= m THEN line[i] ELSE Blank PROVE r = s
  <2>1. Len(s) = n
    BY <1>2, <1>4, <1>6, <1>11
  <2>2. \A i \in 1 .. Len(r) : r[i] = s[i]
    BY <1>1, <1>6, <1>8, <1>11, <2>1
  <2> QED
    BY <1>1, <1>6, <2>1, <2>2, SeqEqual
<1> QED
  BY <1>1, <1>9, <1>10, <1>11

\* Prompt and line up to the cursor, cell by cell.
LEMMA WrittenFacts ==
    ASSUME NEW line \in Seq(Characters), NEW at \in 0 .. Len(line)
    PROVE  /\ Written(line, at) \in Seq(Characters) /\ Prompt \o line \in Seq(Characters)
           /\ Len(Written(line, at)) = Len(Prompt) + at
           /\ Len(Prompt \o line) = Len(Prompt) + Len(line)
           /\ Len(Prompt) \in Nat /\ Len(line) \in Nat
           /\ \A i \in 1 .. Len(Prompt) + at : Written(line, at)[i] = (Prompt \o line)[i]
<1>1. Prompt \in Seq(Characters)
  BY LineEditAssumption
<1>2. PICK p, n, t, u, v : /\ p = Len(Prompt) /\ n = Len(line) /\ t = SubSeq(line, 1, at)
                           /\ u = Prompt \o t /\ v = Prompt \o line
  OBVIOUS
<1>3. p \in Nat /\ n \in Nat /\ at \in Nat /\ at <= n /\ 1 \in Nat \ {0} /\ at \in Int
  BY <1>1, <1>2, LenProperties
<1>4. /\ t \in Seq(Characters) /\ Len(t) = at /\ \A i \in 1 .. at : t[i] = line[i]
  <2>1. /\ t \in Seq(Characters) /\ Len(t) = IF 1 <= at THEN at - 1 + 1 ELSE 0
        /\ \A i \in 1 .. Len(t) : t[i] = line[1 + i - 1]
    BY <1>2, <1>3, PartFacts
  <2> QED
    BY <1>3, <2>1
<1>5. /\ u \in Seq(Characters) /\ Len(u) = p + at
      /\ \A i \in 1 .. p + at : u[i] = IF i <= p THEN Prompt[i] ELSE t[i - p]
  BY <1>1, <1>2, <1>4, JoinFacts
<1>6. /\ v \in Seq(Characters) /\ Len(v) = p + n
      /\ \A i \in 1 .. p + n : v[i] = IF i <= p THEN Prompt[i] ELSE line[i - p]
  BY <1>1, <1>2, JoinFacts
<1>7. ASSUME NEW i \in 1 .. p + at PROVE u[i] = v[i]
  <2>1. i \in 1 .. p + n
    BY <1>3
  <2>2. ~(i <= p) => i - p \in 1 .. at
    BY <1>3
  <2> QED
    BY <1>4, <1>5, <1>6, <2>1, <2>2
<1> QED
  BY <1>2, <1>3, <1>5, <1>6, <1>7 DEF Written

\* Prompt and line, and blanks where the last line was longer.
LEMMA PaddedFacts ==
    ASSUME NEW line \in Seq(Characters), last_draw_len \in Nat
    PROVE  /\ Padded(line) \in Seq(Characters)
           /\ Len(Padded(line)) = Len(Prompt) + IF last_draw_len > Len(line) THEN last_draw_len
                                                ELSE Len(line)
           /\ \A i \in 1 .. Len(Padded(line)) :
                Padded(line)[i] = IF i <= Len(Prompt \o line) THEN (Prompt \o line)[i] ELSE Blank
<1>1. Prompt \in Seq(Characters)
  BY LineEditAssumption
<1>2. PICK p, n, v, e, b, d : /\ p = Len(Prompt) /\ n = Len(line) /\ v = Prompt \o line
                              /\ e = last_draw_len - n /\ b = Blanks(e) /\ d = Padded(line)
  OBVIOUS
<1>3. p \in Nat /\ n \in Nat /\ e \in Int
  BY <1>1, <1>2, LenProperties
<1>4. v \in Seq(Characters) /\ Len(v) = p + n
  BY <1>1, <1>2, JoinFacts
<1>5. /\ b \in Seq(Characters) /\ Len(b) = (IF e > 0 THEN e ELSE 0)
      /\ \A i \in 1 .. Len(b) : b[i] = Blank
  BY <1>2, <1>3, BlanksFacts
<1>6. d = v \o b
  BY <1>2 DEF Padded
<1>7. /\ v \o b \in Seq(Characters) /\ Len(v \o b) = Len(v) + Len(b) /\ Len(b) \in Nat
      /\ \A i \in 1 .. Len(v) + Len(b) : (v \o b)[i] = IF i <= Len(v) THEN v[i] ELSE b[i - Len(v)]
  BY <1>4, <1>5, JoinFacts
<1>8. Len(d) = p + IF last_draw_len > n THEN last_draw_len ELSE n
  <2>1. Len(d) = (p + n) + Len(b)
    BY <1>4, <1>6, <1>7
  <2>2. CASE e > 0
    BY <1>2, <1>3, <1>5, <2>1, <2>2
  <2>3. CASE ~(e > 0)
    BY <1>2, <1>3, <1>5, <2>1, <2>3
  <2> QED
    BY <2>2, <2>3
<1>9. ASSUME NEW i \in 1 .. Len(d) PROVE d[i] = IF i <= Len(v) THEN v[i] ELSE Blank
  <2>1. ~(i <= Len(v)) => i - Len(v) \in 1 .. Len(b)
    BY <1>3, <1>4, <1>6, <1>7
  <2> QED
    BY <1>5, <1>6, <1>7, <2>1
<1> QED
  BY <1>2, <1>6, <1>7, <1>8, <1>9

\* The screen behind the first n cells is blank.
BlankFrom(r, n) == \A i \in 1 .. Len(r) : n < i => r[i] = Blank

\* redraw_line: prompt and line up to the cursor stand before it, and where
\* nothing has wrapped the screen shows prompt and line and blanks.
LEMMA RedrawnFacts ==
    ASSUME NEW line \in Seq(Characters), NEW at \in 0 .. Len(line), last_draw_len \in Nat,
           NEW r \in Seq(Characters), NEW c \in 0 .. Len(r)
    PROVE  /\ Redrawn(r, c, line, at) \in Seq(Characters)
           /\ Len(Prompt) + at \in 0 .. Len(Redrawn(r, c, line, at))
           /\ Stands(Redrawn(r, c, line, at), Len(Prompt) + at, Written(line, at))
           /\ (/\ c < Width /\ Fits(line) /\ Len(Prompt) + last_draw_len < Width
               /\ BlankFrom(r, Len(Prompt) + last_draw_len) \/ BlankFrom(r, Len(Prompt) + Len(line))) =>
                Shows(Redrawn(r, c, line, at), Prompt \o line)
<1>1. PICK p, n, v, w, g, x, d, y, z :
        /\ p = Len(Prompt) /\ n = Len(line) /\ v = Prompt \o line /\ w = Written(line, at)
        /\ g = Padded(line) /\ x = Reachable(r, c) /\ d = Drawn(r, c, line)
        /\ y = Reachable(d, Len(g)) /\ z = Redrawn(r, c, line, at)
  OBVIOUS
<1>2. /\ w \in Seq(Characters) /\ v \in Seq(Characters)
      /\ Len(w) = p + at /\ Len(v) = p + n /\ p \in Nat /\ n \in Nat /\ at \in Nat /\ at <= n
      /\ \A i \in 1 .. p + at : w[i] = v[i]
  <2>1. /\ w \in Seq(Characters) /\ v \in Seq(Characters)
        /\ Len(w) = Len(Prompt) + at /\ Len(v) = Len(Prompt) + Len(line)
        /\ Len(Prompt) \in Nat /\ Len(line) \in Nat
        /\ \A i \in 1 .. Len(Prompt) + at : w[i] = v[i]
    BY <1>1, WrittenFacts
  <2> QED
    BY <1>1, <2>1
<1>3. /\ g \in Seq(Characters)
      /\ Len(g) = p + IF last_draw_len > n THEN last_draw_len ELSE n
      /\ \A i \in 1 .. Len(g) : g[i] = IF i <= Len(v) THEN v[i] ELSE Blank
  BY <1>1, PaddedFacts
<1>4. x \in Seq(Characters) /\ (c < Width => x = r)
  BY <1>1, ReachableFacts
<1>5. 0 \in 0 .. Len(x) /\ Len(g) \in Nat /\ Len(x) \in Nat
  BY <1>3, <1>4, LenProperties
<1>6. d = Overwrite(x, 0, g)
  BY <1>1 DEF Drawn
<1>7. /\ d \in Seq(Characters) /\ Len(d) = (IF Len(g) < Len(x) THEN Len(x) ELSE Len(g))
      /\ \A i \in 1 .. Len(d) : d[i] = IF i <= Len(g) THEN g[i] ELSE x[i]
  <2>1. /\ d \in Seq(Characters)
        /\ Len(d) = IF 0 + Len(g) < Len(x) THEN Len(x) ELSE 0 + Len(g)
        /\ \A i \in 1 .. Len(d) : d[i] = IF i \in 0 + 1 .. 0 + Len(g) THEN g[i - 0] ELSE x[i]
    BY <1>3, <1>4, <1>5, <1>6, OverwriteFacts
  <2> QED
    BY <1>5, <2>1
<1>8. Len(g) \in 0 .. Len(d)
  BY <1>5, <1>7
<1>9. y \in Seq(Characters) /\ (Len(g) < Width => y = d)
  BY <1>1, <1>7, <1>8, ReachableFacts
<1>10. 0 \in 0 .. Len(y) /\ Len(y) \in Nat
  BY <1>9, LenProperties
<1>11. z = Overwrite(y, 0, w)
  BY <1>1 DEF Redrawn, Written
<1>12. /\ z \in Seq(Characters) /\ Len(z) = (IF p + at < Len(y) THEN Len(y) ELSE p + at)
       /\ \A i \in 1 .. Len(z) : z[i] = IF i <= p + at THEN w[i] ELSE y[i]
  <2>1. /\ z \in Seq(Characters)
        /\ Len(z) = IF 0 + Len(w) < Len(y) THEN Len(y) ELSE 0 + Len(w)
        /\ \A i \in 1 .. Len(z) : z[i] = IF i \in 0 + 1 .. 0 + Len(w) THEN w[i - 0] ELSE y[i]
    BY <1>2, <1>9, <1>10, <1>11, OverwriteFacts
  <2> QED
    BY <1>2, <2>1
<1>13. p + at \in 0 .. Len(z)
  BY <1>2, <1>10, <1>12
<1>14. Stands(z, p + at, w)
  <2>1. ASSUME NEW i \in 1 .. Len(w) PROVE z[(p + at) - Len(w) + i] = w[i]
    <3>1. (p + at) - Len(w) + i = i /\ i \in 1 .. Len(z) /\ i <= p + at
      BY <1>2, <1>13
    <3> QED
      BY <1>12, <3>1
  <2> QED
    BY <1>2, <2>1 DEF Stands
<1>15. ASSUME c < Width, Fits(line), p + last_draw_len < Width,
              BlankFrom(r, p + last_draw_len) \/ BlankFrom(r, p + n)
       PROVE  Shows(z, v)
  <2>1. p + n < Width
    BY <1>1, <1>15 DEF Fits
  <2>2. Len(g) < Width /\ x = r /\ y = d
    BY <1>2, <1>3, <1>4, <1>9, <1>15, <2>1
  <2>3. Len(v) <= Len(z) /\ Len(z) \in Nat
    BY <1>2, <1>3, <1>5, <1>7, <1>12, <2>2
  <2>4. ASSUME NEW i \in 1 .. Len(z) PROVE z[i] = IF i <= Len(v) THEN v[i] ELSE Blank
    <3>1. CASE i <= p + at
      BY <1>2, <1>12, <3>1
    <3>2. CASE ~(i <= p + at) /\ i <= Len(g)
      <4>1. i \in 1 .. Len(g) /\ i \in 1 .. Len(d)
        BY <1>5, <1>7, <3>2
      <4> QED
        BY <1>3, <1>7, <1>12, <2>2, <3>2, <4>1
    <3>3. CASE ~(i <= Len(g))
      <4>1. ~(i <= p + at) /\ ~(i <= Len(v)) /\ p + last_draw_len < i /\ p + n < i
        BY <1>2, <1>3, <1>5, <3>3
      <4>2. i \in 1 .. Len(y)
        BY <1>10, <1>12, <4>1
      <4>3. i \in 1 .. Len(d) /\ i \in 1 .. Len(r)
        BY <1>5, <1>7, <2>2, <3>3, <4>2
      <4>4. z[i] = r[i]
        BY <1>7, <1>12, <2>2, <3>3, <4>1, <4>3
      <4>5. r[i] = Blank
        BY <1>15, <4>1, <4>3 DEF BlankFrom
      <4> QED
        BY <4>1, <4>4, <4>5
    <3> QED
      BY <3>1, <3>2, <3>3
  <2> QED
    BY <1>2, <1>12, <2>3, <2>4, ShowsFacts
<1> QED
  BY <1>1, <1>12, <1>13, <1>14, <1>15

\* A line that is shown has blanks behind it.
LEMMA ShownBlank ==
    ASSUME NEW r \in Seq(Characters), NEW line \in Seq(Characters), Shows(r, Prompt \o line)
    PROVE  BlankFrom(r, Len(Prompt) + Len(line))
<1>1. PICK v : v = Prompt \o line
  OBVIOUS
<1>2. v \in Seq(Characters) /\ Len(v) = Len(Prompt) + Len(line) /\ Len(v) \in Nat
  BY <1>1, LineEditAssumption, JoinFacts, LenProperties
<1>3. \A i \in 1 .. Len(r) : r[i] = IF i <= Len(v) THEN v[i] ELSE Blank
  BY <1>1, <1>2, ShowsFacts
<1>4. ASSUME NEW i \in 1 .. Len(r), Len(v) < i PROVE r[i] = Blank
  <2>1. ~(i <= Len(v))
    BY <1>2, <1>4
  <2> QED
    BY <1>3, <2>1
<1> QED
  BY <1>2, <1>4 DEF BlankFrom

\* What a redraw leaves of the invariant: all that is about the line drawn.
LEMMA RedrawFacts ==
    ASSUME EditTypes, NEW line, IsLine(line), NEW at \in 0 .. Len(line),
           NEW r \in Seq(Characters), NEW c \in 0 .. Len(r), Redraw(r, c, line, at),
           clean' => /\ c < Width /\ Fits(line) /\ Fits(text)
                     /\ BlankFrom(r, Len(Prompt) + Len(text)) \/ BlankFrom(r, Len(Prompt) + Len(line))
    PROVE  /\ IsLine(text') /\ pos' \in 0 .. Len(text') /\ last_draw_len' = Len(text')
           /\ row' \in Seq(Characters) /\ col' \in 0 .. Len(row') /\ Stood' /\ Shown'
<1>1. PICK z : z = Redrawn(r, c, line, at)
  OBVIOUS
<1>2. /\ text' = line /\ pos' = at /\ last_draw_len' = Len(line)
      /\ row' = z /\ col' = Len(Prompt) + at
  BY <1>1 DEF Redraw
<1>3. line \in Seq(Characters) /\ last_draw_len = Len(text) /\ last_draw_len \in Nat
  BY LenProperties DEF EditTypes, IsLine
<1>4. /\ z \in Seq(Characters) /\ Len(Prompt) + at \in 0 .. Len(z)
      /\ Stands(z, Len(Prompt) + at, Written(line, at))
      /\ (/\ c < Width /\ Fits(line) /\ Len(Prompt) + last_draw_len < Width
          /\ BlankFrom(r, Len(Prompt) + last_draw_len) \/ BlankFrom(r, Len(Prompt) + Len(line))) =>
           Shows(z, Prompt \o line)
  BY <1>1, <1>3, RedrawnFacts
<1>5. Stood'
  BY <1>2, <1>4 DEF Stood, Stands, Written
<1>6. Shown'
  <2>1. SUFFICES ASSUME clean' PROVE Shows(z, Prompt \o line) /\ Fits(line)
    BY <1>2 DEF Shown, Shows, Fits, Blanks
  <2>2. Len(Prompt) + last_draw_len < Width
    BY <1>3, <2>1 DEF Fits
  <2> QED
    BY <1>3, <1>4, <2>1, <2>2
<1> QED
  BY <1>2, <1>4, <1>5, <1>6

-----------------------------------------------------------------------------
(* The ring of past lines.                                                 *)

LEMMA SlotFacts ==
    ASSUME NEW next \in 0 .. HIST_MAX - 1, NEW back \in 0 .. HIST_MAX - 1
    PROVE  /\ (next - 1 - back) % HIST_MAX \in 0 .. HIST_MAX - 1
           /\ (next - 1 - back) % HIST_MAX = IF back < next THEN next - 1 - back
                                            ELSE next - 1 - back + HIST_MAX
<1>1. PICK h, n : h = HIST_MAX /\ n = next - 1 - back
  OBVIOUS
<1>2. h \in Nat \ {0} /\ n \in Int /\ -h <= n /\ n < h
  BY <1>1, LineEditAssumption
<1>3. n % h = IF 0 <= n THEN n ELSE n + h
  <2>1. CASE 0 <= n
    BY <1>2, <2>1
  <2>2. CASE n < 0
    BY <1>2, <2>2
  <2> QED
    BY <1>2, <2>1, <2>2
<1> QED
  BY <1>1, <1>2, <1>3

LEMMA CountFacts ==
    ASSUME EditTypes, RingHolds
    PROVE  /\ Len(past) \in Nat /\ HIST_MAX \in Nat \ {0}
           /\ g_hist_count \in 0 .. HIST_MAX /\ g_hist_count <= Len(past)
           /\ \A back \in 0 .. g_hist_count - 1 :
                /\ back \in 0 .. HIST_MAX - 1 /\ Len(past) - back \in 1 .. Len(past)
                /\ IsLine(hist_get_from_end(back))
<1>1. PICK h, n : h = HIST_MAX /\ n = Len(past)
  OBVIOUS
<1>2. h \in Nat \ {0} /\ n \in Nat
  BY <1>1, LineEditAssumption, LenProperties DEF EditTypes
<1>3. g_hist_count = IF n < h THEN n ELSE h
  BY <1>1 DEF RingHolds
<1>4. g_hist_count \in 0 .. h /\ g_hist_count <= n
  BY <1>2, <1>3
<1>5. ASSUME NEW back \in 0 .. g_hist_count - 1
      PROVE  back \in 0 .. h - 1 /\ n - back \in 1 .. n
  BY <1>2, <1>4
<1>6. ASSUME NEW back \in 0 .. g_hist_count - 1 PROVE IsLine(hist_get_from_end(back))
  <2>1. hist_get_from_end(back) = past[n - back]
    BY <1>1 DEF RingHolds
  <2>2. n - back \in 1 .. n
    BY <1>5
  <2> QED
    BY <1>1, <2>1, <2>2 DEF EditTypes
<1> QED
  BY <1>1, <1>2, <1>4, <1>5, <1>6

\* hist_add: a line goes over the oldest one, and all others move back by one.
LEMMA AddedFacts ==
    ASSUME EditTypes, RingHolds, hist_add(text)
    PROVE  /\ past' \in Seq(Seq(Characters)) /\ \A k \in 1 .. Len(past') : IsLine(past'[k])
           /\ g_hist' \in [0 .. HIST_MAX - 1 -> Seq(Characters)]
           /\ g_hist_next' \in 0 .. HIST_MAX - 1 /\ g_hist_count' \in Nat
           /\ RingHolds'
<1>1. CASE UNCHANGED <<hist, past>>
  <2>1. UNCHANGED <<g_hist, g_hist_next, g_hist_count, past>>
    BY <1>1 DEF hist
  <2>2. RingHolds'
    BY <2>1 DEF RingHolds, hist_get_from_end, Slot
  <2>3. g_hist_count \in Nat
    BY CountFacts
  <2> QED
    BY <2>1, <2>2, <2>3 DEF EditTypes
<1>2. CASE ~UNCHANGED <<hist, past>>
  <2>1. /\ g_hist' = [g_hist EXCEPT ![g_hist_next] = text]
        /\ g_hist_next' = (g_hist_next + 1) % HIST_MAX
        /\ g_hist_count' = IF g_hist_count < HIST_MAX THEN g_hist_count + 1 ELSE HIST_MAX
        /\ past' = Append(past, text)
    BY <1>2 DEF hist_add
  <2>2. PICK h, n, p, c : h = HIST_MAX /\ n = g_hist_next /\ p = Len(past) /\ c = g_hist_count
    OBVIOUS
  <2>3. /\ h \in Nat \ {0} /\ p \in Nat /\ n \in 0 .. h - 1 /\ c \in 0 .. h
        /\ c = IF p < h THEN p ELSE h
    BY <2>2, CountFacts DEF EditTypes, RingHolds
  <2>4. n + 1 < h \/ n + 1 = h
    BY <2>3
  <2>5. (n + 1) % h = IF n + 1 < h THEN n + 1 ELSE 0
    <3>1. CASE n + 1 < h
      BY <2>3, <3>1
    <3>2. CASE n + 1 = h
      BY <2>3, <3>2
    <3> QED
      BY <2>3, <2>4, <3>1, <3>2
  <2>6. PICK next : next = g_hist_next'
    OBVIOUS
  <2>7. next = (IF n + 1 < h THEN n + 1 ELSE 0) /\ next \in 0 .. h - 1
    BY <2>1, <2>2, <2>3, <2>5, <2>6
  <2>8. past \in Seq(Seq(Characters)) /\ IsLine(text) /\ text \in Seq(Characters)
    BY DEF EditTypes, IsLine
  <2>9. /\ past' \in Seq(Seq(Characters)) /\ Len(past') = p + 1
        /\ \A k \in 1 .. p : past'[k] = past[k]
        /\ past'[p + 1] = text
    BY <2>1, <2>2, <2>8, AppendProperties
  <2>10. \A k \in 1 .. Len(past') : IsLine(past'[k])
    <3>1. ASSUME NEW k \in 1 .. Len(past') PROVE k \in 1 .. p \/ k = p + 1
      BY <2>3, <2>9
    <3>2. \A k \in 1 .. p : IsLine(past[k])
      BY <2>2 DEF EditTypes
    <3> QED
      BY <2>8, <2>9, <3>1, <3>2
  <2>11. /\ g_hist' \in [0 .. h - 1 -> Seq(Characters)] /\ g_hist'[n] = text
         /\ \A i \in 0 .. h - 1 : i # n => g_hist'[i] = g_hist[i]
    BY <2>1, <2>2, <2>3, <2>8 DEF EditTypes
  <2>12. g_hist_count' = IF p + 1 < h THEN p + 1 ELSE h
    BY <2>1, <2>2, <2>3
  <2>13. ASSUME NEW back \in 0 .. g_hist_count' - 1
         PROVE  g_hist'[(next - 1 - back) % h] = past'[p + 1 - back]
    <3>1. back \in 0 .. h - 1 /\ back <= p
      BY <2>3, <2>12
    <3>2. (next - 1 - back) % h = IF back < next THEN next - 1 - back ELSE next - 1 - back + h
      BY <2>2, <2>7, <3>1, SlotFacts
    <3>3. CASE back = 0
      <4>1. next - 1 - back = n \/ next - 1 - back + h = n
        BY <2>3, <2>4, <2>7, <3>3
      <4>2. (next - 1 - back) % h = n
        BY <2>3, <2>4, <2>7, <3>2, <3>3
      <4> QED
        BY <2>3, <2>9, <2>11, <3>3, <4>2
    <3>4. CASE back # 0
      <4>1. PICK b : b = back - 1
        OBVIOUS
      <4>2. b \in 0 .. c - 1 /\ b \in 0 .. h - 2 /\ b \in 0 .. h - 1 /\ back = b + 1
        BY <2>3, <2>12, <3>1, <3>4, <4>1
      <4>3. (n - 1 - b) % h = IF b < n THEN n - 1 - b ELSE n - 1 - b + h
        BY <2>2, <2>3, <4>2, SlotFacts
      <4>4. PICK s : s = IF b < n THEN n - 1 - b ELSE n - 1 - b + h
        OBVIOUS
      <4>5. s \in 0 .. h - 1 /\ s # n
        BY <2>3, <4>2, <4>4
      <4>6. (next - 1 - back) % h = s
        BY <2>3, <2>4, <2>7, <3>2, <4>2, <4>4
      <4>7. g_hist[s] = past[p - b]
        BY <2>2, <4>2, <4>3, <4>4 DEF RingHolds, hist_get_from_end, Slot
      <4>8. p - b \in 1 .. p /\ p + 1 - back = p - b
        BY <2>3, <4>2
      <4> QED
        BY <2>9, <2>11, <4>5, <4>6, <4>7, <4>8
    <3> QED
      BY <3>3, <3>4
  <2>14. RingHolds'
    BY <2>2, <2>6, <2>9, <2>12, <2>13 DEF RingHolds, hist_get_from_end, Slot
  <2>15. g_hist_count' \in Nat
    BY <2>3, <2>12
  <2> QED
    BY <2>2, <2>6, <2>7, <2>9, <2>10, <2>11, <2>14, <2>15
<1> QED
  BY <1>1, <1>2

-----------------------------------------------------------------------------
(* Lines that editing and completion make.                                 *)

\* One character less.
LEMMA RemovedFacts ==
    ASSUME NEW s, IsLine(s), NEW at \in 1 .. Len(s)
    PROVE  IsLine(RemoveAt(s, at)) /\ Len(RemoveAt(s, at)) = Len(s) - 1
<1>1. PICK n, m, k : n = Len(s) /\ m = at - 1 /\ k = at + 1
  OBVIOUS
<1>2. n \in Nat /\ s \in Seq(Characters) /\ m \in Nat /\ k \in Nat \ {0} /\ k = m + 2 /\ m < n
      /\ Cap \in Nat
  BY <1>1, LenProperties, LineEditAssumption DEF IsLine
<1>3. /\ SubSeq(s, 1, m) \in Seq(Characters)
      /\ Len(SubSeq(s, 1, m)) = m
  <2>1. /\ SubSeq(s, 1, m) \in Seq(Characters)
        /\ Len(SubSeq(s, 1, m)) = IF 1 <= m THEN m - 1 + 1 ELSE 0
    <3>1. 1 \in Nat \ {0} /\ m \in Int /\ m <= Len(s)
      BY <1>1, <1>2
    <3> QED
      BY <1>2, <3>1, PartFacts
  <2> QED
    BY <1>2, <2>1
<1>4. /\ SubSeq(s, k, n) \in Seq(Characters)
      /\ Len(SubSeq(s, k, n)) = IF k <= n THEN n - k + 1 ELSE 0
  <2>1. n \in Int /\ n <= Len(s)
    BY <1>1, <1>2
  <2> QED
    BY <1>2, <2>1, PartFacts
<1>5. RemoveAt(s, at) = SubSeq(s, 1, m) \o SubSeq(s, k, n)
  BY <1>1 DEF RemoveAt
<1>6. /\ RemoveAt(s, at) \in Seq(Characters)
      /\ Len(RemoveAt(s, at)) = Len(SubSeq(s, 1, m)) + Len(SubSeq(s, k, n))
  BY <1>3, <1>4, <1>5, ConcatProperties
<1>7. Len(RemoveAt(s, at)) = n - 1
  BY <1>2, <1>3, <1>4, <1>6
<1>8. n < Cap
  BY <1>1 DEF IsLine
<1>9. n - 1 < Cap
  BY <1>2, <1>8
<1> QED
  BY <1>1, <1>6, <1>7, <1>9 DEF IsLine

\* One character more.
LEMMA InsertedFacts ==
    ASSUME NEW s, IsLine(s), NEW at \in 0 .. Len(s), NEW c \in Characters, ~(Len(s) + 1 >= Cap)
    PROVE  IsLine(InsertAt(s, at + 1, c)) /\ Len(InsertAt(s, at + 1, c)) = Len(s) + 1
<1>1. PICK n, k : n = Len(s) /\ k = at + 1
  OBVIOUS
<1>2. n \in Nat /\ s \in Seq(Characters) /\ at \in Nat /\ k \in Nat \ {0} /\ at <= n /\ k - 1 = at
      /\ Cap \in Nat
  BY <1>1, LenProperties, LineEditAssumption DEF IsLine
<1>3. SubSeq(s, 1, at) \in Seq(Characters) /\ Len(SubSeq(s, 1, at)) = at
  <2>1. /\ SubSeq(s, 1, at) \in Seq(Characters)
        /\ Len(SubSeq(s, 1, at)) = IF 1 <= at THEN at - 1 + 1 ELSE 0
    <3>1. 1 \in Nat \ {0} /\ at \in Int /\ at <= Len(s)
      BY <1>1, <1>2
    <3> QED
      BY <1>2, <3>1, PartFacts
  <2> QED
    BY <1>2, <2>1
<1>4. /\ SubSeq(s, k, n) \in Seq(Characters)
      /\ Len(SubSeq(s, k, n)) = IF k <= n THEN n - k + 1 ELSE 0
  <2>1. n \in Int /\ n <= Len(s)
    BY <1>1, <1>2
  <2> QED
    BY <1>2, <2>1, PartFacts
<1>5. <<c>> \in Seq(Characters) /\ Len(<<c>>) = 1
  OBVIOUS
<1>6. InsertAt(s, k, c) = SubSeq(s, 1, at) \o <<c>> \o SubSeq(s, k, n)
  BY <1>1, <1>2 DEF InsertAt
<1>7. /\ SubSeq(s, 1, at) \o <<c>> \in Seq(Characters)
      /\ Len(SubSeq(s, 1, at) \o <<c>>) = at + 1
  BY <1>3, <1>5, ConcatProperties
<1>8. /\ InsertAt(s, k, c) \in Seq(Characters)
      /\ Len(InsertAt(s, k, c)) = (at + 1) + Len(SubSeq(s, k, n))
  BY <1>4, <1>6, <1>7, ConcatProperties
<1>9. Len(InsertAt(s, k, c)) = n + 1
  <2>1. PICK l : l = Len(SubSeq(s, k, n))
    OBVIOUS
  <2>2. l = IF k <= n THEN n - k + 1 ELSE 0
    BY <1>4, <2>1
  <2>3. k = at + 1
    BY <1>1
  <2>4. (at + 1) + l = n + 1
    BY <1>2, <2>2, <2>3
  <2> QED
    BY <1>8, <2>1, <2>4
<1>10. n + 1 < Cap
  BY <1>1, <1>2
<1>11. IsLine(InsertAt(s, k, c)) /\ Len(InsertAt(s, k, c)) = Len(s) + 1
  BY <1>1, <1>8, <1>9, <1>10 DEF IsLine
<1> QED
  BY <1>1, <1>11

\* The line longer is line and the beginning of s.
Begun(line, s, longer) ==
    \E p, q \in Seq(Characters) :
      /\ longer = line \o p /\ s = p \o q
      /\ Len(longer) = Len(line) + Len(s) => p = s

\* What is added to a line fits it, and is the beginning of what was to be.
LEMMA FittingFacts ==
    ASSUME NEW line, IsLine(line), NEW s \in Seq(Characters)
    PROVE  IsLine(Fitting(line, s)) /\ Begun(line, s, Fitting(line, s))
<1>1. PICK n, k, m : n = Len(line) /\ k = Len(s) /\ m = IF k < Cap - 1 - n THEN k ELSE Cap - 1 - n
  OBVIOUS
<1>2. n \in Nat /\ k \in Nat /\ Cap \in Nat \ {0} /\ n < Cap /\ line \in Seq(Characters)
  BY <1>1, LenProperties, LineEditAssumption DEF IsLine
<1>3. m \in Nat /\ m <= k /\ n + m < Cap
  BY <1>1, <1>2
<1>4. PICK p, q : p = SubSeq(s, 1, m) /\ q = SubSeq(s, m + 1, k)
  OBVIOUS
<1>5. p \in Seq(Characters) /\ Len(p) = m
  <2>1. /\ SubSeq(s, 1, m) \in Seq(Characters)
        /\ Len(SubSeq(s, 1, m)) = IF 1 <= m THEN m - 1 + 1 ELSE 0
    <3>1. 1 \in Nat \ {0} /\ m \in Int /\ m <= Len(s)
      BY <1>1, <1>3
    <3> QED
      BY <3>1, PartFacts
  <2> QED
    BY <1>3, <1>4, <2>1
<1>6. q \in Seq(Characters)
  <2>1. m + 1 \in Nat \ {0} /\ k \in Int /\ k <= Len(s)
    BY <1>1, <1>2, <1>3
  <2> QED
    BY <1>4, <2>1, PartFacts
<1>7. s = p \o q
  <2>1. /\ 1 \in 1 .. Len(s) + 1 /\ m \in 1 - 1 .. Len(s) /\ k \in m .. Len(s)
    BY <1>1, <1>2, <1>3
  <2>2. p \o q = SubSeq(s, 1, k)
    BY <1>4, <2>1, ConcatAdjacentSubSeq
  <2> QED
    BY <1>1, <2>2, SubSeqFull
<1>8. Fitting(line, s) = line \o p
  BY <1>1, <1>4 DEF Fitting
<1>9. Len(line \o p) = n + m /\ line \o p \in Seq(Characters)
  BY <1>1, <1>2, <1>5, ConcatProperties
<1>10. ASSUME Len(Fitting(line, s)) = Len(line) + Len(s) PROVE p = s
  <2>1. m = k
    BY <1>1, <1>2, <1>3, <1>8, <1>9, <1>10
  <2> QED
    BY <1>1, <1>4, <2>1, SubSeqFull
<1>11. IsLine(Fitting(line, s))
  BY <1>3, <1>8, <1>9 DEF IsLine
<1> QED
  BY <1>5, <1>6, <1>7, <1>8, <1>10, <1>11 DEF Begun

\* Where the last of some characters is.
LEMMA LastOfFacts ==
    ASSUME NEW line \in Seq(Characters), NEW T
    PROVE  LastOf(line, T) \in 0 .. Len(line) /\ Len(line) \in Nat
<1>1. PICK n : n = Len(line)
  OBVIOUS
<1>2. n \in Nat /\ DOMAIN line = 1 .. n
  BY <1>1, LenProperties
<1> DEFINE S == {i \in DOMAIN line : line[i] \in T}
<1>3. LastOf(line, T) \in 0 .. n
  <2>1. CASE S = {}
    BY <1>2, <2>1 DEF LastOf
  <2>2. CASE S # {}
    <3>1. S \in SUBSET (0 .. n)
      BY <1>2
    <3>2. \E i \in S : \A j \in S : j <= i
      <4> HIDE DEF S
      <4> QED
        BY <1>2, <2>2, <3>1, GreatestOf
    <3>3. LastOf(line, T) = CHOOSE i \in S : \A j \in S : j <= i
      BY <2>2 DEF LastOf
    <3>4. LastOf(line, T) \in S
      BY <3>2, <3>3, Zenon
    <3> QED
      BY <3>1, <3>4
  <2> QED
    BY <2>1, <2>2
<1> QED
  BY <1>1, <1>2, <1>3

\* What is behind the last of some characters.
LEMMA BehindFacts ==
    ASSUME NEW line \in Seq(Characters), NEW T
    PROVE  SubSeq(line, LastOf(line, T) + 1, Len(line)) \in Seq(Characters)
<1>1. PICK b, n : b = LastOf(line, T) + 1 /\ n = Len(line)
  OBVIOUS
<1>2. b \in Nat \ {0} /\ n \in Int /\ n <= Len(line)
  BY <1>1, LastOfFacts
<1>3. SubSeq(line, b, n) \in Seq(Characters)
  BY <1>2, PartFacts
<1> QED
  BY <1>1, <1>3

\* The last word is a part of the line, and what is completed a part of it.
LEMMA PrefixFacts ==
    ASSUME NEW line, IsLine(line)
    PROVE  Prefix(line) \in Seq(Characters) /\ Len(Prefix(line)) \in Nat
<1>1. Token(line) \in Seq(Characters)
  BY BehindFacts DEF Token, Before, IsLine
<1>2. Prefix(line) \in Seq(Characters)
  BY <1>1, BehindFacts DEF Prefix
<1> QED
  BY <1>2, LenProperties

\* The candidates are finitely many names that begin like the last word.
LEMMA CandidatesFacts ==
    ASSUME NEW line
    PROVE  /\ Candidates(line) \in SUBSET Seq(Characters) /\ IsFiniteSet(Candidates(line))
           /\ \A n \in Candidates(line) : IsPrefix(Prefix(line), n)
<1>1. PICK dir, A, B, S :
        /\ dir = BaseDir(line) /\ A = (IF dir \in DOMAIN Listing THEN Listing[dir] ELSE {})
        /\ B = (IF IsCommand(line) THEN Builtins ELSE {}) /\ S = Names(line)
  OBVIOUS
<1>2. S = A \cup B
  BY <1>1 DEF Names
<1>3. A \subseteq Seq(Characters) /\ IsFiniteSet(A)
  BY <1>1, LineEditAssumption, FS_EmptySet
<1>4. B \subseteq Seq(Characters) /\ IsFiniteSet(B)
  BY <1>1, LineEditAssumption, FS_EmptySet
<1>5. S \subseteq Seq(Characters) /\ IsFiniteSet(S)
  BY <1>2, <1>3, <1>4, FS_Union
<1>6. /\ Candidates(line) \in SUBSET S
      /\ \A n \in Candidates(line) : IsPrefix(Prefix(line), n)
  BY <1>1 DEF Candidates
<1>7. IsFiniteSet(Candidates(line))
  BY <1>5, <1>6, FS_Subset
<1> QED
  BY <1>5, <1>6, <1>7

\* The part that all candidates begin with is there, and made of characters.
LEMMA CommonFacts ==
    ASSUME NEW C \in SUBSET Seq(Characters), C # {}
    PROVE  /\ Common(C) \in Seq(Characters)
           /\ \A n \in C : IsPrefix(Common(C), n)
           /\ \A t \in Seq(Characters) :
                (\A n \in C : IsPrefix(t, n)) => Len(t) <= Len(Common(C))
<1> DEFINE S == {p \in UNION {{SubSeq(n, 1, i) : i \in 0 .. Len(n)} : n \in C} :
                   \A n \in C : IsPrefix(p, n)}
           L == {Len(p) : p \in S}
<1>1. PICK m \in C : TRUE
  OBVIOUS
<1>2. ASSUME NEW p \in S PROVE p \in Seq(Characters) /\ Len(p) \in 0 .. Len(m)
  <2>1. PICK n \in C : \E i \in 0 .. Len(n) : p = SubSeq(n, 1, i)
    OBVIOUS
  <2>2. PICK i \in 0 .. Len(n) : p = SubSeq(n, 1, i)
    BY <2>1
  <2>3. Len(n) \in Nat
    BY LenProperties
  <2>4. 1 \in Nat \ {0} /\ i \in Int /\ i <= Len(n)
    BY <2>3
  <2>5. p \in Seq(Characters)
    BY <2>2, <2>4, PartFacts
  <2>6. Len(p) <= Len(m)
    BY <1>1 DEF IsPrefix
  <2>7. Len(p) \in Nat /\ Len(m) \in Nat
    BY <1>1, <2>5, LenProperties
  <2> QED
    BY <2>5, <2>6, <2>7
<1>3. S # {}
  <2>1. Len(m) \in Nat
    BY <1>1, LenProperties
  <2>2. PICK p : p = SubSeq(m, 1, 0)
    OBVIOUS
  <2>3. p = <<>>
    BY <2>2, SubSeqEmpty
  <2>4. p \in UNION {{SubSeq(n, 1, i) : i \in 0 .. Len(n)} : n \in C}
    BY <1>1, <2>1, <2>2
  <2>5. ASSUME NEW n \in C PROVE IsPrefix(p, n)
    <3>1. Len(n) \in Nat /\ Len(p) = 0
      BY <2>3, LenProperties
    <3>2. SubSeq(p, 1, 0) = <<>> /\ SubSeq(n, 1, 0) = <<>>
      BY SubSeqEmpty
    <3> QED
      BY <3>1, <3>2 DEF IsPrefix
  <2> QED
    BY <2>4, <2>5
<1>4. \E p \in S : \A q \in S : Len(q) <= Len(p)
  <2>1. Len(m) \in Nat
    BY <1>1, LenProperties
  <2>2. L \in SUBSET (0 .. Len(m)) /\ L # {}
    BY <1>2, <1>3
  <2>3. PICK x \in L : \A y \in L : y <= x
    <3> HIDE DEF L
    <3> QED
      BY <2>1, <2>2, GreatestOf
  <2>4. PICK p \in S : x = Len(p)
    OBVIOUS
  <2>5. ASSUME NEW q \in S PROVE Len(q) <= Len(p)
    <3>1. Len(q) \in L
      OBVIOUS
    <3> QED
      BY <2>3, <2>4, <3>1
  <2> QED
    BY <2>5
<1>5. Common(C) = CHOOSE p \in S : \A q \in S : Len(q) <= Len(p)
  BY DEF Common
<1>6. Common(C) \in S /\ \A q \in S : Len(q) <= Len(Common(C))
  <2> HIDE DEF S
  <2> QED
    BY <1>4, <1>5, Zenon
<1>7. ASSUME NEW t \in Seq(Characters), \A n \in C : IsPrefix(t, n)
      PROVE  Len(t) <= Len(Common(C))
  <2>1. Len(t) <= Len(m) /\ SubSeq(t, 1, Len(t)) = SubSeq(m, 1, Len(t))
    BY <1>1, <1>7 DEF IsPrefix
  <2>2. t = SubSeq(m, 1, Len(t)) /\ Len(t) \in 0 .. Len(m)
    BY <2>1, SubSeqFull, LenProperties
  <2>3. t \in {SubSeq(m, 1, i) : i \in 0 .. Len(m)}
    BY <2>2
  <2>4. t \in UNION {{SubSeq(n, 1, i) : i \in 0 .. Len(n)} : n \in C}
    BY <1>1, <2>3
  <2> QED
    BY <1>6, <1>7, <2>4
<1> QED
  BY <1>2, <1>6, <1>7

\* do_tab_complete: the line it leaves fits, too.
LEMMA CompletedFacts ==
    ASSUME NEW line, IsLine(line)
    PROVE  IsLine(Completed(line))
<1>1. PICK C : C = Candidates(line)
  OBVIOUS
<1>2. C \in SUBSET Seq(Characters)
  BY <1>1, CandidatesFacts
<1>3. CASE C = {}
  BY <1>1, <1>3 DEF Completed
<1>4. CASE C # {}
  <2>1. PICK e : e = Extension(line)
    OBVIOUS
  <2>2. e \in Seq(Characters)
    <3>1. PICK n, c : n = Len(Prefix(line)) + 1 /\ c = Common(C)
      OBVIOUS
    <3>2. n \in Nat \ {0} /\ c \in Seq(Characters)
      BY <1>2, <1>4, <3>1, PrefixFacts, CommonFacts
    <3>3. Len(c) \in Int /\ Len(c) <= Len(c)
      BY <3>2, LenProperties
    <3>4. SubSeq(c, n, Len(c)) \in Seq(Characters)
      BY <3>2, <3>3, PartFacts
    <3> QED
      BY <1>1, <2>1, <3>1, <3>4 DEF Extension
  <2>3. IsLine(Fitting(line, e))
    BY <2>2, FittingFacts
  <2>4. ASSUME NEW l, IsLine(l), NEW c \in Characters PROVE IsLine(Closed(l, c))
    <3>1. <<c>> \in Seq(Characters)
      OBVIOUS
    <3>2. IsLine(Fitting(l, <<c>>))
      BY <2>4, <3>1, FittingFacts
    <3> QED
      BY <2>4, <3>2, Zenon DEF Closed
  <2>5. \/ Completed(line) = Closed(Fitting(line, e), End(line, Common(C)))
        \/ Completed(line) = Fitting(line, e)
    BY <1>1, <1>4, <2>1 DEF Completed
  <2>6. End(line, Common(C)) \in Characters
    BY LineEditAssumption DEF End
  <2> QED
    BY <2>3, <2>4, <2>5, <2>6
<1> QED
  BY <1>3, <1>4

\* Concatenation is associative.
LEMMA Regrouped ==
    ASSUME NEW a \in Seq(Characters), NEW b \in Seq(Characters), NEW c \in Seq(Characters)
    PROVE  (a \o b) \o c = a \o (b \o c)
<1>1. PICK k, m, n : k = Len(a) /\ m = Len(b) /\ n = Len(c)
  OBVIOUS
<1>2. k \in Nat /\ m \in Nat /\ n \in Nat
  BY <1>1, LenProperties
<1>3. PICK u, v : u = a \o b /\ v = b \o c
  OBVIOUS
<1>4. /\ u \in Seq(Characters) /\ Len(u) = k + m
      /\ \A i \in 1 .. k + m : u[i] = IF i <= k THEN a[i] ELSE b[i - k]
  BY <1>1, <1>3, ConcatProperties
<1>5. /\ v \in Seq(Characters) /\ Len(v) = m + n
      /\ \A i \in 1 .. m + n : v[i] = IF i <= m THEN b[i] ELSE c[i - m]
  BY <1>1, <1>3, ConcatProperties
<1>6. PICK x, y : x = u \o c /\ y = a \o v
  OBVIOUS
<1>7. /\ x \in Seq(Characters) /\ Len(x) = (k + m) + n
      /\ \A i \in 1 .. (k + m) + n : x[i] = IF i <= k + m THEN u[i] ELSE c[i - (k + m)]
  BY <1>1, <1>4, <1>6, ConcatProperties
<1>8. /\ y \in Seq(Characters) /\ Len(y) = k + (m + n)
      /\ \A i \in 1 .. k + (m + n) : y[i] = IF i <= k THEN a[i] ELSE v[i - k]
  <2>1. PICK l : l = m + n
    OBVIOUS
  <2>2. Len(v) = l
    BY <1>5, <2>1
  <2>3. /\ y \in Seq(Characters) /\ Len(y) = k + l
        /\ \A i \in 1 .. k + l : y[i] = IF i <= k THEN a[i] ELSE v[i - k]
    BY <1>1, <1>5, <1>6, <2>2, ConcatProperties
  <2> QED
    BY <2>1, <2>3
<1>9. ASSUME NEW i \in 1 .. Len(x) PROVE x[i] = y[i]
  <2>1. i \in Nat \ {0} /\ i <= k + m + n
    BY <1>2, <1>7
  <2>2. CASE i <= k
    <3>1. i \in 1 .. k + m /\ i \in 1 .. (k + m) + n /\ i \in 1 .. k + (m + n) /\ i <= k + m
      BY <1>2, <2>1, <2>2
    <3>2. u[i] = a[i] /\ y[i] = a[i]
      BY <1>4, <1>8, <2>2, <3>1
    <3>3. x[i] = u[i]
      BY <1>7, <3>1
    <3> QED
      BY <3>2, <3>3
  <2>3. CASE k < i /\ i <= k + m
    <3>1. x[i] = b[i - k]
      BY <1>2, <1>4, <1>7, <2>1, <2>3
    <3>2. i - k \in 1 .. m + n /\ i - k <= m
      BY <1>2, <2>1, <2>3
    <3>3. y[i] = b[i - k]
      BY <1>2, <1>5, <1>8, <2>1, <2>3, <3>2
    <3> QED
      BY <3>1, <3>3
  <2>4. CASE k + m < i
    <3>1. x[i] = c[i - (k + m)]
      BY <1>2, <1>7, <2>1, <2>4
    <3>2. i - k \in 1 .. m + n /\ ~(i - k <= m) /\ (i - k) - m = i - (k + m)
      BY <1>2, <2>1, <2>4
    <3>3. v[i - k] = c[i - (k + m)]
      BY <1>5, <3>2
    <3>4. y[i] = v[i - k]
      BY <1>2, <1>8, <2>1, <2>4
    <3> QED
      BY <3>1, <3>3, <3>4
  <2> QED
    BY <1>2, <2>1, <2>2, <2>3, <2>4
<1>10. Len(x) = Len(y)
  BY <1>2, <1>7, <1>8
<1>11. x = y
  BY <1>7, <1>8, <1>9, <1>10, SeqEqual
<1> QED
  BY <1>3, <1>6, <1>11

\* What begins with s, in two ways.
LEMMA PrefixSplits ==
    ASSUME NEW s \in Seq(Characters), NEW t \in Seq(Characters)
    PROVE  IsPrefix(s, t) <=> \E r \in Seq(Characters) : t = s \o r
<1>1. PICK m, n : m = Len(s) /\ n = Len(t)
  OBVIOUS
<1>2. m \in Nat /\ n \in Nat
  BY <1>1, LenProperties
<1>3. ASSUME IsPrefix(s, t) PROVE \E r \in Seq(Characters) : t = s \o r
  <2>1. m <= n /\ SubSeq(t, 1, m) = s
    BY <1>1, <1>3, SubSeqFull DEF IsPrefix
  <2>2. 1 \in 1 .. Len(t) + 1 /\ m \in 1 - 1 .. Len(t) /\ n \in m .. Len(t)
    BY <1>1, <1>2, <2>1
  <2>3. SubSeq(t, 1, m) \o SubSeq(t, m + 1, n) = SubSeq(t, 1, n)
    BY <2>2, ConcatAdjacentSubSeq
  <2>4. m + 1 \in Nat \ {0} /\ n \in Int /\ n <= Len(t)
    BY <1>1, <1>2
  <2>5. SubSeq(t, m + 1, n) \in Seq(Characters)
    BY <2>4, PartFacts
  <2> QED
    BY <1>1, <2>1, <2>3, <2>5, SubSeqFull
<1>4. ASSUME NEW r \in Seq(Characters), t = s \o r PROVE IsPrefix(s, t)
  <2>1. m <= n
    BY <1>1, <1>2, <1>4, ConcatProperties, LenProperties
  <2>2. SubSeq(s, 1, m) = SubSeq(t, 1, m)
    <3>1. CASE m = 0
      BY <3>1, SubSeqEmpty
    <3>2. CASE m # 0
      <4>1. 1 \in 1 .. Len(s) /\ m \in 1 .. Len(s)
        BY <1>1, <1>2, <3>2
      <4> QED
        BY <1>4, <4>1, SubSeqOfConcat1
    <3> QED
      BY <3>1, <3>2
  <2> QED
    BY <1>1, <2>1, <2>2 DEF IsPrefix
<1> QED
  BY <1>3, <1>4

\* What is behind s.
LEMMA RestFacts ==
    ASSUME NEW s \in Seq(Characters), NEW r \in Seq(Characters)
    PROVE  SubSeq(s \o r, Len(s) + 1, Len(s \o r)) = r
<1>1. PICK t, m, n : t = s \o r /\ m = Len(s) /\ n = Len(r)
  OBVIOUS
<1>2. m \in Nat /\ n \in Nat
  BY <1>1, LenProperties
<1>3. t \in Seq(Characters) /\ Len(t) = m + n
  BY <1>1, ConcatProperties
<1>4. CASE n = 0
  <2>1. r = <<>>
    BY <1>1, <1>4, EmptySeq
  <2>2. m + 1 \in Int /\ m + n \in Int /\ m + n < m + 1
    BY <1>2, <1>4
  <2>3. SubSeq(t, m + 1, m + n) = <<>>
    BY <2>2, SubSeqEmpty
  <2> QED
    BY <1>1, <1>3, <2>1, <2>3
<1>5. CASE n # 0
  <2>1. m + 1 \in Len(s) + 1 .. Len(s) + Len(r) /\ m + n \in Len(s) + 1 .. Len(s) + Len(r)
    BY <1>1, <1>2, <1>5
  <2>2. SubSeq(t, m + 1, m + n) = SubSeq(r, m + 1 - m, m + n - m)
    BY <1>1, <2>1, SubSeqOfConcat2
  <2>3. m + 1 - m = 1 /\ m + n - m = n
    BY <1>2
  <2> QED
    BY <1>1, <1>3, <2>2, <2>3, SubSeqFull
<1> QED
  BY <1>4, <1>5

\* A line extended by p, which with the rest of a name makes up the name and
\* its end.
LEMMA ExtendsBy ==
    ASSUME NEW line, IsLine(line), NEW p \in Seq(Characters), NEW q \in Seq(Characters),
           NEW n \in Candidates(line), n \in Seq(Characters),
           NEW e \in {<<>>, <<Blank>>, <<Slash>>},
           n \o e = Prefix(line) \o (p \o q)
    PROVE  Extends(line, line \o p)
<1>1. PICK t : t = Prefix(line)
  OBVIOUS
<1>2. line \in Seq(Characters) /\ t \in Seq(Characters)
  BY <1>1, PrefixFacts DEF IsLine
<1>3. /\ p \o q \in Seq(Characters) /\ t \o p \in Seq(Characters)
      /\ line \o p \in Seq(Characters) /\ t \o (p \o q) \in Seq(Characters)
  BY <1>2, ConcatProperties
<1>4. n \o e = (t \o p) \o q
  BY <1>1, <1>2, Regrouped
<1>5. n \o e \in Seq(Characters)
  BY <1>1, <1>3
<1>6. IsPrefix(t \o p, n \o e)
  BY <1>3, <1>4, <1>5, PrefixSplits
<1>7. IsPrefix(line, line \o p)
  BY <1>2, <1>3, PrefixSplits
<1>8. SubSeq(line \o p, Len(line) + 1, Len(line \o p)) = p
  BY <1>2, RestFacts
<1> QED
  BY <1>1, <1>6, <1>7, <1>8 DEF Extends

\* do_tab_complete extends the line by a part of a candidate, or by all that is
\* missing of the only one and its end.
LEMMA CompletedExtends ==
    ASSUME NEW line, IsLine(line)
    PROVE  Extends(line, Completed(line))
<1>1. PICK C, t, c, ext : /\ C = Candidates(line) /\ t = Prefix(line)
                          /\ c = Common(C) /\ ext = Extension(line)
  OBVIOUS
<1>2. /\ C \in SUBSET Seq(Characters) /\ IsFiniteSet(C) /\ \A n \in C : IsPrefix(t, n)
      /\ line \in Seq(Characters) /\ t \in Seq(Characters)
  BY <1>1, CandidatesFacts, PrefixFacts DEF IsLine
<1>3. line \in Seq(Characters) /\ t \in Seq(Characters)
  BY <1>2
<1>4. CASE C = {}
  <2>1. Completed(line) = line
    BY <1>1, <1>4 DEF Completed
  <2>2. IsPrefix(line, line)
    <3>1. <<>> \in Seq(Characters) /\ line = line \o <<>>
      BY <1>2, EmptySeq, ConcatEmptySeq
    <3> QED
      BY <1>2, <3>1, PrefixSplits
  <2> QED
    BY <2>1, <2>2 DEF Extends
<1>5. CASE C # {}
  <2>1. /\ c \in Seq(Characters) /\ \A n \in C : IsPrefix(c, n)
        /\ Len(t) <= Len(c)
    BY <1>1, <1>2, <1>5, CommonFacts
  <2>2. PICK r : r \in Seq(Characters) /\ c = t \o r
    <3>1. PICK n \in C : TRUE
      BY <1>5
    <3>2. /\ SubSeq(t, 1, Len(t)) = SubSeq(n, 1, Len(t))
          /\ SubSeq(c, 1, Len(c)) = SubSeq(n, 1, Len(c)) /\ n \in Seq(Characters)
      BY <1>2, <2>1, <3>1 DEF IsPrefix
    <3>3. PICK u : u \in Seq(Characters) /\ n = c \o u
      BY <2>1, <3>1, <3>2, PrefixSplits
    <3>4. SubSeq(n, 1, Len(t)) = SubSeq(c, 1, Len(t))
      <4>1. PICK k : k = Len(t)
        OBVIOUS
      <4>2. k \in Nat /\ Len(c) \in Nat /\ k <= Len(c)
        BY <1>2, <2>1, <4>1, LenProperties
      <4>3. CASE k = 0
        BY <4>1, <4>3, SubSeqEmpty
      <4>4. CASE k # 0
        <5>1. 1 \in 1 .. Len(c) /\ k \in 1 .. Len(c)
          BY <4>2, <4>4
        <5>2. SubSeq(c \o u, 1, k) = SubSeq(c, 1, k)
          BY <2>1, <5>1, SubSeqOfConcat1
        <5> QED
          BY <3>3, <4>1, <5>2
      <4> QED
        BY <4>3, <4>4
    <3>5. IsPrefix(t, c)
      BY <2>1, <3>2, <3>4 DEF IsPrefix
    <3> QED
      BY <1>2, <2>1, <3>5, PrefixSplits
  <2>3. ext = r
    <3>1. ext = SubSeq(c, Len(t) + 1, Len(c))
      BY <1>1 DEF Extension
    <3> QED
      BY <1>2, <2>2, <3>1, RestFacts
  <2>4. PICK p, q :
          /\ p \in Seq(Characters) /\ q \in Seq(Characters)
          /\ Fitting(line, ext) = line \o p /\ ext = p \o q
          /\ Len(Fitting(line, ext)) = Len(line) + Len(ext) => p = ext
    <3>1. ext \in Seq(Characters)
      BY <2>2, <2>3
    <3>2. Begun(line, ext, Fitting(line, ext))
      BY <3>1, FittingFacts
    <3> QED
      BY <3>2 DEF Begun
  <2>5. Extends(line, line \o p)
    <3>1. PICK n \in C : TRUE
      BY <1>5
    <3>2. n \in Seq(Characters) /\ IsPrefix(c, n)
      BY <1>2, <2>1, <3>1
    <3>3. PICK u : u \in Seq(Characters) /\ n = c \o u
      BY <2>1, <3>2, PrefixSplits
    <3>4. n = (t \o (p \o q)) \o u
      BY <2>2, <2>3, <2>4, <3>3
    <3>5. p \in Seq(Characters) /\ q \in Seq(Characters) /\ u \in Seq(Characters)
      BY <2>4, <3>3
    <3>6. n = t \o (p \o (q \o u))
      <4>1. t \in Seq(Characters)
        BY <1>3
      <4>2. (t \o (p \o q)) \o u = t \o (p \o (q \o u))
        <5>1. PICK v : v = p \o q /\ v \in Seq(Characters)
          BY <3>5, ConcatProperties
        <5>2. (t \o v) \o u = t \o (v \o u)
          BY <3>5, <4>1, <5>1, Regrouped
        <5>3. (p \o q) \o u = p \o (q \o u)
          BY <3>5, Regrouped
        <5> QED
          BY <5>1, <5>2, <5>3
      <4> QED
        BY <3>4, <4>2
    <3>7. n \o <<>> = n /\ <<>> \in {<<>>, <<Blank>>, <<Slash>>}
      BY <3>2, ConcatEmptySeq
    <3>8. PICK qq : qq = q \o u /\ qq \in Seq(Characters)
      BY <3>5, ConcatProperties
    <3>9. n \o <<>> = Prefix(line) \o (p \o qq)
      BY <1>1, <3>6, <3>7, <3>8
    <3> QED
      BY <1>1, <3>1, <3>2, <3>5, <3>7, <3>8, <3>9, ExtendsBy
  <2>6. ASSUME Cardinality(C) = 1, p = ext PROVE Extends(line, Closed(line \o p, End(line, c)))
    <3>1. PICK n : C = {n}
      BY <1>2, <2>6, FS_Singleton
    <3>2. n \in Seq(Characters) /\ n \in C
      BY <1>2, <3>1
    <3>3. c = n
      <4>1. PICK u : u \in Seq(Characters) /\ n = c \o u
        BY <2>1, <3>2, PrefixSplits
      <4>2. IsPrefix(n, n)
        BY <3>2, EmptySeq, ConcatEmptySeq, PrefixSplits
      <4>3. Len(n) <= Len(c)
        BY <1>1, <1>2, <1>5, <3>1, <3>2, <4>2, CommonFacts
      <4>4. Len(n) = Len(c) + Len(u)
        BY <2>1, <4>1, ConcatProperties
      <4>5. Len(u) = 0
        BY <2>1, <3>2, <4>3, <4>4, LenProperties
      <4>6. u = <<>>
        BY <4>5, EmptySeq
      <4> QED
        BY <2>1, <4>1, <4>6, ConcatEmptySeq
    <3>4. PICK x, d : x = line \o p /\ d = End(line, c)
      OBVIOUS
    <3>5. d \in {Blank, Slash} /\ <<d>> \in Seq(Characters)
      BY <3>4, LineEditAssumption DEF End
    <3>6. IsLine(x)
      <4>1. ext \in Seq(Characters)
        BY <2>2, <2>3
      <4>2. IsLine(Fitting(line, ext))
        BY <4>1, FittingFacts
      <4> QED
        BY <2>4, <3>4, <4>2
    <3>7. PICK y, z : /\ y \in Seq(Characters) /\ z \in Seq(Characters)
                       /\ Fitting(x, <<d>>) = x \o y /\ <<d>> = y \o z
      <4>1. Begun(x, <<d>>, Fitting(x, <<d>>))
        BY <3>5, <3>6, FittingFacts
      <4> QED
        BY <4>1 DEF Begun
    <3>8. Extends(line, x \o y)
      <4>1. PICK py : py = p \o y
        OBVIOUS
      <4>2. p \in Seq(Characters) /\ y \in Seq(Characters) /\ z \in Seq(Characters)
        BY <2>4, <3>7
      <4>3. py \in Seq(Characters)
        BY <4>1, <4>2, ConcatProperties
      <4>4. x \o y = line \o py
        BY <1>3, <3>4, <4>1, <4>2, Regrouped
      <4>5. n \o <<d>> = Prefix(line) \o (py \o z)
        <5>1. n \o <<d>> = (t \o p) \o (y \o z)
          BY <2>2, <2>3, <2>6, <3>3, <3>7
        <5>2. t \in Seq(Characters)
          BY <1>3
        <5>3. (t \o p) \o (y \o z) = t \o ((p \o y) \o z)
          <6>1. PICK w : w = y \o z /\ w \in Seq(Characters)
            BY <4>2, ConcatProperties
          <6>2. (t \o p) \o w = t \o (p \o w)
            BY <4>2, <5>2, <6>1, Regrouped
          <6>3. (p \o y) \o z = p \o (y \o z)
            BY <4>2, Regrouped
          <6> QED
            BY <6>1, <6>2, <6>3
        <5> QED
          BY <1>1, <4>1, <5>1, <5>3
      <4>6. <<d>> \in {<<>>, <<Blank>>, <<Slash>>} /\ n \in Candidates(line)
        BY <1>1, <3>2, <3>5
      <4> QED
        BY <3>2, <3>7, <4>2, <4>3, <4>4, <4>5, <4>6, ExtendsBy
    <3>9. Closed(x, d) = IF x # <<>> /\ Last(x) = d THEN x ELSE Fitting(x, <<d>>)
      BY Zenon DEF Closed
    <3> QED
      BY <2>5, <3>4, <3>7, <3>8, <3>9
  <2>7. \/ Completed(line) = Fitting(line, ext)
        \/ /\ Cardinality(C) = 1 /\ Len(Fitting(line, ext)) = Len(line) + Len(ext)
           /\ Completed(line) = Closed(Fitting(line, ext), End(line, c))
    BY <1>1, <1>5 DEF Completed
  <2> QED
    BY <2>4, <2>5, <2>6, <2>7
<1> QED
  BY <1>4, <1>5

-----------------------------------------------------------------------------
(* The keys.                                                               *)

\* A prompt stands before an empty line.
LEMMA PromptStands ==
    ASSUME NEW r \in Seq(Characters), NEW c \in 0 .. Len(r)
    PROVE  LET z == Overwrite(r, c, Prompt) IN
           /\ z \in Seq(Characters) /\ c + Len(Prompt) \in 0 .. Len(z)
           /\ Stands(z, c + Len(Prompt), Written(<<>>, 0))
           /\ r = <<>> => Shows(z, Prompt \o <<>>) /\ c = 0
<1>1. Prompt \in Seq(Characters)
  BY LineEditAssumption
<1>2. PICK p, z, w, v : /\ p = Len(Prompt) /\ z = Overwrite(r, c, Prompt)
                        /\ w = Written(<<>>, 0) /\ v = Prompt \o <<>>
  OBVIOUS
<1>3. p \in Nat /\ Len(r) \in Nat /\ c \in Nat /\ c <= Len(r)
  BY <1>1, <1>2, LenProperties
<1>4. v = Prompt
  BY <1>1, <1>2, ConcatEmptySeq
<1>5. Len(w) = p /\ \A i \in 1 .. p : w[i] = Prompt[i]
  <2>1. PICK e : e = <<>>
    OBVIOUS
  <2>2. e \in Seq(Characters) /\ Len(e) = 0 /\ 0 \in 0 .. Len(e)
    BY <2>1, EmptySeq
  <2>3. /\ Len(Written(e, 0)) = Len(Prompt) + 0
        /\ \A i \in 1 .. Len(Prompt) + 0 : Written(e, 0)[i] = (Prompt \o e)[i]
    BY <2>2, WrittenFacts
  <2> QED
    BY <1>2, <1>3, <1>4, <2>1, <2>3
<1>6. /\ z \in Seq(Characters) /\ Len(z) = (IF c + p < Len(r) THEN Len(r) ELSE c + p)
      /\ \A i \in 1 .. Len(z) : z[i] = IF i \in c + 1 .. c + p THEN Prompt[i - c] ELSE r[i]
  BY <1>1, <1>2, OverwriteFacts
<1>7. c + p \in 0 .. Len(z)
  BY <1>3, <1>6
<1>8. Stands(z, c + p, w)
  <2>1. ASSUME NEW i \in 1 .. Len(w) PROVE z[(c + p) - Len(w) + i] = w[i]
    <3>1. (c + p) - Len(w) + i = c + i /\ c + i \in 1 .. Len(z) /\ c + i \in c + 1 .. c + p
          /\ (c + i) - c = i /\ i \in 1 .. p
      BY <1>3, <1>5, <1>7
    <3> QED
      BY <1>5, <1>6, <3>1
  <2> QED
    BY <1>3, <1>5, <2>1 DEF Stands
<1>9. ASSUME r = <<>> PROVE Shows(z, v) /\ c = 0
  <2>1. c = 0 /\ Len(z) = p
    BY <1>3, <1>6, <1>9
  <2>2. \A i \in 1 .. Len(z) : z[i] = IF i <= Len(Prompt) THEN Prompt[i] ELSE Blank
    BY <1>2, <1>3, <1>6, <2>1
  <2>3. Shows(z, Prompt)
    BY <1>1, <1>2, <1>3, <1>6, <2>1, <2>2, ShowsFacts
  <2> QED
    BY <1>4, <2>1, <2>3
<1> QED
  BY <1>2, <1>6, <1>7, <1>8, <1>9

\* A line begins, where the prompt stands.
LEMMA EmptyFacts ==
    ASSUME NEW r \in Seq(Characters), NEW c \in 0 .. Len(r), EmptyLine(r, c)
    PROVE  /\ row' \in Seq(Characters) /\ col' \in 0 .. Len(row') /\ Stood' /\ Shown'
<1>1. PICK z : z = Overwrite(r, c, Prompt)
  OBVIOUS
<1>2. /\ text' = <<>> /\ pos' = 0 /\ row' = z /\ col' = c + Len(Prompt)
      /\ clean' = (r = <<>> /\ Len(Prompt) < Width)
  BY <1>1 DEF EmptyLine
<1>3. /\ z \in Seq(Characters) /\ c + Len(Prompt) \in 0 .. Len(z)
      /\ Stands(z, c + Len(Prompt), Written(<<>>, 0))
      /\ r = <<>> => Shows(z, Prompt \o <<>>) /\ c = 0
  BY <1>1, PromptStands
<1>4. Stood'
  BY <1>2, <1>3 DEF Stood, Stands, Written
<1>5. Len(Prompt) \in Nat /\ Len(<<>>) = 0
  BY LineEditAssumption, LenProperties
<1>6. Shown'
  <2>1. SUFFICES ASSUME clean'
                 PROVE  c + Len(Prompt) = Len(Prompt) + 0 /\ Fits(<<>>) /\ Shows(z, Prompt \o <<>>)
    BY <1>2 DEF Shown, Shows, Fits, Blanks
  <2>2. Len(Prompt) < Width /\ r = <<>>
    BY <1>2, <2>1
  <2>3. Fits(<<>>)
    BY <1>5, <2>2 DEF Fits
  <2> QED
    BY <1>3, <1>5, <2>2, <2>3
<1> QED
  BY <1>2, <1>3, <1>4, <1>6

LEMMA EditStarts == EditInit => EditInv
<1> SUFFICES ASSUME EditInit PROVE EditInv
  OBVIOUS
<1>1. /\ text = <<>> /\ pos = 0 /\ last_draw_len = 0 /\ hist_pos = 0 /\ saved = <<>>
      /\ g_hist = [i \in 0 .. HIST_MAX - 1 |-> <<>>] /\ g_hist_next = 0 /\ g_hist_count = 0
      /\ row = Prompt /\ col = Len(Prompt) /\ clean = (Len(Prompt) < Width) /\ past = <<>>
  BY DEF EditInit
<1>2. /\ <<>> \in Seq(Characters) /\ Len(<<>>) = 0 /\ <<>> \in Seq(Seq(Characters))
      /\ Cap \in Nat \ {0} /\ HIST_MAX \in Nat \ {0} /\ Prompt \in Seq(Characters)
      /\ Len(Prompt) \in Nat
  BY EmptySeq, LineEditAssumption, LenProperties
<1>3. EditTypes
  BY <1>1, <1>2 DEF EditTypes, IsLine
<1>4. PICK z : z = Overwrite(<<>>, 0, Prompt)
  OBVIOUS
<1>5. /\ Stands(z, 0 + Len(Prompt), Written(<<>>, 0)) /\ Shows(z, Prompt \o <<>>)
  <2>1. PICK e : e = <<>>
    OBVIOUS
  <2>2. e \in Seq(Characters) /\ 0 \in 0 .. Len(e)
    BY <1>2, <2>1
  <2>3. /\ Stands(Overwrite(e, 0, Prompt), 0 + Len(Prompt), Written(<<>>, 0))
        /\ e = <<>> => Shows(Overwrite(e, 0, Prompt), Prompt \o <<>>)
    BY <2>2, PromptStands
  <2> QED
    BY <1>4, <2>1, <2>3
<1>6. z = Prompt
  <2>1. PICK e : e = <<>>
    OBVIOUS
  <2>2. e \in Seq(Characters) /\ 0 \in 0 .. Len(e) /\ Len(e) = 0
    BY <1>2, <2>1
  <2>3. PICK y : y = Overwrite(e, 0, Prompt)
    OBVIOUS
  <2>4. /\ y \in Seq(Characters)
        /\ Len(y) = IF 0 + Len(Prompt) < Len(e) THEN Len(e) ELSE 0 + Len(Prompt)
        /\ \A i \in 1 .. Len(y) :
             y[i] = IF i \in 0 + 1 .. 0 + Len(Prompt) THEN Prompt[i - 0] ELSE e[i]
    <3>1. Prompt \in Seq(Characters) /\ e \in Seq(Characters) /\ 0 \in 0 .. Len(e)
      BY <1>2, <2>2
    <3> QED
      BY <2>3, <3>1, OverwriteFacts
  <2>5. Len(y) = Len(Prompt) /\ \A i \in 1 .. Len(y) : y[i] = Prompt[i]
    BY <1>2, <2>2, <2>4
  <2>6. y = Prompt
    BY <1>2, <2>4, <2>5, SeqEqual
  <2> QED
    BY <1>4, <2>1, <2>3, <2>6
<1>7. Stood
  BY <1>1, <1>2, <1>5, <1>6 DEF Stood
<1>8. Shown
  <2>1. Len(Prompt) < Width => Fits(<<>>)
    BY <1>2 DEF Fits
  <2>2. Len(Prompt) = Len(Prompt) + 0
    BY <1>2
  <2> QED
    BY <1>1, <1>5, <1>6, <2>1, <2>2 DEF Shown
<1>9. RingHolds
  BY <1>1, <1>2 DEF RingHolds
<1> QED
  BY <1>1, <1>3, <1>7, <1>8, <1>9 DEF EditInv, Recalled

\* A key that leaves the past as it is and shows another line.
LEMMA ShowInv ==
    ASSUME EditInv, NEW line, IsLine(line), NEW at \in 0 .. Len(line), Show(line, at),
           UNCHANGED <<hist, past>>, hist_pos' \in 0 .. g_hist_count, IsLine(saved'),
           hist_pos' > 0 => line = past[Len(past) - hist_pos' + 1]
    PROVE  EditInv'
<1>1. UNCHANGED <<g_hist, g_hist_next, g_hist_count, past>>
  BY DEF hist
<1>2. Redraw(row, col, line, at) /\ clean' = (clean /\ Fits(line))
  BY DEF Show
<1>3. EditTypes /\ row \in Seq(Characters) /\ col \in 0 .. Len(row) /\ text \in Seq(Characters)
      /\ pos \in 0 .. Len(text)
  BY DEF EditInv, EditTypes, IsLine
<1>4. ASSUME clean'
      PROVE  /\ col < Width /\ Fits(line) /\ Fits(text)
             /\ BlankFrom(row, Len(Prompt) + Len(text))
  <2>1. col = Len(Prompt) + pos /\ Fits(text) /\ Shows(row, Prompt \o text)
    BY <1>2, <1>4 DEF EditInv, Shown
  <2>2. Len(Prompt) \in Nat /\ Len(text) \in Nat /\ Width \in Nat
    BY <1>3, LineEditAssumption, LenProperties
  <2>3. col < Width
    BY <1>3, <2>1, <2>2 DEF Fits
  <2> QED
    BY <1>2, <1>3, <1>4, <2>1, <2>3, ShownBlank
<1>5. /\ IsLine(text') /\ pos' \in 0 .. Len(text') /\ last_draw_len' = Len(text')
      /\ row' \in Seq(Characters) /\ col' \in 0 .. Len(row') /\ Stood' /\ Shown'
  BY <1>2, <1>3, <1>4, RedrawFacts
<1>6. EditTypes'
  BY <1>1, <1>5 DEF EditInv, EditTypes, IsLine
<1>7. RingHolds'
  BY <1>1 DEF EditInv, RingHolds, hist_get_from_end, Slot
<1>8. Recalled'
  BY <1>1, <1>2 DEF Recalled, Redraw
<1> QED
  BY <1>5, <1>6, <1>7, <1>8 DEF EditInv

\* Keys that edit end browsing.
LEMMA EditedInv ==
    ASSUME EditInv, NEW line, IsLine(line), NEW at \in 0 .. Len(line), Edited(line, at)
    PROVE  EditInv'
<1>1. IsLine(<<>>)
  BY EmptySeq, LineEditAssumption DEF IsLine
<1>2. g_hist_count \in Nat
  BY CountFacts DEF EditInv
<1>3. hist_pos' = 0 /\ saved' = <<>> /\ Show(line, at) /\ UNCHANGED <<hist, past>>
  BY DEF Edited
<1>4. hist_pos' \in 0 .. g_hist_count /\ ~(hist_pos' > 0)
  BY <1>2, <1>3
<1>5. IsLine(saved')
  BY <1>1, <1>3
<1> QED
  BY <1>3, <1>4, <1>5, ShowInv

\* The arrow up: the line entered before the one shown.
LEMMA UpInv == EditInv /\ Up => EditInv'
<1> SUFFICES ASSUME EditInv, Up PROVE EditInv'
  OBVIOUS
<1>1. PICK c, h, p : c = g_hist_count /\ h = hist_pos /\ p = Len(past)
  OBVIOUS
<1>2. /\ c \in Nat /\ c > 0 /\ h \in 0 .. c /\ p \in Nat /\ c <= p
  BY <1>1, CountFacts DEF EditInv, EditTypes, Up
<1>3. PICK back : back = IF h < c THEN h ELSE h - 1
  OBVIOUS
<1>4. back \in 0 .. c - 1
  BY <1>2, <1>3
<1>5. PICK line : line = hist_get_from_end(back)
  OBVIOUS
<1>6. /\ hist_pos' = back + 1 /\ saved' = IF hist_pos = 0 THEN text ELSE saved
      /\ Show(line, Len(line)) /\ UNCHANGED <<hist, past>>
  BY <1>1, <1>3, <1>5 DEF Up
<1>7. IsLine(line) /\ line = past[p - back]
  BY <1>1, <1>4, <1>5, CountFacts DEF EditInv, RingHolds
<1>8. IsLine(saved')
  BY <1>6 DEF EditInv, EditTypes
<1>9. hist_pos' \in 0 .. g_hist_count /\ p - hist_pos' + 1 = p - back
  BY <1>1, <1>2, <1>4, <1>6
<1>10. Len(line) \in 0 .. Len(line)
  <2>1. Len(line) \in Nat
    BY <1>7, LenProperties DEF IsLine
  <2> QED
    BY <2>1
<1> QED
  BY <1>1, <1>6, <1>7, <1>8, <1>9, <1>10, ShowInv

\* The arrow down: the line entered after it, or the one that was saved.
LEMMA DownInv == EditInv /\ Down => EditInv'
<1> SUFFICES ASSUME EditInv, Down PROVE EditInv'
  OBVIOUS
<1>1. PICK c, h, p : c = g_hist_count /\ h = hist_pos /\ p = Len(past)
  OBVIOUS
<1>2. /\ c \in Nat /\ h \in 0 .. c /\ h > 0 /\ p \in Nat /\ c <= p
  BY <1>1, CountFacts DEF EditInv, EditTypes, Down
<1>3. PICK line : line = Unbrowsed
  OBVIOUS
<1>4. /\ hist_pos' = h - 1 /\ saved' = IF h = 1 THEN <<>> ELSE saved
      /\ Show(line, Len(line)) /\ UNCHANGED <<hist, past>>
  BY <1>1, <1>3 DEF Down
<1>5. IsLine(line) /\ (h # 1 => line = past[p - (h - 2)])
  <2>1. CASE h = 1
    BY <1>1, <1>3, <2>1 DEF Unbrowsed, EditInv, EditTypes
  <2>2. CASE h # 1
    <3>1. PICK b : b = h - 2
      OBVIOUS
    <3>2. b \in 0 .. c - 1
      BY <1>2, <2>2, <3>1
    <3>3. line = hist_get_from_end(b)
      BY <1>1, <1>3, <2>2, <3>1 DEF Unbrowsed
    <3> QED
      BY <1>1, <3>1, <3>2, <3>3, CountFacts DEF EditInv, RingHolds
  <2> QED
    BY <2>1, <2>2
<1>6. IsLine(saved')
  <2>1. IsLine(<<>>)
    BY EmptySeq, LineEditAssumption DEF IsLine
  <2>2. IsLine(saved)
    BY DEF EditInv, EditTypes
  <2> QED
    BY <1>4, <2>1, <2>2
<1>7. hist_pos' \in 0 .. g_hist_count /\ (hist_pos' > 0 => h # 1 /\ p - hist_pos' + 1 = p - (h - 2))
  BY <1>1, <1>2, <1>4
<1>8. Len(line) \in 0 .. Len(line)
  <2>1. Len(line) \in Nat
    BY <1>5, LenProperties DEF IsLine
  <2> QED
    BY <2>1
<1> QED
  BY <1>1, <1>4, <1>5, <1>6, <1>7, <1>8, ShowInv

\* Keys that move, delete and insert.
LEMMA KeyInv == EditInv /\ ~Full /\ (Move \/ KillLine \/ Delete \/ Insert) => EditInv'
<1> SUFFICES ASSUME EditInv, ~Full, Move \/ KillLine \/ Delete \/ Insert PROVE EditInv'
  OBVIOUS
<1>1. IsLine(text) /\ pos \in 0 .. Len(text)
  BY DEF EditInv, EditTypes
<1>2. Len(text) \in Nat
  BY <1>1, LenProperties DEF IsLine
<1>3. CASE Move
  <2>1. PICK at \in 0 .. Len(text) : Edited(text, at)
    BY <1>3 DEF Move
  <2> QED
    BY <1>1, <2>1, EditedInv
<1>4. CASE KillLine
  <2>1. IsLine(<<>>) /\ 0 \in 0 .. Len(<<>>)
    BY EmptySeq, LineEditAssumption DEF IsLine
  <2>2. Edited(<<>>, 0)
    BY <1>4 DEF KillLine
  <2> QED
    BY <2>1, <2>2, EditedInv
<1>5. CASE Delete
  <2>1. PICK at \in {pos, pos + 1} :
          IF at \in 1 .. Len(text)
          THEN Edited(RemoveAt(text, at), at - 1)
          ELSE /\ hist_pos' = 0 /\ saved' = <<>> /\ tab_pending' = FALSE
               /\ UNCHANGED <<text, pos, last_draw_len, row, col, hist, clean, past>>
    BY <1>5 DEF Delete
  <2>2. CASE at \in 1 .. Len(text)
    <3>1. PICK line, k : line = RemoveAt(text, at) /\ k = at - 1
      OBVIOUS
    <3>2. IsLine(line) /\ Len(line) = Len(text) - 1
      BY <1>1, <2>2, <3>1, RemovedFacts
    <3>3. k \in 0 .. Len(line)
      BY <1>2, <2>2, <3>1, <3>2
    <3>4. Edited(line, k)
      BY <2>1, <2>2, <3>1
    <3> QED
      BY <3>2, <3>3, <3>4, EditedInv
  <2>3. CASE at \notin 1 .. Len(text)
    <3>1. /\ hist_pos' = 0 /\ saved' = <<>>
          /\ UNCHANGED <<text, pos, last_draw_len, row, col, g_hist, g_hist_next, g_hist_count, clean, past>>
      BY <2>1, <2>3 DEF hist
    <3>2. IsLine(<<>>) /\ g_hist_count \in Nat
      BY EmptySeq, LineEditAssumption, CountFacts DEF IsLine, EditInv
    <3>3. EditTypes'
      BY <3>1, <3>2 DEF EditInv, EditTypes, IsLine
    <3>4. RingHolds' /\ Recalled'
      BY <3>1 DEF EditInv, RingHolds, Recalled, hist_get_from_end, Slot
    <3>5. Stood' /\ Shown'
      BY <3>1 DEF EditInv, Stood, Stands, Written, Shown, Fits, Shows, Blanks
    <3> QED
      BY <3>3, <3>4, <3>5 DEF EditInv
  <2> QED
    BY <2>2, <2>3
<1>6. CASE Insert
  <2>1. PICK c \in Chars : Edited(InsertAt(text, pos + 1, c), pos + 1)
    BY <1>6 DEF Insert
  <2>2. c \in Characters /\ ~(Len(text) + 1 >= Cap)
    BY LineEditAssumption DEF Full
  <2>3. PICK line, k : line = InsertAt(text, pos + 1, c) /\ k = pos + 1
    OBVIOUS
  <2>4. IsLine(line) /\ Len(line) = Len(text) + 1
    BY <1>1, <2>2, <2>3, InsertedFacts
  <2>5. k \in 0 .. Len(line)
    BY <1>1, <1>2, <2>3, <2>4
  <2>6. Edited(line, k)
    BY <2>1, <2>3
  <2> QED
    BY <2>4, <2>5, <2>6, EditedInv
<1> QED
  BY <1>3, <1>4, <1>5, <1>6

\* What a line was extended by is behind it.
LEMMA ExtendsLonger ==
    ASSUME NEW line \in Seq(Characters), NEW longer \in Seq(Characters), Extends(line, longer)
    PROVE  /\ Len(line) <= Len(longer)
           /\ SubSeq(longer, Len(line) + 1, Len(longer)) \in Seq(Characters)
           /\ Len(SubSeq(longer, Len(line) + 1, Len(longer))) = Len(longer) - Len(line)
<1>1. PICK m, n : m = Len(line) + 1 /\ n = Len(longer)
  OBVIOUS
<1>2. Len(line) \in Nat /\ n \in Nat /\ Len(line) <= n
  BY <1>1, LenProperties DEF Extends, IsPrefix
<1>3. m \in Nat \ {0} /\ n \in Int /\ n <= Len(longer)
  BY <1>1, <1>2
<1>4. /\ SubSeq(longer, m, n) \in Seq(Characters)
      /\ Len(SubSeq(longer, m, n)) = IF m <= n THEN n - m + 1 ELSE 0
  BY <1>3, PartFacts
<1> QED
  BY <1>1, <1>2, <1>4

\* The terminal with the cursor brought to the end of the line, ...
LEMMA AtEndFacts ==
    ASSUME EditTypes, Shown, NEW r, NEW c, r = AtEnd.row, c = AtEnd.col
    PROVE  /\ r \in Seq(Characters) /\ c \in 0 .. Len(r)
           /\ clean => /\ c = Len(Prompt) + Len(text) /\ Fits(text)
                       /\ BlankFrom(r, Len(Prompt) + Len(text))
<1>1. /\ row \in Seq(Characters) /\ col \in 0 .. Len(row) /\ text \in Seq(Characters)
      /\ pos \in 0 .. Len(text) /\ last_draw_len = Len(text)
      /\ Len(Prompt) \in Nat /\ Len(text) \in Nat /\ Width \in Nat
  BY LineEditAssumption, LenProperties DEF EditTypes, IsLine
<1>2. CASE pos = Len(text)
  <2>1. r = row /\ c = col
    BY <1>2 DEF AtEnd
  <2> QED
    BY <1>1, <1>2, <2>1, ShownBlank DEF Shown
<1>3. CASE pos # Len(text)
  <2>1. PICK at : at = Len(text)
    OBVIOUS
  <2>2. at \in 0 .. Len(text) /\ last_draw_len \in Nat
    BY <1>1, <2>1
  <2>3. r = Redrawn(row, col, text, at) /\ c = Len(Prompt) + at
    BY <1>3, <2>1 DEF AtEnd
  <2>4. /\ r \in Seq(Characters) /\ c \in 0 .. Len(r)
        /\ (/\ col < Width /\ Fits(text) /\ Len(Prompt) + last_draw_len < Width
            /\ BlankFrom(row, Len(Prompt) + last_draw_len)) => Shows(r, Prompt \o text)
    BY <1>1, <2>2, <2>3, RedrawnFacts
  <2>5. ASSUME clean PROVE Fits(text) /\ BlankFrom(r, Len(Prompt) + Len(text))
    <3>1. col = Len(Prompt) + pos /\ Fits(text) /\ Shows(row, Prompt \o text)
      BY <2>5 DEF Shown
    <3>2. Len(Prompt) + last_draw_len < Width /\ col < Width
      BY <1>1, <3>1 DEF Fits
    <3>3. BlankFrom(row, Len(Prompt) + last_draw_len)
      BY <1>1, <3>1, ShownBlank
    <3> QED
      BY <1>1, <2>4, <3>1, <3>2, <3>3, ShownBlank
  <2> QED
    BY <2>1, <2>3, <2>4, <2>5
<1> QED
  BY <1>2, <1>3

\* ... and what is added written there, or all written below the candidates.
LEMMA ExtendedFacts ==
    ASSUME EditTypes, Shown, NEW line, IsLine(line), Extends(text, line),
           NEW r, NEW c, r = Extended(line).row, c = Extended(line).col
    PROVE  /\ r \in Seq(Characters) /\ c \in 0 .. Len(r)
           /\ (clean \/ Lists) /\ Fits(line) =>
                c < Width /\ Fits(text) /\ BlankFrom(r, Len(Prompt) + Len(line))
<1>1. /\ text \in Seq(Characters) /\ line \in Seq(Characters) /\ Prompt \in Seq(Characters)
      /\ Len(Prompt) \in Nat /\ Len(text) \in Nat /\ Len(line) \in Nat /\ Width \in Nat
      /\ Len(text) <= Len(line)
  BY LineEditAssumption, LenProperties, ExtendsLonger DEF EditTypes, IsLine
<1>2. Fits(line) => Fits(text)
  BY <1>1 DEF Fits
<1>3. CASE Lists
  <2>1. r = Prompt \o text /\ c = Len(Prompt) + Len(text)
    BY <1>3 DEF Extended
  <2>2. r \in Seq(Characters) /\ Len(r) = Len(Prompt) + Len(text)
    BY <1>1, <2>1, JoinFacts
  <2>3. BlankFrom(r, Len(Prompt) + Len(line))
    BY <1>1, <2>2 DEF BlankFrom
  <2> QED
    BY <1>1, <1>2, <2>1, <2>2, <2>3 DEF Fits
<1>4. CASE ~Lists
  <2>1. PICK t, u, a : /\ t = AtEnd.row /\ u = AtEnd.col
                       /\ a = SubSeq(line, Len(text) + 1, Len(line))
    OBVIOUS
  <2>2. /\ t \in Seq(Characters) /\ u \in 0 .. Len(t) /\ Len(t) \in Nat
        /\ clean => /\ u = Len(Prompt) + Len(text) /\ Fits(text)
                    /\ BlankFrom(t, Len(Prompt) + Len(text))
    BY <2>1, AtEndFacts, LenProperties
  <2>3. a \in Seq(Characters) /\ Len(a) = Len(line) - Len(text)
    BY <1>1, <2>1, ExtendsLonger
  <2>4. r = Overwrite(t, u, a) /\ c = u + Len(a)
    BY <1>4, <2>1 DEF Extended
  <2>5. /\ r \in Seq(Characters) /\ Len(r) = (IF u + Len(a) < Len(t) THEN Len(t) ELSE u + Len(a))
        /\ \A i \in 1 .. Len(r) : r[i] = IF i \in u + 1 .. u + Len(a) THEN a[i - u] ELSE t[i]
    <3>1. PICK o : o = Overwrite(t, u, a)
      OBVIOUS
    <3>2. /\ o \in Seq(Characters) /\ Len(o) = IF u + Len(a) < Len(t) THEN Len(t) ELSE u + Len(a)
          /\ \A i \in 1 .. Len(o) : o[i] = IF i \in u + 1 .. u + Len(a) THEN a[i - u] ELSE t[i]
      <4>1. t \in Seq(Characters) /\ a \in Seq(Characters) /\ u \in 0 .. Len(t)
        BY <2>2, <2>3
      <4> QED
        BY <3>1, <4>1, OverwriteFacts
    <3> QED
      BY <2>4, <3>1, <3>2
  <2>6. c \in 0 .. Len(r)
    BY <1>1, <2>2, <2>3, <2>4, <2>5
  <2>7. ASSUME clean, Fits(line) PROVE c < Width /\ BlankFrom(r, Len(Prompt) + Len(line))
    <3>1. c = Len(Prompt) + Len(line)
      BY <1>1, <2>2, <2>3, <2>4, <2>7
    <3>2. ASSUME NEW i \in 1 .. Len(r), Len(Prompt) + Len(line) < i PROVE r[i] = Blank
      <4>1. ~(i \in u + 1 .. u + Len(a)) /\ i \in 1 .. Len(t) /\ Len(Prompt) + Len(text) < i
        BY <1>1, <2>2, <2>3, <2>4, <2>5, <3>1, <3>2
      <4>2. r[i] = t[i] /\ t[i] = Blank
        BY <2>2, <2>5, <2>7, <4>1 DEF BlankFrom
      <4> QED
        BY <4>2
    <3> QED
      BY <2>7, <3>1, <3>2 DEF BlankFrom, Fits
  <2> QED
    BY <1>2, <1>4, <2>5, <2>6, <2>7
<1> QED
  BY <1>3, <1>4

\* TAB: the line completed, drawn over the old one or below the candidates.
LEMMA TabInv == EditInv /\ Tab => EditInv'
<1> SUFFICES ASSUME EditInv, Tab PROVE EditInv'
  OBVIOUS
<1>1. PICK line, r, c : line = Completed(text) /\ r = Extended(line).row /\ c = Extended(line).col
  OBVIOUS
<1>2. IsLine(line) /\ Extends(text, line) /\ EditTypes /\ Shown /\ line \in Seq(Characters)
  BY <1>1, CompletedFacts, CompletedExtends DEF EditInv, EditTypes, IsLine
<1>3. /\ Redraw(r, c, line, Len(line)) /\ clean' = ((clean \/ Lists) /\ Fits(line))
      /\ hist_pos' = 0 /\ saved' = <<>>
      /\ UNCHANGED <<g_hist, g_hist_next, g_hist_count, past>>
  BY <1>1 DEF Tab, hist
<1>4. /\ r \in Seq(Characters) /\ c \in 0 .. Len(r)
      /\ (clean \/ Lists) /\ Fits(line) =>
           c < Width /\ Fits(text) /\ BlankFrom(r, Len(Prompt) + Len(line))
  BY <1>1, <1>2, ExtendedFacts
<1>5. /\ IsLine(text') /\ pos' \in 0 .. Len(text') /\ last_draw_len' = Len(text')
      /\ row' \in Seq(Characters) /\ col' \in 0 .. Len(row') /\ Stood' /\ Shown'
  <2>1. PICK at : at = Len(line)
    OBVIOUS
  <2>2. at \in 0 .. Len(line) /\ Redraw(r, c, line, at)
    BY <1>2, <1>3, <2>1, LenProperties
  <2>3. clean' => /\ c < Width /\ Fits(line) /\ Fits(text)
                  /\ BlankFrom(r, Len(Prompt) + Len(text)) \/ BlankFrom(r, Len(Prompt) + Len(line))
    BY <1>3, <1>4
  <2> QED
    BY <1>2, <1>4, <2>2, <2>3, RedrawFacts
<1>6. IsLine(<<>>) /\ g_hist_count \in Nat
  BY EmptySeq, LineEditAssumption, CountFacts DEF IsLine, EditInv
<1>7. EditTypes'
  <2>1. hist_pos' \in 0 .. g_hist_count'
    BY <1>3, <1>6
  <2> QED
    BY <1>3, <1>5, <1>6, <2>1 DEF EditInv, EditTypes, IsLine
<1>8. RingHolds' /\ Recalled'
  BY <1>3 DEF EditInv, RingHolds, Recalled, hist_get_from_end, Slot
<1> QED
  BY <1>5, <1>7, <1>8 DEF EditInv

\* Enter, or a full line: it goes to the ring, and an empty one begins.
LEMMA EnterInv == EditInv /\ Enter => EditInv'
<1> SUFFICES ASSUME EditInv, Enter PROVE EditInv'
  OBVIOUS
<1>1. /\ past' \in Seq(Seq(Characters)) /\ \A k \in 1 .. Len(past') : IsLine(past'[k])
      /\ g_hist' \in [0 .. HIST_MAX - 1 -> Seq(Characters)]
      /\ g_hist_next' \in 0 .. HIST_MAX - 1 /\ g_hist_count' \in Nat
      /\ RingHolds'
  BY AddedFacts DEF EditInv, Enter
<1>2. row \in Seq(Characters) /\ col \in 0 .. Len(row) /\ Slash \in Characters
  BY LineEditAssumption DEF EditInv, EditTypes
<1>3. PICK r, c : EmptyLine(r, c) /\ r \in Seq(Characters) /\ c \in 0 .. Len(r)
  <2>1. CASE EmptyLine(<<>>, 0)
    <3>1. <<>> \in Seq(Characters) /\ 0 \in 0 .. Len(<<>>)
      BY EmptySeq
    <3> QED
      BY <2>1, <3>1
  <2>2. CASE EmptyLine(<<Slash>>, 1)
    <3>1. <<Slash>> \in Seq(Characters) /\ 1 \in 0 .. Len(<<Slash>>)
      BY <1>2
    <3> QED
      BY <2>2, <3>1
  <2>3. CASE EmptyLine(Reachable(row, col), col % Width)
    BY <1>2, <2>3, ReachableFacts
  <2> QED
    BY <2>1, <2>2, <2>3 DEF Enter
<1>4. text' = <<>> /\ pos' = 0 /\ last_draw_len' = 0 /\ hist_pos' = 0 /\ saved' = <<>>
  BY <1>3 DEF EmptyLine
<1>5. IsLine(<<>>) /\ Len(<<>>) = 0
  BY EmptySeq, LineEditAssumption DEF IsLine
<1>6. row' \in Seq(Characters) /\ col' \in 0 .. Len(row') /\ Stood' /\ Shown'
  BY <1>3, EmptyFacts
<1>7. EditTypes'
  <2>1. hist_pos' \in 0 .. g_hist_count' /\ pos' \in 0 .. Len(text') /\ last_draw_len' = Len(text')
    BY <1>1, <1>4, <1>5
  <2> QED
    BY <1>1, <1>4, <1>5, <1>6, <2>1 DEF EditTypes, IsLine
<1>8. Recalled'
  BY <1>4 DEF Recalled
<1> QED
  BY <1>1, <1>6, <1>7, <1>8 DEF EditInv

LEMMA EditSteps == EditInv /\ [EditNext]_editVars => EditInv'
<1> SUFFICES ASSUME EditInv, [EditNext]_editVars PROVE EditInv'
  OBVIOUS
<1>1. CASE EditNext
  BY <1>1, EnterInv, UpInv, DownInv, KeyInv, TabInv DEF EditNext
<1>2. CASE UNCHANGED editVars
  <2>1. UNCHANGED <<text, pos, last_draw_len, hist_pos, saved, g_hist, g_hist_next, g_hist_count,
                    row, col, clean, past>>
    BY <1>2 DEF editVars, hist
  <2>2. EditTypes'
    BY <2>1 DEF EditInv, EditTypes, IsLine
  <2>3. RingHolds' /\ Recalled'
    BY <2>1 DEF EditInv, RingHolds, Recalled, hist_get_from_end, Slot
  <2>4. Stood' /\ Shown'
    BY <2>1 DEF EditInv, Stood, Stands, Written, Shown, Fits, Shows, Blanks
  <2> QED
    BY <2>2, <2>3, <2>4 DEF EditInv
<1> QED
  BY <1>1, <1>2

\* Whatever the keys are and however wide the terminal, the line, what is drawn
\* of it and the ring of past lines agree: prompt and line up to the cursor stand
\* before the terminal's, and where they have fitted their row it shows them and
\* nothing else (read_line, redraw_line and hist_add of sh.c).
THEOREM EditInvariant == EditSpec => []EditInv
<1>1. EditInit => EditInv
  BY EditStarts
<1>2. EditInv /\ [EditNext]_editVars => EditInv'
  BY EditSteps
<1> QED
  BY <1>1, <1>2, PTL DEF EditSpec

\* The invariant in the words of LineShown.
LEMMA InvShows == EditInv => LineShown
<1> SUFFICES ASSUME EditInv PROVE LineShown
  OBVIOUS
<1>1. /\ text \in Seq(Characters) /\ Len(text) < Cap /\ pos \in 0 .. Len(text)
      /\ row \in Seq(Characters) /\ col \in 0 .. Len(row) /\ Stood /\ Shown
  BY DEF EditInv, EditTypes, IsLine
<1>2. PICK w, p, b : w = Written(text, pos) /\ p = Len(Prompt) /\ b = col - pos - p + 1
  OBVIOUS
<1>3. /\ w \in Seq(Characters) /\ Len(w) = p + pos /\ p \in Nat /\ pos \in Nat
      /\ Prompt \o text \in Seq(Characters) /\ Len(Prompt \o text) = p + Len(text)
      /\ Len(row) \in Nat /\ Len(text) \in Nat
  BY <1>1, <1>2, WrittenFacts, LenProperties
<1>4. Len(w) <= col /\ \A i \in 1 .. Len(w) : row[col - Len(w) + i] = w[i]
  BY <1>1, <1>2 DEF Stood, Stands
<1>5. b \in Nat \ {0} /\ col \in Int /\ col <= Len(row) /\ b = col - Len(w) + 1
  BY <1>1, <1>2, <1>3, <1>4
<1>6. PICK s : s = SubSeq(row, b, col)
  OBVIOUS
<1>7. /\ s \in Seq(Characters) /\ Len(s) = (IF b <= col THEN col - b + 1 ELSE 0)
      /\ \A i \in 1 .. Len(s) : s[i] = row[b + i - 1]
  BY <1>1, <1>5, <1>6, PartFacts
<1>8. s = w
  <2>1. Len(s) = Len(w)
    BY <1>3, <1>5, <1>7
  <2>2. ASSUME NEW i \in 1 .. Len(s) PROVE s[i] = w[i]
    <3>1. b + i - 1 = col - Len(w) + i /\ i \in 1 .. Len(w)
      BY <1>3, <1>5, <2>1
    <3> QED
      BY <1>4, <1>7, <3>1
  <2> QED
    BY <1>3, <1>7, <2>1, <2>2, SeqEqual
<1>9. SubSeq(row, col - pos - Len(Prompt) + 1, col) = Prompt \o SubSeq(text, 1, pos)
  BY <1>2, <1>6, <1>8 DEF Written
<1>10. ASSUME clean
       PROVE  /\ col = Len(Prompt) + pos
              /\ row = Prompt \o text \o Blanks(Len(row) - Len(Prompt) - Len(text))
  <2>1. col = Len(Prompt) + pos /\ row = (Prompt \o text) \o Blanks(Len(row) - Len(Prompt \o text))
    BY <1>1, <1>10 DEF Shown, Shows
  <2>2. Len(row) - Len(Prompt \o text) = Len(row) - Len(Prompt) - Len(text)
    BY <1>2, <1>3
  <2> QED
    BY <2>1, <2>2
<1> QED
  BY <1>1, <1>9, <1>10 DEF EditInv, RingHolds, Recalled, LineShown

\* The terminal shows prompt and line up to the cursor, and prompt and line
\* alone while they fit its row; the line fits its buffer; and a recalled line
\* is the one entered that many lines ago (read_line and redraw_line of sh.c).
THEOREM LineStaysShown == EditSpec => []LineShown
<1>1. EditInv => LineShown
  BY InvShows
<1> QED
  BY <1>1, EditInvariant, PTL

\* Browsing keeps the line and gives it back, and what TAB adds to a line is
\* part of a name.
THEOREM LineStaysKept == EditSpec => EditsKeepLine
<1>1. ASSUME EditInv, EditNext PROVE KeepsLine
  <2>1. hist_pos' > 0 => saved' = IF hist_pos = 0 THEN text ELSE saved
    <3>1. CASE Enter
      BY <3>1 DEF Enter, EmptyLine
    <3>2. CASE Up
      BY <3>2 DEF Up
    <3>3. CASE Down
      <4>1. hist_pos \in Nat
        BY <1>1, CountFacts DEF EditInv, EditTypes
      <4> QED
        BY <3>3, <4>1 DEF Down
    <3>4. CASE Move \/ KillLine \/ Delete \/ Insert
      BY <3>4 DEF Move, KillLine, Delete, Insert, Edited
    <3>5. CASE Tab
      BY <3>5 DEF Tab
    <3> QED
      BY <1>1, <3>1, <3>2, <3>3, <3>4, <3>5 DEF EditNext
  <2>2. Down /\ hist_pos' = 0 => text' = saved
    <3>1. hist_pos \in Nat
      BY <1>1, CountFacts DEF EditInv, EditTypes
    <3> QED
      BY <3>1 DEF Down, Unbrowsed, Show, Redraw
  <2>3. Tab => Extends(text, text')
    BY <1>1, CompletedExtends DEF Tab, Redraw, EditInv, EditTypes
  <2> QED
    BY <2>1, <2>2, <2>3 DEF KeepsLine
<1>2. EditInv /\ [EditNext]_editVars => [KeepsLine]_editVars
  BY <1>1
<1> QED
  BY <1>2, EditInvariant, PTL DEF EditSpec, EditsKeepLine
=============================================================================
