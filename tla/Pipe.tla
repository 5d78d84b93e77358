-------------------------------- MODULE Pipe --------------------------------
(***************************************************************************)
(* One slot of g_pipes: a ring buffer with a read and a write position, a  *)
(* byte count, and a count of the descriptor references to each end.       *)
(* Slots do not interact; which slot pipe_create picks and who holds the   *)
(* references is the business of module FdTable.                           *)
(*                                                                         *)
(* A caller of pipe_read, pipe_write and the reference hooks holds an open *)
(* descriptor for the end it names: that is the guard on their refs.       *)
(***************************************************************************)
EXTENDS Integers, Sequences

CONSTANTS PIPE_BUF, Bytes, MaxLen, MaxRefs

ASSUME PipeAssumption ==
    /\ PIPE_BUF \in Nat \ {0}
    /\ MaxLen \in Nat
    /\ MaxRefs \in Nat \ {0}
    /\ Bytes # {}

VARIABLES used, buf, rpos, wpos, count, read_refs, write_refs,
          result   \* what the last read or write returned

vars == <<used, buf, rpos, wpos, count, read_refs, write_refs, result>>

\* What a transfer returns: the bytes it moved, or why it moved none.
Moved(bytes) == [code |-> "ok", bytes |-> bytes]
Failed(code) == [code |-> code, bytes |-> <<>>]

Indices == 0 .. PIPE_BUF - 1

Least(a, b) == IF a <= b THEN a ELSE b

\* pipe_init.  The buffer's first contents do not matter.
Init ==
    /\ used = FALSE
    /\ buf \in [Indices -> Bytes]
    /\ rpos = 0 /\ wpos = 0 /\ count = 0
    /\ read_refs = 0 /\ write_refs = 0
    /\ result = Moved(<<>>)

\* pipe_create, and pipe2's references to both ends.
pipe_create ==
    /\ ~used
    /\ used' = TRUE
    /\ rpos' = 0 /\ wpos' = 0 /\ count' = 0
    /\ read_refs' = 1 /\ write_refs' = 1
    /\ UNCHANGED <<buf, result>>

incref_read ==
    /\ used /\ read_refs \in 1 .. MaxRefs - 1
    /\ read_refs' = read_refs + 1
    /\ UNCHANGED <<used, buf, rpos, wpos, count, write_refs, result>>

incref_write ==
    /\ used /\ write_refs \in 1 .. MaxRefs - 1
    /\ write_refs' = write_refs + 1
    /\ UNCHANGED <<used, buf, rpos, wpos, count, read_refs, result>>

\* Mutation: the slot is freed with its last reader, writers or not.
pipe_maybe_free_NoWriterTest(r, w) ==
    /\ used' = (r # 0)
    /\ rpos' = IF r = 0 THEN 0 ELSE rpos
    /\ wpos' = IF r = 0 THEN 0 ELSE wpos
    /\ count' = IF r = 0 THEN 0 ELSE count

\* The slot is freed with its last reference.
pipe_maybe_free(r, w) ==
    LET last == r = 0 /\ w = 0
    IN  /\ used' = ~last
        /\ rpos' = IF last THEN 0 ELSE rpos
        /\ wpos' = IF last THEN 0 ELSE wpos
        /\ count' = IF last THEN 0 ELSE count

decref_read ==
    /\ used /\ read_refs > 0
    /\ read_refs' = read_refs - 1
    /\ pipe_maybe_free(read_refs - 1, write_refs)
    /\ UNCHANGED <<buf, write_refs, result>>

decref_write ==
    /\ used /\ write_refs > 0
    /\ write_refs' = write_refs - 1
    /\ pipe_maybe_free(read_refs, write_refs - 1)
    /\ UNCHANGED <<buf, read_refs, result>>

\* A position after n bytes.
Advance(pos, n) == (pos + n) % PIPE_BUF

\* The n bytes from position pos on.
Slice(pos, n) == [k \in 1 .. n |-> buf[Advance(pos, k - 1)]]

pipe_read(len) ==
    /\ used /\ read_refs > 0
    /\ UNCHANGED <<used, buf, wpos, read_refs, write_refs>>
    /\ \/ /\ count # 0
          /\ LET n == Least(len, count)
             IN  /\ result' = Moved(Slice(rpos, n))
                 /\ rpos' = Advance(rpos, n)
                 /\ count' = count - n
       \/ /\ count = 0
          /\ result' = Failed(IF write_refs = 0 THEN "EOF" ELSE "EAGAIN")
          /\ UNCHANGED <<rpos, count>>

Space == PIPE_BUF - count

\* The offset of index i in the n bytes stored from wpos on, if below n.
Offset(i) == (i + PIPE_BUF - wpos) % PIPE_BUF

\* The buffer after the n first bytes of src are stored at wpos.
Stored(src, n) ==
    [i \in Indices |-> IF Offset(i) < n THEN src[Offset(i) + 1] ELSE buf[i]]

pipe_write(src) ==
    /\ used /\ write_refs > 0
    /\ UNCHANGED <<used, rpos, read_refs, write_refs>>
    /\ \/ /\ read_refs # 0 /\ count # PIPE_BUF
          /\ LET n == Least(Len(src), Space)
             IN  /\ buf' = Stored(src, n)
                 /\ wpos' = Advance(wpos, n)
                 /\ count' = count + n
                 /\ result' = Moved(SubSeq(src, 1, n))
       \/ /\ read_refs = 0 \/ count = PIPE_BUF
          /\ result' = Failed(IF read_refs = 0 THEN "EPIPE" ELSE "EAGAIN")
          /\ UNCHANGED <<buf, wpos, count>>

Sources == UNION {[1 .. n -> Bytes] : n \in 1 .. MaxLen}

Next == \/ pipe_create
        \/ incref_read \/ incref_write
        \/ decref_read \/ decref_write
        \/ \E len \in 1 .. MaxLen : pipe_read(len)
        \/ \E src \in Sources : pipe_write(src)

Spec == Init /\ [][Next]_vars

-----------------------------------------------------------------------------
(* Properties.                                                             *)

\* Every field keeps its type: the positions index the buffer and the count
\* never exceeds it, whatever mix of partial reads and writes wraps around.
TypeOK ==
    /\ used \in BOOLEAN
    /\ buf \in [Indices -> Bytes]
    /\ rpos \in Indices /\ wpos \in Indices
    /\ count \in 0 .. PIPE_BUF
    /\ read_refs \in 0 .. MaxRefs /\ write_refs \in 0 .. MaxRefs

\* The three fields that describe the ring agree: the write position is count
\* bytes after the read position (pipe_read and pipe_write update them apart).
PositionsAgree == wpos = Advance(rpos, count)

\* A slot is in use exactly while somebody holds one of its ends, and an
\* unused one is empty (pipe_maybe_free).
UsedWhileHeld ==
    /\ used <=> read_refs # 0 \/ write_refs # 0
    /\ ~used => count = 0

\* The inductive invariant of the ring.
PipeInv == TypeOK /\ PositionsAgree /\ UsedWhileHeld

\* The bytes in the pipe, oldest first.
Contents == Slice(rpos, count)

Fifo == INSTANCE PipeFifo WITH
            Capacity <- PIPE_BUF,
            queue <- Contents, readers <- read_refs, writers <- write_refs

\* The ring buffer implements a bounded FIFO: no byte is lost, duplicated or
\* reordered by any mix of partial and wrapping transfers, EOF comes exactly
\* when it is drained and the last writer has closed, EPIPE exactly when the
\* last reader has.
ImplementsFifo == Fifo!Spec
=============================================================================
