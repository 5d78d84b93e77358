------------------------------ MODULE PipeFifo ------------------------------
(***************************************************************************)
(* What a pipe promises to the processes that hold its ends: a bounded     *)
(* byte queue, end of file once the last writer is gone and the queue is   *)
(* drained, EPIPE once the last reader is gone.  It never blocks; a caller *)
(* that would have to wait is told EAGAIN.                                 *)
(***************************************************************************)
EXTENDS Integers, Sequences

CONSTANTS
    Capacity,  \* bytes the pipe holds
    Bytes,     \* values of a byte
    MaxLen,    \* longest transfer
    MaxRefs    \* most descriptor references to one end

VARIABLES
    queue,     \* bytes written and not yet read
    readers,   \* references to the read end
    writers,   \* references to the write end
    result     \* what the last read or write returned

vars == <<queue, readers, writers, result>>

\* What a transfer returns: the bytes it moved, or why it moved none.
Moved(bytes) == [code |-> "ok", bytes |-> bytes]
Failed(code) == [code |-> code, bytes |-> <<>>]

Least(a, b) == IF a <= b THEN a ELSE b

Init == queue = <<>> /\ readers = 0 /\ writers = 0 /\ result = Moved(<<>>)

Open ==
    /\ readers = 0 /\ writers = 0
    /\ readers' = 1 /\ writers' = 1
    /\ queue' = <<>>
    /\ UNCHANGED result

DupReader == readers \in 1 .. MaxRefs - 1 /\ readers' = readers + 1
                /\ UNCHANGED <<queue, writers, result>>
DupWriter == writers \in 1 .. MaxRefs - 1 /\ writers' = writers + 1
                /\ UNCHANGED <<queue, readers, result>>

\* The bytes go with the last reference to either end.
QueueAfterClose == IF readers' = 0 /\ writers' = 0 THEN <<>> ELSE queue

CloseReader == readers > 0 /\ readers' = readers - 1
                  /\ UNCHANGED <<writers, result>> /\ queue' = QueueAfterClose
CloseWriter == writers > 0 /\ writers' = writers - 1
                  /\ UNCHANGED <<readers, result>> /\ queue' = QueueAfterClose

Read(len) ==
    /\ readers > 0
    /\ UNCHANGED <<readers, writers>>
    /\ \/ /\ queue # <<>>
          /\ LET n == Least(len, Len(queue))
             IN  /\ result' = Moved(SubSeq(queue, 1, n))
                 /\ queue' = SubSeq(queue, n + 1, Len(queue))
       \/ /\ queue = <<>>
          /\ result' = Failed(IF writers = 0 THEN "EOF" ELSE "EAGAIN")
          /\ UNCHANGED queue

Write(src) ==
    /\ writers > 0
    /\ UNCHANGED <<readers, writers>>
    /\ \/ /\ readers > 0 /\ Len(queue) < Capacity
          /\ LET n == Least(Len(src), Capacity - Len(queue))
             IN  /\ result' = Moved(SubSeq(src, 1, n))
                 /\ queue' = queue \o SubSeq(src, 1, n)
       \/ /\ ~(readers > 0 /\ Len(queue) < Capacity)
          /\ result' = Failed(IF readers = 0 THEN "EPIPE" ELSE "EAGAIN")
          /\ UNCHANGED queue

\* The arguments of write(): at least one byte (a length of 0 has no effect).
Sources == UNION {[1 .. n -> Bytes] : n \in 1 .. MaxLen}

Next == \/ Open
        \/ DupReader \/ DupWriter
        \/ CloseReader \/ CloseWriter
        \/ \E len \in 1 .. MaxLen : Read(len)
        \/ \E src \in Sources : Write(src)

Spec == Init /\ [][Next]_vars
=============================================================================
