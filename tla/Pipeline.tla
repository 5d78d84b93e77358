------------------------------ MODULE Pipeline ------------------------------
(***************************************************************************)
(* Programs joined by a pipe: the shell's `cmd1 | cmd2` (run_pipeline) and *)
(* kinit's run_capture, which reads a program's output itself.             *)
(*                                                                         *)
(* Pipes never block: read and write return EAGAIN, and the programs loop. *)
(* Some retry what was not written (write_all of tee, rev, yes, ...),      *)
(* others call sys_write once and go on (cat, head, cut, grep, seq, ...);  *)
(* most readers retry, tr gives up.  Every step is one system call of one  *)
(* process; the processes interleave freely.                               *)
(***************************************************************************)
EXTENDS Integers, FiniteSets, Sequences

CONSTANTS
    OutLen,     \* bytes the left program writes
    Capacity,   \* PIPE_BUF, bytes the pipe holds
    Chunk,      \* longest write, and the length of every read
    ReadMax,  \* what a reader that stops early wants; run_capture's buffer
    Writers,    \* left programs: "retry", "once", "endless", "missing"
    Readers     \* right programs: "patient", "hasty", "head", "missing"

ASSUME PipelineAssumption ==
    /\ {OutLen, Capacity, Chunk, ReadMax} \subseteq Nat \ {0}
    /\ Writers \subseteq {"retry", "once", "endless", "missing"}
    /\ Readers \subseteq {"patient", "hasty", "head", "missing"}

Children == {"left", "right"}
Procs    == {"sh"} \cup Children

\* What exec_argv's failure prints, and a byte of an endless program.
ErrByte  == 0
SameByte == OutLen + 1

VARIABLES
    mode,    \* "pipeline" (sh) or "capture" (kinit)
    prog,    \* the programs run
    pc,      \* where each process is
    fds,     \* its descriptors of the pipe: p0 reads, p1 writes, std is 0 or 1
    bytes,   \* bytes in the pipe
    sent,    \* bytes of its output the left program is done with
    got,     \* bytes the reader has read
    code,    \* exit status of a process that is a zombie or was waited for
    status   \* what run_pipeline or run_capture returns, or -1

pipelineVars == <<mode, prog, pc, fds, bytes, sent, got, code, status>>

\* An endless program only meets a reader that stops: the others would, by
\* design, read for ever.  run_capture, which stops, runs one program.
Pairs(m) == {pr \in [left : Writers, right : Readers] :
               IF m = "capture" THEN pr.right = "missing"
               ELSE pr.left = "endless" => pr.right = "head"}

PipelineInit ==
    /\ mode \in {"pipeline", "capture"}
    /\ prog \in Pairs(mode)
    /\ pc = [p \in Procs |-> IF p = "sh" THEN "forkLeft" ELSE "none"]
    /\ fds = [p \in Procs |-> IF p = "sh" THEN {"p0", "p1"} ELSE {}]
    /\ bytes = <<>> /\ sent = 0 /\ got = <<>>
    /\ code = [p \in Children |-> 0]
    /\ status = -1

HasReader == \E p \in Procs : "p0" \in fds[p] \/ (p = "right" /\ "std" \in fds[p])
HasWriter == \E p \in Procs : "p1" \in fds[p] \/ (p = "left" /\ "std" \in fds[p])

Goto(p, l) == pc' = [pc EXCEPT ![p] = l]

\* pipe_write of bytes b: what is left of the buffer takes.
Accepted(b) == SubSeq(b, 1, IF Len(b) < Capacity - Len(bytes)
                            THEN Len(b) ELSE Capacity - Len(bytes))

\* exit closes every descriptor.
Exit(p, c) ==
    /\ Goto(p, "zombie")
    /\ fds' = [fds EXCEPT ![p] = {}]
    /\ code' = [code EXCEPT ![p] = c]

-----------------------------------------------------------------------------
(* The children, up to execve.                                             *)

Dup2(p) ==
    /\ pc[p] = "dup2"
    /\ Goto(p, "close0")
    /\ fds' = [fds EXCEPT ![p] = @ \cup {"std"}]
    /\ UNCHANGED <<mode, prog, bytes, sent, got, code, status>>

\* Mutation: the child keeps the pipe's write end.
Kept_Write(p) == [fds EXCEPT ![p] = @ \ {"p0"}]

\* The two closes of a child, one after the other.
Kept(p) == [fds EXCEPT ![p] = @ \ (IF pc[p] = "close0" THEN {"p0"} ELSE {"p1"})]

CloseEnds(p) ==
    /\ pc[p] \in {"close0", "close1"}
    /\ Goto(p, IF pc[p] = "close0" THEN "close1" ELSE "exec")
    /\ fds' = Kept(p)
    /\ UNCHANGED <<mode, prog, bytes, sent, got, code, status>>

\* execve keeps the descriptors.  When it fails, "execve failed" goes to
\* descriptor 1, which for the left program is the pipe.
exec_argv(p) ==
    /\ pc[p] = "exec"
    /\ IF prog[p] # "missing"
       THEN Goto(p, "run") /\ UNCHANGED <<fds, bytes, code>>
       ELSE /\ Exit(p, 127)
            /\ bytes' = IF p = "left" /\ HasReader THEN bytes \o Accepted(<<ErrByte>>) ELSE bytes
    /\ UNCHANGED <<mode, prog, sent, got, status>>

-----------------------------------------------------------------------------
(* The programs.                                                           *)

\* Bytes n of the left program's output that come next.
NextBytes(n) == IF prog.left = "endless" THEN [i \in 1 .. n |-> SameByte]
                ELSE [i \in 1 .. n |-> sent + i]

\* Mutation: a failed write is taken for a full one.
Progress_Once(n) == n

\* How far the program gets: write_all goes on after what was taken.
Progress(n) == CASE prog.left = "endless" -> 0
                 [] prog.left = "once"    -> n
                 [] OTHER                 -> Len(Accepted(NextBytes(n)))

WriteSome ==
    /\ pc["left"] = "run" /\ sent < OutLen
    /\ \E n \in 1 .. Chunk :
         /\ sent + n <= OutLen
         /\ IF HasReader
            THEN /\ bytes' = bytes \o Accepted(NextBytes(n))
                 /\ sent' = sent + Progress(n)
                 /\ UNCHANGED <<pc, fds, code>>
            ELSE \* EPIPE: write_all fails, the others do not look
                 /\ IF prog.left = "once"
                    THEN sent' = sent + n /\ UNCHANGED <<pc, fds, code>>
                    ELSE Exit("left", 1) /\ UNCHANGED sent
                 /\ UNCHANGED bytes
    /\ UNCHANGED <<mode, prog, got, status>>

WriteEnd ==
    /\ pc["left"] = "run" /\ sent = OutLen
    /\ Exit("left", 0)
    /\ UNCHANGED <<mode, prog, bytes, sent, got, status>>

\* What a read of n bytes takes.
Taken(n) == SubSeq(bytes, 1, IF n < Len(bytes) THEN n ELSE Len(bytes))

AtEof == bytes = <<>> /\ ~HasWriter

\* What one read of the right program does: data, EOF, or EAGAIN.
ReadRight ==
    /\ pc["right"] = "run"
    /\ LET want == IF prog.right = "head" THEN ReadMax - Len(got) ELSE Chunk IN
       CASE want = 0 \/ AtEof ->
              Exit("right", 0) /\ UNCHANGED <<bytes, got>>
         [] ~AtEof /\ want > 0 /\ bytes = <<>> ->
              /\ IF prog.right = "hasty" THEN Exit("right", 1)
                 ELSE UNCHANGED <<pc, fds, code>>
              /\ UNCHANGED <<bytes, got>>
         [] OTHER ->
              /\ got' = got \o Taken(want)
              /\ bytes' = SubSeq(bytes, Len(Taken(want)) + 1, Len(bytes))
              /\ UNCHANGED <<pc, fds, code>>
    /\ UNCHANGED <<mode, prog, sent, status>>

-----------------------------------------------------------------------------
(* The parent.                                                             *)

Child(p) == /\ fds' = [fds EXCEPT ![p] = fds["sh"]]
            /\ pc' = [pc EXCEPT ![p] = "dup2",
                                !["sh"] = IF mode = "capture" THEN "closeWrite"
                                          ELSE IF p = "left" THEN "forkRight" ELSE "closeRead"]

Fork(p) ==
    /\ pc["sh"] = IF p = "left" THEN "forkLeft" ELSE "forkRight"
    /\ \/ Child(p)
       \/ /\ fds' = [fds EXCEPT !["sh"] = {}] \* fork failed
          /\ Goto("sh", "done")
    /\ UNCHANGED <<mode, prog, bytes, sent, got, code, status>>

CloseOf(end) == [fds EXCEPT !["sh"] = @ \ {end}]

CloseRead ==
    /\ pc["sh"] = "closeRead"
    /\ fds' = CloseOf("p0")
    /\ Goto("sh", IF mode = "pipeline" THEN "closeWrite" ELSE "waitLeft")
    /\ UNCHANGED <<mode, prog, bytes, sent, got, code, status>>

CloseWrite ==
    /\ pc["sh"] = "closeWrite"
    /\ fds' = CloseOf("p1")
    /\ Goto("sh", IF mode = "pipeline" THEN "waitLeft" ELSE "read")
    /\ UNCHANGED <<mode, prog, bytes, sent, got, code, status>>

\* run_capture's loop, until its buffer is full or the pipe at its end.
Capture ==
    /\ pc["sh"] = "read"
    /\ LET want == ReadMax - Len(got) IN
       IF want = 0 \/ AtEof
       THEN Goto("sh", "closeRead") /\ UNCHANGED <<bytes, got>>
       ELSE /\ got' = got \o Taken(want)
            /\ bytes' = SubSeq(bytes, Len(Taken(want)) + 1, Len(bytes))
            /\ UNCHANGED pc
    /\ UNCHANGED <<mode, prog, fds, sent, code, status>>

Wait(p) ==
    /\ pc["sh"] = IF p = "left" THEN "waitLeft" ELSE "waitRight"
    /\ pc[p] = "zombie"
    /\ pc' = [pc EXCEPT ![p] = "gone",
                        !["sh"] = IF p = "left" /\ mode = "pipeline"
                                  THEN "waitRight" ELSE "done"]
    /\ status' = code[p]
    /\ UNCHANGED <<mode, prog, fds, bytes, sent, got, code>>

-----------------------------------------------------------------------------
Step(p) ==
    \/ p \in Children /\ (Dup2(p) \/ CloseEnds(p) \/ exec_argv(p))
    \/ p = "left" /\ (WriteSome \/ WriteEnd)
    \/ p = "right" /\ ReadRight
    \/ p = "sh" /\ \/ \E q \in Children : Fork(q) \/ Wait(q)
                   \/ CloseRead \/ CloseWrite \/ Capture

PipelineNext == \E p \in Procs : Step(p)

\* The scheduler's round robin gives every process its turn (ProcSched).
PipelineSpec == PipelineInit /\ [][PipelineNext]_pipelineVars /\ \A p \in Procs : WF_pipelineVars(Step(p))

-----------------------------------------------------------------------------
(* Properties.                                                             *)

\* What the left program meant to write.
Output == CASE prog.left = "missing" -> <<ErrByte>>
            [] prog.left = "endless" -> [i \in 1 .. ReadMax |-> SameByte]
            [] OTHER -> [i \in 1 .. OutLen |-> i]

Stopping == IF mode = "capture" \/ prog.right = "head"
            THEN IF ReadMax < Len(Output) THEN ReadMax ELSE Len(Output)
            ELSE Len(Output)

\* When the shell goes on, both children have been waited for, its status is
\* the right program's, and a reader that reads to the end has read all that
\* a program which retries has written: no byte lost, repeated or out of
\* order, and nobody took an empty pipe for a finished one.
PipelineWhole ==
    pc["sh"] = "done" /\ status # -1 =>
      /\ \A p \in Children : pc[p] \in {"gone", "none"}
      /\ mode = "pipeline" => status = code["right"]
      /\ (prog.left # "once" /\ (mode = "capture" \/ prog.right \in {"patient", "head"})) =>
           got = SubSeq(Output, 1, Stopping)

\* Whatever the two programs do, with the pipe full or empty, and when one
\* ends before the other, is missing, or never ends by itself, the shell gets
\* its prompt back and no child runs on.
Ended == /\ pc["sh"] = "done"
         /\ \A p \in Children : pc[p] \notin {"run", "exec", "dup2"}
PipelineEnds == <>[]Ended

\* cat.c: "behave like a basic `cat` and copy stdin to stdout".  It writes
\* each buffer once, and what does not fit into the pipe is gone.
CatCopies ==
    (/\ pc["sh"] = "done" /\ status = 0 /\ mode = "pipeline"
     /\ prog = [left |-> "once", right |-> "patient"]) => got = Output
=============================================================================
