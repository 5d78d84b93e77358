--------------------------------- MODULE Copy ---------------------------------
(***************************************************************************)
(* cp and mv: one source after the other is opened, its destination        *)
(* created or truncated, the contents carried over a buffer at a time, and *)
(* by mv, which has no rename to call, the source unlinked.  Every step is *)
(* one system call that has an effect, and any of them may fail.           *)
(*                                                                         *)
(* A path is <<n>> in the working directory or <<Dir, n>>.  Names of one   *)
(* file are names with one inode; inode 0 is none, and its data is what    *)
(* comes from standard input, the source "-".                              *)
(***************************************************************************)
EXTENDS Naturals, Sequences, SequencesExt, FiniteSets

CONSTANTS
    Dir,
    Paths,     \* of files
    Commands,  \* [tool : {"cp", "mv"}, srcs : sequences of paths, dst : a path]
    Files,     \* initial [name : [Paths -> inodes], data : ..., ro : inodes of the archive]
    Buf,       \* bytes a read brings (4096)
    Cap,       \* bytes a file holds (RAMFILE_CAP)
    MaxFaults

Stdin == <<"-">>

CopyAssumption ==
    /\ {Buf, Cap} \subseteq Nat \ {0} /\ MaxFaults \in Nat
    /\ \A f \in Files : DOMAIN f.name = Paths /\ DOMAIN f.data \subseteq Nat
    /\ \A c \in Commands :
         /\ c.dst = <<Dir>> \/ c.dst \in Paths
         /\ \A i \in DOMAIN c.srcs :
              /\ c.dst = <<Dir>> /\ c.srcs[i] # <<Dir>> => <<Dir, Last(c.srcs[i])>> \in Paths
              /\ \A j \in 1 .. i - 1 : c.srcs[i] # Stdin \/ c.srcs[j] # Stdin

VARIABLES
    cmd, start,       \* the command, and the files as it finds them
    name, data,       \* the files now
    todo, pc, in, off, out, buf,
    status, faults

copyVars == <<todo, pc, in, off, out, buf>>
vars == <<cmd, start, name, data, copyVars, status, faults>>

Into == cmd.dst = <<Dir>>
Target(s) == IF Into THEN <<Dir, Last(s)>> ELSE cmd.dst

Init ==
    /\ cmd \in Commands /\ start \in Files
    /\ name = start.name /\ data = start.data
    /\ todo = cmd.srcs /\ in = 0 /\ off = 0 /\ out = [ino |-> 0, off |-> 0] /\ buf = <<>>
    /\ faults = 0
    /\ IF Len(cmd.srcs) > 1 /\ cmd.dst # <<Dir>>
       THEN pc = "done" /\ status = 1
       ELSE pc = "open" /\ status = 0

Free == {i \in DOMAIN data \ {0} : \A p \in Paths : name[p] # i}

\* The next source, after one that has been dealt with.
Go(rc) ==
    /\ todo' = Tail(todo)
    /\ pc' = IF Len(todo) = 1 THEN "done" ELSE "open"
    /\ status' = IF rc = 0 THEN status ELSE 1
    /\ buf' = <<>>

Fault == faults < MaxFaults /\ faults' = faults + 1

\* A directory, and a name that does not exist, are passed over; so is
\* standard input, by mv.
Refused(s) ==
    IF s = Stdin THEN cmd.tool = "mv" ELSE s \notin {p \in Paths : name[p] # 0}

OpenSource ==
    /\ pc = "open"
    /\ \/ /\ ~Refused(Head(todo))
          /\ pc' = "create"
          /\ in' = IF Head(todo) = Stdin THEN 0 ELSE name[Head(todo)]
          /\ off' = 0
          /\ UNCHANGED <<todo, buf, status, faults>>
       \/ /\ Refused(Head(todo)) /\ Go(1) /\ UNCHANGED <<in, off, faults>>
       \/ /\ ~Refused(Head(todo)) /\ Head(todo) # Stdin /\ Fault
          /\ Go(1) /\ UNCHANGED <<in, off>>
    /\ UNCHANGED <<cmd, start, name, data, out>>

\* O_CREAT and O_TRUNC take effect even if no descriptor is left.
OpenTarget ==
    LET t == Target(Head(todo)) IN
    /\ pc = "create"
    /\ IF (IF name[t] = 0 THEN Free = {} ELSE name[t] \in start.ro)
       THEN Go(1) /\ UNCHANGED <<name, data, out, faults>>
       ELSE LET i == IF name[t] = 0 THEN CHOOSE f \in Free : TRUE ELSE name[t] IN
            /\ name' = [name EXCEPT ![t] = i]
            /\ data' = [data EXCEPT ![i] = <<>>]
            /\ out' = [ino |-> i, off |-> 0]
            /\ \/ pc' = "copy" /\ UNCHANGED <<todo, buf, status, faults>>
               \/ Fault /\ Go(1)
    /\ UNCHANGED <<cmd, start, in, off>>

Least(a, b) == IF a < b THEN a ELSE b

\* Standard input comes in any pieces.
Sizes == LET n == Least(Buf, Len(data[in]) - off) IN IF in = 0 THEN 1 .. n ELSE {n}

\* copy_file, the loop of cp_one
Read ==
    /\ pc = "copy" /\ buf = <<>>
    /\ \/ /\ off < Len(data[in])
          /\ \E n \in Sizes :
               buf' = SubSeq(data[in], off + 1, off + n) /\ off' = off + n
          /\ UNCHANGED <<todo, pc, status, faults>>
       \/ /\ off >= Len(data[in]) /\ cmd.tool = "cp" /\ Go(0) /\ UNCHANGED <<off, faults>>
       \/ /\ off >= Len(data[in]) /\ cmd.tool = "mv"
          /\ pc' = "unlink" /\ UNCHANGED <<todo, off, buf, status, faults>>
       \/ /\ Fault /\ Go(1) /\ UNCHANGED off
    /\ UNCHANGED <<cmd, start, name, data, in, out>>

\* write_all goes on with what a write has left.
Rest_Dropped(n) == <<>>

Rest(n) == SubSeq(buf, n + 1, Len(buf))

Write ==
    /\ pc = "copy" /\ buf # <<>>
    /\ LET n == Least(Len(buf), Cap - out.off) IN
       IF n = 0
       THEN Go(1) /\ UNCHANGED <<data, out>>
       ELSE /\ data' = [data EXCEPT ![out.ino] =
                          SubSeq(@, 1, out.off) \o SubSeq(buf, 1, n)
                            \o SubSeq(@, out.off + n + 1, Len(@))]
            /\ out' = [out EXCEPT !.off = @ + n]
            /\ buf' = Rest(n)
            /\ UNCHANGED <<todo, pc, status>>
    /\ UNCHANGED <<cmd, start, name, in, off, faults>>

Unlink ==
    LET s == Head(todo) IN
    /\ pc = "unlink"
    /\ IF name[s] = 0 \/ name[s] \in start.ro
       THEN Go(1) /\ UNCHANGED name
       ELSE Go(0) /\ name' = [name EXCEPT ![s] = 0]
    /\ UNCHANGED <<cmd, start, data, in, off, out, faults>>

Next == OpenSource \/ OpenTarget \/ Read \/ Write \/ Unlink
Spec == Init /\ [][Next]_vars

-----------------------------------------------------------------------------
(* Properties.                                                             *)

Contents(names, cells, p) == IF p \notin Paths \/ names[p] = 0 THEN {} ELSE {cells[names[p]]}
Now(p)  == Contents(name, data, p)
Then(p) == Contents(start.name, start.data, p)

Sources == {s \in Range(cmd.srcs) : s \in Paths /\ start.name[s] # 0}
Targets == {Target(s) : s \in Range(cmd.srcs)} \cap Paths

\* No file is named twice by the command: not as a source and a target, nor
\* as the target of two sources.
Apart ==
    /\ IsInjective([i \in DOMAIN cmd.srcs |-> Target(cmd.srcs[i])])
    /\ Sources \cap Targets = {}
    /\ \A p, q \in Sources \cup Targets : p # q /\ start.name[p] # 0 => start.name[p] # start.name[q]

\* Whatever fails on the way, a file that is moved is at every moment whole
\* at its old or at its new place, one that is copied stays as it is, and no
\* other changes; and when the command reports success, everything has
\* arrived.  That is so as long as no file is named twice: "mv a a" removes
\* the file.
CopyRight ==
    Apart =>
      /\ \A s \in Sources : Now(s) = Then(s) \/ (cmd.tool = "mv" /\ Now(Target(s)) = Then(s))
      /\ \A p \in Paths \ (Sources \cup Targets) :
           Now(p) = Then(p) \/ \E t \in Targets : start.name[t] = start.name[p]
      /\ pc = "done" /\ status = 0 =>
           \A s \in Range(cmd.srcs) :
             /\ Now(Target(s)) = IF s = Stdin THEN {start.data[0]} ELSE Then(s)
             /\ cmd.tool = "mv" => name[s] = 0
=============================================================================
